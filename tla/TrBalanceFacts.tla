-------------------------- MODULE TrBalanceFacts --------------------------
(***************************************************************************)
(* What the compiler's code needs to be balanced (CodeBalanced), and what  *)
(* its expressions do for it. Code has a certificate if each offset that   *)
(* is reached has one height: then Reached, which follows the code from    *)
(* its start, is within the certificate and finds nothing wrong            *)
(* (BalancedIfAny). The helpers of the compiler extend the certificate of  *)
(* the code so far as they extend the code.                                *)
(* What an action may emit depends on the tokens read, as binary picks its *)
(* instruction by them: TextInv says which there can be before the call on *)
(* top. And it depends on the heights at which the calls in progress began *)
(* and will end: Typing records them, for each call of the function being  *)
(* compiled.                                                               *)
(* The last part says of each action of an expression that it keeps        *)
(* BalanceInv; TrBalanceProofs says so of the others.                      *)
(***************************************************************************)
EXTENDS TrCompilerChecked, TrCompilerProofs

(* A function over naturals may be defined from its value one below.       *)
Iterates(r, n, X, b, G) ==
  r \in [0 .. n -> X] /\ \A k \in 0 .. n : r[k] = IF k = 0 THEN b ELSE G[r[k - 1]]

(* Such a function exists, to every length.                                *)
LEMMA CanIterate ==
  ASSUME NEW X, NEW b \in X, NEW G \in [X -> X], NEW n \in Nat
  PROVE  \E r : Iterates(r, n, X, b, G)
<1>. DEFINE Out == {m \in Nat : ~ \E r : Iterates(r, m, X, b, G)}
<1>1. SUFFICES ASSUME Out # {}
               PROVE  FALSE
  OBVIOUS
<1>2. PICK m \in Out : \A k \in Out : m <= k
  BY <1>1, LeastOf
<1>3. CASE m = 0
  <2>. DEFINE r == [k \in 0 .. 0 |-> b]
  <2>1. Iterates(r, 0, X, b, G)
    BY DEF Iterates
  <2>. QED
    BY <1>2, <1>3, <2>1
<1>4. CASE m # 0
  <2>1. m \in Nat /\ m - 1 \in Nat /\ ~ (m <= m - 1) /\ m - 1 \notin Out
    BY <1>2, <1>4
  <2>2. PICK s : Iterates(s, m - 1, X, b, G)
    BY <2>1
  <2>. DEFINE r == [k \in 0 .. m |-> IF k = m THEN G[s[m - 1]] ELSE s[k]]
  <2>3. r \in [0 .. m -> X]
    BY <2>1, <2>2 DEF Iterates
  <2>4. ASSUME NEW k \in 0 .. m
        PROVE  r[k] = IF k = 0 THEN b ELSE G[r[k - 1]]
    <3>1. CASE k = m
      BY <1>4, <2>1, <3>1
    <3>2. CASE k # m
      <4>1. k \in 0 .. m - 1 /\ (k # 0 => k - 1 \in 0 .. m - 1)
        BY <2>1, <3>2
      <4>2. s[k] = IF k = 0 THEN b ELSE G[s[k - 1]]
        BY <2>2, <4>1 DEF Iterates
      <4>3. r[k] = s[k] /\ (k # 0 => r[k - 1] = s[k - 1])
        BY <2>1, <3>2, <4>1
      <4>. QED
        BY <4>2, <4>3
    <3>. QED
      BY <3>1, <3>2
  <2>5. Iterates(r, m, X, b, G)
    BY <2>3, <2>4 DEF Iterates
  <2>. QED
    BY <1>2, <2>5
<1>. QED
  BY <1>3, <1>4

(* The offsets and heights that n instructions can reach, one more at a    *)
(* time, never leave a set that is closed.                                 *)
Closed(H, f) == \A s \in H : Needs(f, s[1], s[2]) => Follows(f, s[1], s[2]) \subseteq H
After(f, T) ==
  T \cup UNION {Follows(f, s[1], s[2]) : s \in {t \in T : Needs(f, t[1], t[2])}}

(* A step from a part of a closed set stays in the set.                    *)
LEMMA AfterIn ==
  ASSUME NEW f, NEW H, Closed(H, f), NEW T \in SUBSET H
  PROVE  After(f, T) \in SUBSET H
BY DEF After, Closed

(* What the definition of Reached reaches, as such a function.             *)
LEMMA ReachedIs ==
  ASSUME NEW f, NEW n \in Nat, NEW H, Closed(H, f), <<0, f.arity + 1>> \in H
  PROVE  \E r : /\ r = [k \in 0 .. n |-> IF k = 0 THEN {<<0, f.arity + 1>>} ELSE After(f, r[k - 1])]
                /\ ReachedIn(f, n) = r[n]
<1>. DEFINE b == {<<0, f.arity + 1>>}  X == SUBSET H  G == [T \in X |-> After(f, T)]
            Is(r) == r = [k \in 0 .. n |-> IF k = 0 THEN b ELSE After(f, r[k - 1])]
<1>1. b \in X /\ G \in [X -> X]
  BY AfterIn
<1>. HIDE DEF G, b, X
<1>2. PICK r : Iterates(r, n, X, b, G)
  BY <1>1, CanIterate
<1>3. \A k \in 0 .. n : k # 0 => G[r[k - 1]] = After(f, r[k - 1])
  <2>1. \A k \in 0 .. n : k # 0 => k - 1 \in 0 .. n
    OBVIOUS
  <2>2. \A k \in 0 .. n : k # 0 => r[k - 1] \in X
    BY <1>2, <2>1 DEF Iterates
  <2>. QED
    BY <2>2 DEF G
<1>4. Is(r)
  BY <1>2, <1>3 DEF Iterates
<1>5. ReachedIn(f, n) = (CHOOSE g : Is(g))[n]
  BY DEF ReachedIn, After, b
<1>. QED
  BY <1>4, <1>5 DEF b

(* A set of offsets and heights with one height for each offset is no      *)
(* larger than the code.                                                   *)
LEMMA HeightsFinite ==
  ASSUME NEW n \in Nat, NEW H \in SUBSET ((0 .. n - 1) \X Int),
         \A s, t \in H : s[1] = t[1] => s = t
  PROVE  IsFiniteSet(H) /\ Cardinality(H) <= n
<1>. DEFINE g == [s \in H |-> s[1]]
<1>1. g \in Injection(H, 0 .. n - 1)
  <2>1. \A s \in H : s[1] \in 0 .. n - 1
    OBVIOUS
  <2>2. g \in [H -> 0 .. n - 1]
    BY <2>1
  <2>3. IsInjective(g)
    BY DEF IsInjective
  <2>. QED
    BY <2>2, <2>3 DEF Injection
<1>2. IsFiniteSet(0 .. n - 1) /\ Cardinality(0 .. n - 1) = n
  BY FS_Interval
<1>. QED
  BY <1>1, <1>2, FS_Injection

(* What as many instructions as there are bytes of code can reach is all   *)
(* that can be reached, if it is within a set of one height for each       *)
(* offset: each step adds an offset or is the last that adds any.          *)
LEMMA ReachedCloses ==
  ASSUME NEW f, Len(f.code) \in Nat, NEW H \in SUBSET ((0 .. Len(f.code) - 1) \X Int),
         \A s, t \in H : s[1] = t[1] => s = t,
         Closed(H, f), <<0, f.arity + 1>> \in H
  PROVE  /\ Reached(f) \subseteq H /\ <<0, f.arity + 1>> \in Reached(f)
         /\ Closed(Reached(f), f)
<1>. DEFINE n == Len(f.code)  b == {<<0, f.arity + 1>>}
<1>1. PICK r : /\ r = [k \in 0 .. n |-> IF k = 0 THEN b ELSE After(f, r[k - 1])]
               /\ ReachedIn(f, n) = r[n]
  BY ReachedIs
<1>2. n \in Nat /\ b \in SUBSET H
  OBVIOUS
<1>3. IsFiniteSet(H) /\ Cardinality(H) <= n
  BY <1>2, HeightsFinite
<1>. HIDE DEF n
<1>4. r[0] = b
  BY <1>1, <1>2
<1>5. \A k \in 1 .. n : r[k] = After(f, r[k - 1]) /\ k - 1 \in 0 .. n
  <2>1. \A k \in 0 .. n : r[k] = IF k = 0 THEN b ELSE After(f, r[k - 1])
    BY <1>1
  <2>2. \A k \in 1 .. n : k \in 0 .. n /\ k # 0 /\ k - 1 \in 0 .. n
    BY <1>2
  <2>. QED
    BY <2>1, <2>2
<1>. HIDE DEF b
<1>6. \A k \in 0 .. n : r[k] \in SUBSET H /\ b \subseteq r[k]
  <2>. DEFINE Out == {k \in 0 .. n : ~ (r[k] \in SUBSET H /\ b \subseteq r[k])}
  <2>1. SUFFICES ASSUME Out # {}
                 PROVE  FALSE
    OBVIOUS
  <2>2. Out \in SUBSET Nat
    OBVIOUS
  <2>3. PICK m \in Out : \A k \in Out : m <= k
    BY <2>1, <2>2, LeastOf
  <2>4. m # 0
    BY <1>2, <1>4, <2>3
  <2>5. m \in 1 .. n /\ m - 1 \in 0 .. n /\ ~ (m <= m - 1)
    BY <1>2, <2>3, <2>4
  <2>6. r[m - 1] \in SUBSET H /\ b \subseteq r[m - 1]
    BY <2>3, <2>5
  <2>7. r[m] \in SUBSET H /\ r[m - 1] \subseteq r[m]
    BY <1>5, <2>5, <2>6, AfterIn DEF After
  <2>. QED
    BY <2>3, <2>6, <2>7
<1>7. \A k \in 0 .. n : IsFiniteSet(r[k]) /\ Cardinality(r[k]) \in Nat
  BY <1>3, <1>6, FS_Subset, FS_CardinalityType
<1>8. \A T : Closed(T, f) <=> After(f, T) = T
  BY DEF Closed, After
<1>9. \A k \in 0 .. n : Closed(r[k], f) \/ Cardinality(r[k]) >= k + 1
  <2>. DEFINE Out == {k \in 0 .. n : ~ (Closed(r[k], f) \/ Cardinality(r[k]) >= k + 1)}
  <2>1. SUFFICES ASSUME Out # {}
                 PROVE  FALSE
    OBVIOUS
  <2>2. Out \in SUBSET Nat
    OBVIOUS
  <2>3. PICK m \in Out : \A k \in Out : m <= k
    BY <2>1, <2>2, LeastOf
  <2>4. m # 0
    <3>1. Cardinality(b) = 1
      BY FS_Singleton DEF b
    <3>. QED
      BY <1>2, <1>4, <2>3, <3>1
  <2>5. m \in 1 .. n /\ m - 1 \in 0 .. n /\ ~ (m <= m - 1)
    BY <1>2, <2>3, <2>4
  <2>6. Closed(r[m - 1], f) \/ Cardinality(r[m - 1]) >= m
    BY <2>3, <2>5
  <2>7. r[m] = After(f, r[m - 1]) /\ r[m - 1] \subseteq r[m]
    BY <1>5, <2>5 DEF After
  <2>8. CASE Closed(r[m - 1], f)
    BY <1>8, <2>3, <2>7, <2>8
  <2>9. CASE ~ Closed(r[m - 1], f)
    <3>1. r[m - 1] # r[m]
      BY <1>8, <2>7, <2>9
    <3>2. Cardinality(r[m - 1]) < Cardinality(r[m])
      <4>1. IsFiniteSet(r[m]) /\ Cardinality(r[m]) \in Nat /\ Cardinality(r[m - 1]) \in Nat
        BY <1>7, <2>5
      <4>. QED
        BY <2>7, <3>1, <4>1, FS_Subset
    <3>3. Cardinality(r[m]) >= m + 1
      BY <1>7, <2>5, <2>6, <2>9, <3>2
    <3>. QED
      BY <2>3, <3>3
  <2>. QED
    BY <2>8, <2>9
<1>10. n \in 0 .. n
  BY <1>2
<1>11. Cardinality(r[n]) <= n
  <2>1. Cardinality(r[n]) <= Cardinality(H) /\ Cardinality(r[n]) \in Nat /\ Cardinality(H) \in Nat
    BY <1>3, <1>6, <1>7, <1>10, FS_Subset, FS_CardinalityType
  <2>. QED
    BY <1>2, <1>3, <2>1
<1>12. Closed(r[n], f)
  <2>1. ~ (Cardinality(r[n]) >= n + 1)
    BY <1>2, <1>7, <1>10, <1>11
  <2>. QED
    BY <1>9, <1>10, <2>1
<1>13. Reached(f) = r[n]
  BY <1>1 DEF Reached, n
<1>. QED
  BY <1>6, <1>10, <1>12, <1>13 DEF b

(* If any set balances a function, with one height for each offset, then   *)
(* the heights that it reaches do.                                         *)
THEOREM BalancedIfAny ==
  ASSUME NEW f, Len(f.code) \in Nat, NEW H \in SUBSET ((0 .. Len(f.code) - 1) \X Int),
         \A s, t \in H : s[1] = t[1] => s = t,
         NEW isScript, Balances(H, f, isScript)
  PROVE  Balanced(f, isScript)
<1>1. Closed(H, f) /\ <<0, f.arity + 1>> \in H
  BY DEF Balances, Closed
<1>2. Reached(f) \subseteq H /\ <<0, f.arity + 1>> \in Reached(f) /\ Closed(Reached(f), f)
  BY <1>1, ReachedCloses
<1>. QED
  BY <1>2 DEF Balanced, Balances, Closed

(* The instructions that code with a certificate consists of.              *)
SimpleOps ==
  {"NIL", "CONSTANT", "GET_GLOBAL", "SET_GLOBAL", "DEFINE_GLOBAL", "GET_LOCAL", "SET_LOCAL",
   "CALL", "RETURN", "POP", "NOT", "JMP", "JMP_FALSE", "LOOP"} \cup IBinaryOps \cup FBinaryOps

(* g has the constants of f, and its code, but perhaps for some bytes.     *)
Extends(f, g) ==
  /\ Len(f.code) <= Len(g.code) /\ Len(f.consts) <= Len(g.consts)
  /\ \A k \in 1 .. Len(f.consts) : g.consts[k] = f.consts[k]

(* The code so far, with a height for each of its offsets and for its end. *)
(* The targets of the jumps in O are not known yet.                        *)
Sits(f, H, O, i, h) ==
  LET op == OpAt(f, i)
      next == i + InstructionLength(op)
  IN  /\ op \in SimpleOps
      /\ next <= Len(f.code)
      /\ \A t \in H : t[1] > i => t[1] >= next
      /\ Needs(f, i, h)
      /\ f.type = "SCRIPT" => op # "RETURN"
      /\ op = "JMP_FALSE" => <<next, h>> \in H
      /\ i \in O \/ Follows(f, i, h) \subseteq H

Cert(f, H, O, e) ==
  /\ H \subseteq (0 .. Len(f.code)) \X (Nat \ {0})
  /\ \A s, t \in H : s[1] = t[1] => s = t
  /\ <<0, f.arity + 1>> \in H /\ <<Len(f.code), e>> \in H
  /\ \A s \in H : s[1] < Len(f.code) => Sits(f, H, O, s[1], s[2])

(* The instructions are found again where they are written.                *)
LEMMA OpcodeIs ==
  ASSUME NEW op \in Emitted, NEW f, NEW i, ByteAt(f, i) = Opcode[op]
  PROVE  OpAt(f, i) = op
<1>1. Len(OPS) = 36
  BY DEF OPS
<1>2. \E j \in 1 .. 36 : OPS[j] = op
  BY DEF OPS, Emitted
<1>. DEFINE j == CHOOSE k \in 1 .. Len(OPS) : OPS[k] = op
<1>3. j \in 1 .. 36 /\ OPS[j] = op
  BY <1>1, <1>2
<1>4. op \in {OPS[k] : k \in 1 .. Len(OPS)}
  BY <1>1, <1>2
<1>5. Opcode[op] = j - 1
  BY <1>4 DEF Opcode
<1>. HIDE DEF j
<1>6. j - 1 < 36 /\ j - 1 + 1 = j
  BY <1>3
<1>. QED
  BY <1>1, <1>3, <1>5, <1>6 DEF OpAt

(* The compiler emits these instructions, and others.                      *)
LEMMA SimpleIsEmitted == SimpleOps \subseteq Emitted
BY DEF SimpleOps, Emitted, IBinaryOps, FBinaryOps

(* Their lengths.                                                          *)
LEMMA LengthIs ==
  ASSUME NEW op \in SimpleOps
  PROVE  /\ InstructionLength(op) \in {1, 2, 3}
         /\ op \in {"JMP", "JMP_FALSE", "LOOP"} => InstructionLength(op) = 3
         /\ op \in {"CONSTANT", "GET_GLOBAL", "SET_GLOBAL", "DEFINE_GLOBAL", "GET_LOCAL",
                    "SET_LOCAL", "CALL"} => InstructionLength(op) = 2
         /\ op \in {"NIL", "RETURN", "POP", "NOT"} \cup IBinaryOps \cup FBinaryOps
              => InstructionLength(op) = 1
BY DEF SimpleOps, InstructionLength, NamedOps, JumpOps, IBinaryOps, FBinaryOps

(* The instruction at i is in g what it is in f.                           *)
SameAt(f, g, i) ==
  \A k \in 0 .. InstructionLength(OpAt(f, i)) - 1 : ByteAt(g, i + k) = ByteAt(f, i + k)

(* What an instruction does depends on its own bytes alone, and what it    *)
(* needs is still there when there is more.                                *)
LEMMA SameInstruction ==
  ASSUME NEW f, NEW g, NEW i \in Nat, OpAt(f, i) \in SimpleOps, SameAt(f, g, i)
  PROVE  /\ OpAt(g, i) = OpAt(f, i)
         /\ \A h : Follows(g, i, h) = Follows(f, i, h)
<1>. DEFINE op == OpAt(f, i)
<1>1. InstructionLength(op) \in {1, 2, 3}
  BY LengthIs
<1>2. ByteAt(g, i) = ByteAt(f, i)
  <2>1. 0 \in 0 .. InstructionLength(op) - 1 /\ i + 0 = i
    BY <1>1
  <2>. QED
    BY <2>1 DEF SameAt
<1>3. OpAt(g, i) = op
  BY <1>2 DEF OpAt
<1>4. InstructionLength(op) \in {2, 3} => Operand(g, i) = Operand(f, i)
  BY DEF Operand, SameAt
<1>5. InstructionLength(op) = 3 => Short(g, i) = Short(f, i)
  BY DEF Short, SameAt
<1>. HIDE DEF op
<1>6. op \in SimpleOps
  BY DEF op
<1>7. op = "CALL" => Operand(g, i) = Operand(f, i)
  BY <1>4, <1>6, LengthIs
<1>8. op \in {"JMP", "JMP_FALSE", "LOOP"} => Short(g, i) = Short(f, i)
  BY <1>5, <1>6, LengthIs
<1>9. \A h : Follows(g, i, h) = Follows(f, i, h)
  BY <1>3, <1>6, <1>7, <1>8 DEF Follows, op, SimpleOps, IBinaryOps, FBinaryOps
<1>. QED
  BY <1>3, <1>9 DEF op

(* It needs no more, either.                                               *)
LEMMA NeedsMore ==
  ASSUME NEW f, NEW g, NEW i \in Nat, NEW h \in Nat, OpAt(f, i) \in SimpleOps,
         Len(f.code) \in Nat, Len(g.code) \in Nat, Len(f.consts) \in Nat, Len(g.consts) \in Nat,
         SameAt(f, g, i), Extends(f, g), Needs(f, i, h)
  PROVE  Needs(g, i, h)
<1>. DEFINE op == OpAt(f, i)  a == Operand(f, i)
<1>1. InstructionLength(op) \in {1, 2, 3}
  BY LengthIs
<1>2. ByteAt(g, i) = ByteAt(f, i)
  <2>1. 0 \in 0 .. InstructionLength(op) - 1 /\ i + 0 = i
    BY <1>1
  <2>. QED
    BY <2>1 DEF SameAt
<1>3. OpAt(g, i) = op
  BY <1>2 DEF OpAt
<1>4. InstructionLength(op) \in {2, 3} => Operand(g, i) = a
  BY DEF Operand, SameAt
<1>5. \A n : HasBytes(f, i, n) /\ n \in 0 .. 2 => HasBytes(g, i, n)
  BY DEF HasBytes, Extends
<1>6. \A k : HasConstant(f, k) => HasConstant(g, k) /\ ConstantAt(g, k) = ConstantAt(f, k)
  BY DEF HasConstant, ConstantAt, Extends
<1>7. Operand(g, i) = a /\ HasName(f, i) => HasName(g, i)
  BY <1>5, <1>6 DEF HasName
<1>8. op \in SimpleOps /\ HasBytes(f, i, 0)
  BY DEF Needs
<1>9. op \in {"CONSTANT", "GET_GLOBAL", "SET_GLOBAL", "DEFINE_GLOBAL", "GET_LOCAL",
                    "SET_LOCAL", "CALL"} => Operand(g, i) = a
  BY <1>4, <1>8, LengthIs
<1>10. OpAt(f, i) = op /\ Operand(f, i) = a /\ Needs(f, i, h)
  OBVIOUS
<1>. HIDE DEF op, a
<1>. QED
  BY <1>3, <1>5, <1>6, <1>7, <1>8, <1>9, <1>10 DEF Needs, SimpleOps, IBinaryOps, FBinaryOps

(* What the lemmas below need of the function being compiled.              *)
Typed(f) == f.code \in Seq(Bytes) /\ Len(f.code) \in Nat /\ Len(f.consts) \in Nat

(* g is f with more code, and the constants it needs.                      *)
Appends(f, g, b) ==
  /\ Typed(f) /\ Typed(g) /\ b \in Seq(Bytes)
  /\ g.code = f.code \o b /\ g.arity = f.arity /\ g.type = f.type
  /\ Extends(f, g)

(* The bytes of code that is appended to, and those appended.              *)
LEMMA AppendedBytes ==
  ASSUME NEW f, NEW g, NEW b, Appends(f, g, b)
  PROVE  /\ Len(g.code) = Len(f.code) + Len(b) /\ Len(b) \in Nat
         /\ \A i \in 0 .. Len(f.code) - 1 : ByteAt(g, i) = ByteAt(f, i)
         /\ \A k \in 0 .. Len(b) - 1 : ByteAt(g, Len(f.code) + k) = b[k + 1]
         /\ Len(b) >= 1 => ByteAt(g, Len(f.code)) = b[1]
         /\ Len(b) >= 2 => ByteAt(g, Len(f.code) + 1) = b[2]
         /\ Len(b) >= 3 => ByteAt(g, Len(f.code) + 2) = b[3]
<1>1. /\ f.code \in Seq(Bytes) /\ b \in Seq(Bytes) /\ g.code = f.code \o b
      /\ Len(f.code) \in Nat /\ Len(b) \in Nat
  BY DEF Appends, Typed
<1>2. /\ Len(g.code) = Len(f.code) + Len(b)
      /\ \A i \in 1 .. Len(f.code) + Len(b) :
           g.code[i] = IF i <= Len(f.code) THEN f.code[i] ELSE b[i - Len(f.code)]
  BY <1>1, ConcatProperties
<1>3. ASSUME NEW i \in 0 .. Len(f.code) - 1
      PROVE  ByteAt(g, i) = ByteAt(f, i)
  <2>1. i + 1 \in 1 .. Len(f.code) + Len(b) /\ i + 1 <= Len(f.code)
    BY <1>1
  <2>. QED
    BY <1>2, <2>1 DEF ByteAt
<1>4. ASSUME NEW k \in 0 .. Len(b) - 1
      PROVE  ByteAt(g, Len(f.code) + k) = b[k + 1]
  <2>. DEFINE n == Len(f.code)  m == Len(b)  i == n + k + 1
  <2>1. n \in Nat /\ m \in Nat /\ k \in 0 .. m - 1
    BY <1>1
  <2>. HIDE DEF n, m
  <2>2. i \in 1 .. n + m /\ ~ (i <= n) /\ i - n = k + 1
    BY <2>1
  <2>. HIDE DEF i
  <2>3. g.code[i] = b[k + 1]
    BY <1>2, <2>2 DEF n, m
  <2>. QED
    BY <2>3 DEF ByteAt, i, n
<1>5. Len(b) >= 1 => ByteAt(g, Len(f.code)) = b[1]
  <2>1. Len(b) >= 1 => ByteAt(g, Len(f.code) + 0) = b[0 + 1]
    BY <1>1, <1>4
  <2>2. Len(f.code) + 0 = Len(f.code)
    BY <1>1
  <2>. QED
    BY <2>1, <2>2
<1>6. Len(b) >= 2 => ByteAt(g, Len(f.code) + 1) = b[1 + 1]
  BY <1>1, <1>4
<1>7. Len(b) >= 3 => ByteAt(g, Len(f.code) + 2) = b[2 + 1]
  BY <1>1, <1>4
<1>. QED
  BY <1>1, <1>2, <1>3, <1>4, <1>5, <1>6, <1>7

(* What is certified stays so when its bytes stay.                         *)
LEMMA SitsStill ==
  ASSUME NEW f, NEW g, Typed(f), Typed(g), Extends(f, g), g.type = f.type,
         NEW H, NEW K, H \subseteq K, NEW O, NEW Q, NEW i \in Nat, NEW h \in Nat,
         Sits(f, H, O, i, h), i \in O => i \in Q,
         \A t \in K : t \in H \/ t[1] >= Len(f.code), \A t \in K : t[1] \in Int,
         SameAt(f, g, i)
  PROVE  Sits(g, K, Q, i, h)
<1>. DEFINE op == OpAt(f, i)  next == i + InstructionLength(op)
<1>1. /\ op \in SimpleOps /\ next <= Len(f.code) /\ Needs(f, i, h)
      /\ \A t \in H : t[1] > i => t[1] >= next
      /\ op = "JMP_FALSE" => <<next, h>> \in H
      /\ i \in O \/ Follows(f, i, h) \subseteq H
      /\ f.type = "SCRIPT" => op # "RETURN"
  BY DEF Sits
<1>2. OpAt(g, i) = op /\ Follows(g, i, h) = Follows(f, i, h)
  BY <1>1, SameInstruction
<1>3. Needs(g, i, h)
  BY <1>1, NeedsMore DEF Typed
<1>4. InstructionLength(op) \in {1, 2, 3}
  BY <1>1, LengthIs
<1>5. next <= Len(g.code)
  BY <1>1, <1>4 DEF Typed, Extends
<1>. HIDE DEF op
<1>6. \A t \in K : t[1] > i => t[1] >= next
  <2>. SUFFICES ASSUME NEW t \in K, t[1] > i
                PROVE  t[1] >= next
    OBVIOUS
  <2>1. CASE t \in H
    BY <1>1, <2>1
  <2>2. CASE t[1] >= Len(f.code)
    BY <1>1, <1>4, <2>2 DEF Typed
  <2>. QED
    BY <2>1, <2>2
<1>. HIDE DEF next
<1>7. OpAt(g, i) = op /\ i + InstructionLength(op) = next
  BY <1>2 DEF next
<1>. QED
  BY <1>1, <1>2, <1>3, <1>5, <1>6, <1>7 DEF Sits

(* An instruction more.                                                    *)
LEMMA AppendOne ==
  ASSUME NEW f, NEW g, NEW H, NEW O, NEW Q, NEW e, NEW x \in Nat, x # 0, Cert(f, H, O, e),
         NEW op \in SimpleOps, NEW b, Appends(f, g, b), Len(b) = InstructionLength(op),
         b[1] = Opcode[op], O \subseteq Q,
         Needs(g, Len(f.code), e), f.type = "SCRIPT" => op # "RETURN",
         op = "JMP_FALSE" => x = e,
         Len(f.code) \in Q \/ Follows(g, Len(f.code), e) \subseteq H \cup {<<Len(g.code), x>>}
  PROVE  Cert(g, H \cup {<<Len(g.code), x>>}, Q, x)
<1>. DEFINE n == Len(f.code)  m == Len(g.code)  K == H \cup {<<m, x>>}
<1>0. n \in Nat /\ m \in Nat /\ Typed(f) /\ Typed(g) /\ Extends(f, g)
  BY DEF Appends, Typed
<1>1. /\ H \subseteq (0 .. n) \X (Nat \ {0}) /\ \A s, t \in H : s[1] = t[1] => s = t
      /\ <<0, f.arity + 1>> \in H /\ <<n, e>> \in H
      /\ \A s \in H : s[1] < n => Sits(f, H, O, s[1], s[2])
  BY DEF Cert
<1>2. /\ m = n + InstructionLength(op) /\ InstructionLength(op) \in {1, 2, 3}
      /\ \A i \in 0 .. n - 1 : ByteAt(g, i) = ByteAt(f, i)
      /\ ByteAt(g, n) = Opcode[op]
  <2>1. InstructionLength(op) \in {1, 2, 3}
    BY LengthIs
  <2>2. Len(b) >= 1
    BY <2>1
  <2>. QED
    BY <2>1, <2>2, AppendedBytes
<1>3. OpAt(g, n) = op
  BY <1>2, OpcodeIs, SimpleIsEmitted
<1>4. \A s \in H : s[1] \in 0 .. n /\ s[2] \in Nat \ {0} /\ s = <<s[1], s[2]>>
  BY <1>1
<1>5. m > n
  BY <1>0, <1>2
<1>6. K \subseteq (0 .. m) \X (Nat \ {0})
  BY <1>0, <1>4, <1>5
<1>7. \A s, t \in K : s[1] = t[1] => s = t
  <2>1. \A s \in H : s[1] # m
    BY <1>0, <1>4, <1>5
  <2>. QED
    BY <1>1, <2>1
<1>8. <<0, g.arity + 1>> \in K /\ <<m, x>> \in K
  BY <1>1 DEF Appends
<1>9. ASSUME NEW s \in K, s[1] < m
      PROVE  Sits(g, K, Q, s[1], s[2])
  <2>1. s \in H
    BY <1>0, <1>9
  <2>2. CASE s[1] = n
    <3>1. s = <<n, e>> /\ s[1] = n /\ s[2] = e
      BY <1>1, <2>1, <2>2
    <3>2. \A t \in K : t[1] > n => t[1] >= m
      BY <1>0, <1>4
    <3>. HIDE DEF n, m, K
    <3>3. op = "JMP_FALSE" => <<m, e>> \in K
      BY <1>8
    <3>4. n \in Q \/ Follows(g, n, e) \subseteq K
      BY DEF n, m, K
    <3>5. m <= m /\ n + InstructionLength(op) = m
      BY <1>0, <1>2
    <3>6. g.type = "SCRIPT" => op # "RETURN"
      BY DEF Appends
    <3>7. Needs(g, n, e)
      BY DEF n
    <3>. QED
      BY <1>3, <3>1, <3>2, <3>3, <3>4, <3>5, <3>6, <3>7 DEF Sits, m
  <2>3. CASE s[1] # n
    <3>1. s[1] \in Nat /\ s[2] \in Nat /\ s[1] < n
      BY <1>0, <1>4, <2>1, <2>3
    <3>2. Sits(f, H, O, s[1], s[2])
      BY <1>1, <2>1, <3>1
    <3>3. \A t \in K : (t \in H \/ t[1] >= Len(f.code)) /\ t[1] \in Int
      BY <1>0, <1>4, <1>5
    <3>4. /\ s[1] + InstructionLength(OpAt(f, s[1])) <= n
          /\ InstructionLength(OpAt(f, s[1])) \in {1, 2, 3}
      BY <3>2, LengthIs DEF Sits
    <3>5. SameAt(f, g, s[1])
      <4>1. \A k \in 0 .. InstructionLength(OpAt(f, s[1])) - 1 : s[1] + k \in 0 .. n - 1
        BY SMTT(30), <1>0, <3>1, <3>4
      <4>. QED
        BY <1>2, <4>1 DEF SameAt
    <3>6. g.type = f.type /\ H \subseteq K
      BY DEF Appends
    <3>. HIDE DEF K
    <3>. QED
      BY <1>0, <3>1, <3>2, <3>3, <3>5, <3>6, SitsStill
  <2>. QED
    BY <2>2, <2>3
<1>. QED
  BY <1>6, <1>7, <1>8, <1>9 DEF Cert

(* The instructions by their lengths.                                      *)
OneByteOps == {"NIL", "RETURN", "POP", "NOT"} \cup IBinaryOps \cup FBinaryOps
TwoByteOps == {"CONSTANT", "GET_GLOBAL", "SET_GLOBAL", "DEFINE_GLOBAL", "GET_LOCAL",
               "SET_LOCAL", "CALL"}
ThreeByteOps == {"JMP", "JMP_FALSE", "LOOP"}

(* How long it is then.                                                    *)
LEMMA AppendedLength ==
  ASSUME NEW f, NEW g, NEW b, Appends(f, g, b)
  PROVE  Len(g.code) = Len(f.code) + Len(b)
BY AppendedBytes

(* What is at its end.                                                     *)
LEMMA AppendedEnd ==
  ASSUME NEW f, NEW g, NEW b, Appends(f, g, b)
  PROVE  /\ Len(g.code) = Len(f.code) + Len(b)
         /\ Len(b) >= 1 => ByteAt(g, Len(f.code)) = b[1]
         /\ Len(b) >= 2 => ByteAt(g, Len(f.code) + 1) = b[2]
         /\ Len(b) >= 3 => ByteAt(g, Len(f.code) + 2) = b[3]
BY AppendedBytes

(* The instruction that is appended, with its operand.                     *)
LEMMA OneByte ==
  ASSUME NEW f, NEW g, NEW op \in OneByteOps, Appends(f, g, <<Opcode[op]>>)
  PROVE  /\ op \in SimpleOps /\ Len(<<Opcode[op]>>) = InstructionLength(op)
         /\ OpAt(g, Len(f.code)) = op
         /\ Len(g.code) = Len(f.code) + 1 /\ HasBytes(g, Len(f.code), 0)
<1>1. op \in SimpleOps
  BY DEF OneByteOps, SimpleOps
<1>2. InstructionLength(op) = 1
  BY <1>1, LengthIs DEF OneByteOps
<1>. DEFINE b == <<Opcode[op]>>
<1>3. Len(b) = 1 /\ b[1] = Opcode[op] /\ Appends(f, g, b)
  OBVIOUS
<1>. HIDE DEF b
<1>4. Len(g.code) = Len(f.code) + 1 /\ ByteAt(g, Len(f.code)) = Opcode[op]
  <2>1. Len(b) >= 1
    BY <1>3
  <2>3. Appends(f, g, b)
    BY <1>3
  <2>4. Len(g.code) = Len(f.code) + Len(b)
    BY <2>3, AppendedLength
  <2>2. ByteAt(g, Len(f.code)) = b[1]
    BY <2>1, <2>3, AppendedEnd
  <2>. QED
    BY <1>3, <2>2, <2>4
<1>5. OpAt(g, Len(f.code)) = op
  BY <1>1, <1>4, OpcodeIs, SimpleIsEmitted
<1>6. Len(f.code) \in Nat
  BY DEF Appends, Typed
<1>. QED
  BY <1>1, <1>2, <1>3, <1>4, <1>5, <1>6 DEF HasBytes, b

(* With an operand of a byte (emit_opcode_arg).                            *)
LEMMA TwoByte ==
  ASSUME NEW f, NEW g, NEW op \in TwoByteOps, NEW a \in Nat, Appends(f, g, <<Opcode[op], a>>)
  PROVE  /\ op \in SimpleOps /\ Len(<<Opcode[op], a>>) = InstructionLength(op)
         /\ OpAt(g, Len(f.code)) = op /\ Operand(g, Len(f.code)) = a
         /\ Len(g.code) = Len(f.code) + 2
         /\ HasBytes(g, Len(f.code), 0) /\ HasBytes(g, Len(f.code), 1)
<1>1. op \in SimpleOps
  BY DEF TwoByteOps, SimpleOps
<1>2. InstructionLength(op) = 2
  BY <1>1, LengthIs DEF TwoByteOps
<1>. DEFINE b == <<Opcode[op], a>>
<1>3. Len(b) = 2 /\ b[1] = Opcode[op] /\ b[2] = a /\ Appends(f, g, b)
  OBVIOUS
<1>. HIDE DEF b
<1>4. /\ Len(g.code) = Len(f.code) + 2 /\ ByteAt(g, Len(f.code)) = Opcode[op]
      /\ ByteAt(g, Len(f.code) + 1) = a
  <2>1. Len(b) >= 1 /\ Len(b) >= 2
    BY <1>3
  <2>3. Appends(f, g, b)
    BY <1>3
  <2>4. Len(g.code) = Len(f.code) + Len(b)
    BY <2>3, AppendedLength
  <2>2. ByteAt(g, Len(f.code)) = b[1] /\ ByteAt(g, Len(f.code) + 1) = b[2]
    BY <2>1, <2>3, AppendedEnd
  <2>. QED
    BY <1>3, <2>2, <2>4
<1>5. OpAt(g, Len(f.code)) = op
  BY <1>1, <1>4, OpcodeIs, SimpleIsEmitted
<1>6. Len(f.code) \in Nat
  BY DEF Appends, Typed
<1>. QED
  BY <1>1, <1>2, <1>3, <1>4, <1>5, <1>6 DEF HasBytes, Operand, b

(* y and z are the bytes of n.                                             *)
Spans(y, z, n) == y * 256 + z = n

(* With an operand of two bytes (emit_jump, emit_loop).                    *)
LEMMA ThreeByte ==
  ASSUME NEW f, NEW g, NEW op \in ThreeByteOps, NEW x \in Nat, NEW y \in Nat,
         Appends(f, g, <<Opcode[op], x, y>>)
  PROVE  /\ op \in SimpleOps /\ Len(<<Opcode[op], x, y>>) = InstructionLength(op)
         /\ OpAt(g, Len(f.code)) = op /\ Spans(x, y, Short(g, Len(f.code)))
         /\ Len(g.code) = Len(f.code) + 3
         /\ HasBytes(g, Len(f.code), 0) /\ HasBytes(g, Len(f.code), 2)
<1>1. op \in SimpleOps
  BY DEF ThreeByteOps, SimpleOps
<1>2. InstructionLength(op) = 3
  BY <1>1, LengthIs DEF ThreeByteOps
<1>. DEFINE b == <<Opcode[op], x, y>>
<1>3. Len(b) = 3 /\ b[1] = Opcode[op] /\ b[2] = x /\ b[3] = y /\ Appends(f, g, b)
  OBVIOUS
<1>. HIDE DEF b
<1>4. /\ Len(g.code) = Len(f.code) + 3 /\ ByteAt(g, Len(f.code)) = Opcode[op]
      /\ ByteAt(g, Len(f.code) + 1) = x /\ ByteAt(g, Len(f.code) + 2) = y
  <2>1. Len(b) >= 1 /\ Len(b) >= 2 /\ Len(b) >= 3
    BY <1>3
  <2>3. Appends(f, g, b)
    BY <1>3
  <2>4. Len(g.code) = Len(f.code) + Len(b)
    BY <2>3, AppendedLength
  <2>2. /\ ByteAt(g, Len(f.code)) = b[1] /\ ByteAt(g, Len(f.code) + 1) = b[2]
        /\ ByteAt(g, Len(f.code) + 2) = b[3]
    BY <2>1, <2>3, AppendedEnd
  <2>. QED
    BY <1>3, <2>2, <2>4
<1>5. OpAt(g, Len(f.code)) = op
  BY <1>1, <1>4, OpcodeIs, SimpleIsEmitted
<1>6. Len(f.code) \in Nat
  BY DEF Appends, Typed
<1>. QED
  BY SMTT(30), <1>1, <1>2, <1>3, <1>4, <1>5, <1>6 DEF HasBytes, Short, Spans, b

(* op is on what it needs, and x is the height after it.                   *)
OneSuits(f, op, e, x) ==
  \/ op = "NIL" /\ x = e + 1
  \/ op = "NOT" /\ e >= 2 /\ x = e
  \/ op = "POP" /\ e >= 2 /\ x = e - 1
  \/ op = "RETURN" /\ e >= 2 /\ f.type # "SCRIPT"
  \/ op \in IBinaryOps \cup FBinaryOps /\ e >= 3 /\ x = e - 1

(* An instruction without operand.                                         *)
LEMMA AppendOneByte ==
  ASSUME NEW f, NEW g, NEW op \in OneByteOps, Appends(f, g, <<Opcode[op]>>),
         NEW H, NEW O, NEW e \in Nat, NEW x \in Nat, x # 0, Cert(f, H, O, e),
         OneSuits(f, op, e, x)
  PROVE  \E K : H \subseteq K /\ Cert(g, K, O, x)
<1>. USE DEF OneSuits
<1>. DEFINE n == Len(f.code)  m == Len(g.code)  K == H \cup {<<m, x>>}
<1>1. /\ op \in SimpleOps /\ Len(<<Opcode[op]>>) = InstructionLength(op)
      /\ OpAt(g, n) = op /\ m = n + 1 /\ HasBytes(g, n, 0)
  BY OneByte
<1>. HIDE DEF n, m
<1>2. Needs(g, n, e)
  BY <1>1 DEF Needs, IBinaryOps, FBinaryOps
<1>3. Follows(g, n, e) \subseteq {<<m, x>>}
  BY <1>1 DEF Follows, IBinaryOps, FBinaryOps
<1>4. f.type = "SCRIPT" => op # "RETURN"
  BY DEF IBinaryOps, FBinaryOps
<1>5. op # "JMP_FALSE"
  BY DEF IBinaryOps, FBinaryOps
<1>. DEFINE b == <<Opcode[op]>>
<1>6. Len(b) = InstructionLength(op) /\ b[1] = Opcode[op] /\ Appends(f, g, b)
  BY <1>1
<1>. HIDE DEF b
<1>7. Cert(g, H \cup {<<Len(g.code), x>>}, O, x)
  BY <1>1, <1>2, <1>3, <1>4, <1>5, <1>6, AppendOne DEF n, m
<1>. QED
  BY <1>7

(* k is the number of a constant that names a variable.                    *)
IsName(f, k) ==
  HasConstant(f, k) /\ ConstantAt(f, k).type = "STR" /\ ~ IsWild(ConstantAt(f, k))

(* So it is, with its operand.                                             *)
TwoSuits(g, op, a, e, x) ==
  \/ op = "CONSTANT" /\ HasConstant(g, a) /\ x = e + 1
  \/ op = "GET_GLOBAL" /\ IsName(g, a) /\ x = e + 1
  \/ op = "SET_GLOBAL" /\ IsName(g, a) /\ e >= 2 /\ x = e
  \/ op = "DEFINE_GLOBAL" /\ IsName(g, a) /\ e >= 2 /\ x = e - 1
  \/ op = "GET_LOCAL" /\ a < e /\ x = e + 1
  \/ op = "SET_LOCAL" /\ a < e /\ e >= 2 /\ x = e
  \/ op = "CALL" /\ e >= a + 2 /\ x = e - a

(* An instruction with its operand, of a byte or of two.                   *)
WithOne(op, a) == <<Opcode[op], a>>
WithTwo(op, y, z) == <<Opcode[op], y, z>>

(* An instruction with an operand.                                         *)
LEMMA AppendTwoBytes ==
  ASSUME NEW f, NEW g, NEW op \in TwoByteOps, NEW a \in Nat, Appends(f, g, WithOne(op, a)),
         NEW H, NEW O, NEW e \in Nat, NEW x \in Nat, x # 0, Cert(f, H, O, e),
         TwoSuits(g, op, a, e, x)
  PROVE  \E K : H \subseteq K /\ Cert(g, K, O, x)
<1>. USE DEF TwoSuits
<1>. DEFINE n == Len(f.code)  m == Len(g.code)  K == H \cup {<<m, x>>}
<1>0. Appends(f, g, <<Opcode[op], a>>)
  BY DEF WithOne
<1>1. /\ op \in SimpleOps /\ Len(<<Opcode[op], a>>) = InstructionLength(op)
      /\ OpAt(g, n) = op /\ Operand(g, n) = a /\ m = n + 2
      /\ HasBytes(g, n, 0) /\ HasBytes(g, n, 1)
  BY <1>0, TwoByte
<1>. HIDE DEF n, m
<1>2. IsName(g, a) => HasName(g, n)
  BY <1>1 DEF IsName, HasName
<1>3. Needs(g, n, e)
  BY <1>1, <1>2 DEF Needs, IBinaryOps, FBinaryOps
<1>4. Follows(g, n, e) \subseteq {<<m, x>>}
  BY <1>1 DEF Follows, IBinaryOps, FBinaryOps
<1>5. op # "RETURN" /\ op # "JMP_FALSE"
  OBVIOUS
<1>. DEFINE b == <<Opcode[op], a>>
<1>6. Len(b) = InstructionLength(op) /\ b[1] = Opcode[op] /\ Appends(f, g, b)
  BY <1>0, <1>1
<1>. HIDE DEF b
<1>7. Cert(g, H \cup {<<Len(g.code), x>>}, O, x)
  BY <1>1, <1>3, <1>4, <1>5, <1>6, AppendOne DEF n, m
<1>. QED
  BY <1>7

(* A jump that waits for its target; what comes after OP_JMP is reached    *)
(* from elsewhere.                                                         *)
JumpCert(f, H, e, g, K, Q, op, x) ==
  H \subseteq K /\ Cert(g, K, Q, x) /\ <<Len(f.code), e>> \in K /\ OpAt(g, Len(f.code)) = op

(* What is known of a jump emitted now (emit_jump).                        *)
LEMMA AppendJump ==
  ASSUME NEW f, NEW g, NEW op \in {"JMP", "JMP_FALSE"}, Appends(f, g, WithTwo(op, 255, 255)),
         NEW H, NEW O, NEW e \in Nat, NEW x \in Nat, x # 0, Cert(f, H, O, e),
         op = "JMP_FALSE" => e >= 2 /\ x = e, NEW Q, Q = O \cup {Len(f.code)}
  PROVE  \E K : JumpCert(f, H, e, g, K, Q, op, x)
<1>. DEFINE n == Len(f.code)  m == Len(g.code)  b == <<Opcode[op], 255, 255>>
            K == H \cup {<<m, x>>}
<1>0. Appends(f, g, <<Opcode[op], 255, 255>>)
  BY DEF WithTwo
<1>1. /\ op \in SimpleOps /\ Len(b) = InstructionLength(op) /\ OpAt(g, n) = op
      /\ HasBytes(g, n, 0) /\ HasBytes(g, n, 2)
  <2>1. op \in ThreeByteOps /\ 255 \in Nat
    BY DEF ThreeByteOps
  <2>. QED
    BY <1>0, <2>1, ThreeByte
<1>2. b[1] = Opcode[op] /\ Appends(f, g, b)
  BY <1>0
<1>. HIDE DEF n, m, b
<1>3. Needs(g, n, e)
  BY <1>1 DEF Needs, IBinaryOps, FBinaryOps
<1>4. op # "RETURN" /\ n \in O \cup {n} /\ O \subseteq O \cup {n}
  OBVIOUS
<1>5. Cert(g, H \cup {<<Len(g.code), x>>}, O \cup {n}, x)
  BY <1>1, <1>2, <1>3, <1>4, AppendOne DEF n
<1>6. <<n, e>> \in H
  BY DEF Cert, n
<1>7. JumpCert(f, H, e, g, H \cup {<<Len(g.code), x>>}, Q, op, x)
  BY <1>1, <1>5, <1>6 DEF n, JumpCert
<1>. QED
  BY <1>7

(* A jump back.                                                            *)
LEMMA AppendLoop ==
  ASSUME NEW f, NEW g, NEW y \in Nat, NEW z \in Nat, NEW op, op = "LOOP",
         Appends(f, g, <<Opcode[op], y, z>>),
         NEW H, NEW O, NEW e \in Nat, NEW x \in Nat, x # 0, Cert(f, H, O, e),
         NEW start \in Nat, <<start, e>> \in H, Spans(y, z, Len(f.code) + 3 - start)
  PROVE  \E K : H \subseteq K /\ Cert(g, K, O, x)
<1>. DEFINE n == Len(f.code)  m == Len(g.code)  b == <<Opcode[op], y, z>>
            K == H \cup {<<m, x>>}
<1>0. op \in ThreeByteOps /\ n \in Nat
  BY DEF ThreeByteOps, Appends, Typed
<1>1. /\ op \in SimpleOps /\ Len(b) = InstructionLength(op) /\ OpAt(g, n) = op
      /\ HasBytes(g, n, 0) /\ HasBytes(g, n, 2) /\ Spans(y, z, Short(g, n))
  BY <1>0, ThreeByte
<1>2. b[1] = Opcode[op] /\ Appends(f, g, b)
  OBVIOUS
<1>. HIDE DEF m, b, n
<1>3. Needs(g, n, e)
  BY <1>1 DEF Needs, IBinaryOps, FBinaryOps
<1>4. Follows(g, n, e) = {<<n + 3 - Short(g, n), e>>}
  <2>1. OpAt(g, n) = "LOOP"
    BY <1>1
  <2>. QED
    BY <2>1 DEF Follows, IBinaryOps, FBinaryOps
<1>5. n + 3 - Short(g, n) = start
  <2>1. Short(g, n) = n + 3 - start
    BY <1>1 DEF Spans, n
  <2>. QED
    BY <1>0, <2>1
<1>6. Follows(g, n, e) \subseteq H
  BY <1>4, <1>5
<1>7. op # "JMP_FALSE" /\ op # "RETURN"
  OBVIOUS
<1>8. Cert(g, H \cup {<<Len(g.code), x>>}, O, x)
  BY <1>1, <1>2, <1>3, <1>6, <1>7, AppendOne DEF n
<1>. QED
  BY <1>8

(* More constants, or more jumps that wait.                                *)
LEMMA CertMore ==
  ASSUME NEW f, NEW g, Typed(f), Typed(g), Extends(f, g), g.code = f.code, g.type = f.type,
         g.arity = f.arity, NEW H, NEW O, NEW Q, O \subseteq Q, NEW e, Cert(f, H, O, e)
  PROVE  Cert(g, H, Q, e)
<1>1. /\ H \subseteq (0 .. Len(f.code)) \X (Nat \ {0})
      /\ \A s \in H : s[1] < Len(f.code) => Sits(f, H, O, s[1], s[2])
  BY DEF Cert
<1>2. ASSUME NEW s \in H, s[1] < Len(f.code)
      PROVE  Sits(g, H, Q, s[1], s[2])
  <2>1. s[1] \in Nat /\ s[2] \in Nat /\ \A t \in H : t[1] \in Int
    BY <1>1
  <2>2. SameAt(f, g, s[1])
    BY DEF SameAt, ByteAt
  <2>3. Sits(f, H, O, s[1], s[2])
    BY <1>1, <1>2
  <2>. QED
    BY <2>1, <2>2, <2>3, SitsStill
<1>. QED
  BY <1>2 DEF Cert

(* The target of a jump is written when the end of the code has the height *)
(* that the jump has.                                                      *)
LEMMA PatchOne ==
  ASSUME NEW f, NEW g, Typed(f), Typed(g), g.consts = f.consts, g.type = f.type,
         g.arity = f.arity, Len(g.code) = Len(f.code),
         NEW H, NEW O, NEW e, Cert(f, H, O, e),
         NEW i, <<i, e>> \in H, i < Len(f.code), OpAt(f, i) \in {"JMP", "JMP_FALSE"},
         \A k \in 0 .. Len(f.code) - 1 : k \notin {i + 1, i + 2} => ByteAt(g, k) = ByteAt(f, k),
         Short(g, i) = Len(f.code) - i - 3
  PROVE  Cert(g, H, O \ {i}, e)
<1>. DEFINE n == Len(f.code)
<1>0. n \in Nat /\ Len(f.consts) \in Nat
  BY DEF Typed
<1>1. /\ H \subseteq (0 .. n) \X (Nat \ {0}) /\ \A s, t \in H : s[1] = t[1] => s = t
      /\ \A s \in H : s[1] < n => Sits(f, H, O, s[1], s[2])
      /\ <<n, e>> \in H
  BY DEF Cert
<1>2. \A s \in H : s[1] \in Nat /\ s[2] \in Nat
  BY <1>1
<1>3. i \in Nat /\ e \in Nat
  BY <1>2
<1>4. Sits(f, H, O, i, e)
  BY <1>1
<1>5. InstructionLength(OpAt(f, i)) = 3
  BY LengthIs DEF SimpleOps
<1>6. i + 3 <= n /\ \A t \in H : t[1] > i => t[1] >= i + 3
  BY <1>4, <1>5 DEF Sits
<1>7. Extends(f, g)
  BY <1>0 DEF Extends
<1>8. ASSUME NEW s \in H, s[1] < n
      PROVE  Sits(g, H, O \ {i}, s[1], s[2])
  <2>1. CASE s[1] # i
    <3>1. Sits(f, H, O, s[1], s[2])
      BY <1>1, <1>8
    <3>2. /\ InstructionLength(OpAt(f, s[1])) \in {1, 2, 3}
          /\ s[1] + InstructionLength(OpAt(f, s[1])) <= n
          /\ s[1] < i => s[1] + InstructionLength(OpAt(f, s[1])) <= i
      BY <3>1, LengthIs DEF Sits
    <3>3. SameAt(f, g, s[1])
      <4>1. ASSUME NEW k \in 0 .. InstructionLength(OpAt(f, s[1])) - 1
            PROVE  s[1] + k \in 0 .. n - 1 /\ s[1] + k \notin {i + 1, i + 2}
        <5>. DEFINE l == InstructionLength(OpAt(f, s[1]))  a == s[1]
        <5>0. /\ l \in {1, 2, 3} /\ a + l <= n /\ (a < i => a + l <= i)
              /\ k \in 0 .. l - 1 /\ a \in Nat
          BY <1>2, <3>2
        <5>. HIDE DEF l, a, n
        <5>1. CASE a < i
          BY SMTT(30), <1>0, <1>3, <5>0, <5>1 DEF a
        <5>2. CASE a > i
          <6>1. a >= i + 3
            BY <1>6, <5>2 DEF a
          <6>2. a + k \in 0 .. n - 1
            BY <1>0, <5>0
          <6>3. a + k \notin {i + 1, i + 2}
            BY <1>3, <5>0, <6>1
          <6>. QED
            BY <6>2, <6>3 DEF a
        <5>. QED
          BY <1>3, <2>1, <5>0, <5>1, <5>2 DEF a
      <4>. QED
        BY <4>1 DEF SameAt
    <3>4. s[1] \in Nat /\ s[2] \in Nat /\ \A t \in H : t[1] \in Int
      BY <1>2
    <3>. QED
      BY <1>7, <2>1, <3>1, <3>3, <3>4, SitsStill
  <2>2. CASE s[1] = i
    <3>1. s[2] = e
      <4>1. s = <<i, e>>
        BY <1>1, <2>2
      <4>. QED
        BY <4>1
    <3>2. ByteAt(g, i) = ByteAt(f, i)
      BY <1>0, <1>3, <1>6
    <3>. DEFINE op == OpAt(f, i)  j == Short(g, i)
    <3>3. OpAt(g, i) = op /\ op \in {"JMP", "JMP_FALSE"}
      BY <3>2 DEF OpAt
    <3>4. HasBytes(g, i, 0) /\ HasBytes(g, i, 2)
      BY <1>0, <1>3, <1>6 DEF HasBytes
    <3>5. op = "JMP_FALSE" => e >= 2 /\ <<i + 3, e>> \in H
      BY <1>4, <1>5 DEF Sits, Needs
    <3>6. i + 3 + j = n
      <4>1. j = n - i - 3
        OBVIOUS
      <4>. HIDE DEF j, n
      <4>. QED
        BY <1>0, <1>3, <4>1
    <3>. HIDE DEF op, j
    <3>7. Needs(g, i, e)
      BY <3>3, <3>4, <3>5 DEF Needs, IBinaryOps, FBinaryOps
    <3>8. Follows(g, i, e) \subseteq {<<i + 3, e>>, <<i + 3 + j, e>>}
          /\ (op = "JMP" => Follows(g, i, e) = {<<i + 3 + j, e>>})
      BY <3>3 DEF Follows, j, IBinaryOps, FBinaryOps
    <3>9. Follows(g, i, e) \subseteq H
      BY <1>1, <3>3, <3>5, <3>6, <3>8
    <3>10. op \in SimpleOps /\ op # "RETURN" /\ InstructionLength(op) = 3
      BY <1>5, <3>3 DEF SimpleOps, op
    <3>. QED
      BY <1>6, <2>2, <3>1, <3>3, <3>5, <3>7, <3>9, <3>10 DEF Sits
  <2>. QED
    BY <2>1, <2>2
<1>. QED
  BY <1>8 DEF Cert

(* The values of the locals of a scope that ends.                          *)
LEMMA AppendPops ==
  ASSUME NEW f, NEW g, NEW k \in Nat, Appends(f, g, [i \in 1 .. k |-> Opcode["POP"]]),
         NEW H, NEW O, NEW e \in Nat, Cert(f, H, O, e), e > k
  PROVE  \E K : H \subseteq K /\ Cert(g, K, O, e - k)
<1>. DEFINE n == Len(f.code)  m == Len(g.code)  b == [i \in 1 .. k |-> Opcode["POP"]]
            P == {<<n + j, e - j>> : j \in 1 .. k}  K == H \cup P
<1>0. /\ n \in Nat /\ m \in Nat /\ Typed(f) /\ Typed(g) /\ Extends(f, g)
      /\ g.type = f.type /\ g.arity = f.arity
  BY DEF Appends, Typed
<1>1. /\ H \subseteq (0 .. n) \X (Nat \ {0}) /\ \A s, t \in H : s[1] = t[1] => s = t
      /\ <<0, f.arity + 1>> \in H /\ <<n, e>> \in H
      /\ \A s \in H : s[1] < n => Sits(f, H, O, s[1], s[2])
  BY DEF Cert
<1>2. Len(b) = k /\ \A j \in 1 .. k : b[j] = Opcode["POP"]
  OBVIOUS
<1>3. /\ m = n + Len(b)
      /\ \A i \in 0 .. n - 1 : ByteAt(g, i) = ByteAt(f, i)
      /\ \A j \in 0 .. Len(b) - 1 : ByteAt(g, n + j) = b[j + 1]
  <2>. HIDE DEF b
  <2>1. Appends(f, g, b)
    BY DEF b
  <2>. QED
    BY <2>1, AppendedBytes
<1>4. m = n + k
  BY <1>2, <1>3
<1>5. \A j \in 0 .. k - 1 : OpAt(g, n + j) = "POP"
  <2>. SUFFICES ASSUME NEW j \in 0 .. k - 1
                PROVE  OpAt(g, n + j) = "POP"
    OBVIOUS
  <2>. HIDE DEF b, n
  <2>1. j \in 0 .. Len(b) - 1 /\ j + 1 \in 1 .. k
    BY <1>2
  <2>2. ByteAt(g, n + j) = Opcode["POP"]
    BY <1>2, <1>3, <2>1
  <2>3. "POP" \in Emitted
    BY DEF Emitted
  <2>. QED
    BY <2>2, <2>3, OpcodeIs
<1>. HIDE DEF b, n, m
<1>6. \A s \in H : s[1] \in 0 .. n /\ s[2] \in Nat \ {0} /\ s = <<s[1], s[2]>>
  BY <1>1
<1>7. \A s \in P : \E j \in 1 .. k : s = <<n + j, e - j>> /\ s[1] = n + j /\ s[2] = e - j
  OBVIOUS
<1>8. \A j \in 0 .. k : <<n + j, e - j>> \in K
  <2>. SUFFICES ASSUME NEW j \in 0 .. k
                PROVE  <<n + j, e - j>> \in K
    OBVIOUS
  <2>1. CASE j = 0
    <3>1. n + j = n /\ e - j = e
      BY <1>0, <2>1
    <3>. QED
      BY <1>1, <3>1
  <2>2. CASE j # 0
    <3>1. j \in 1 .. k
      BY <2>2
    <3>. QED
      BY <3>1
  <2>. QED
    BY <2>1, <2>2
<1>9. K \subseteq (0 .. m) \X (Nat \ {0})
  <2>1. ASSUME NEW j \in 1 .. k
        PROVE  n + j \in 0 .. m /\ e - j \in Nat \ {0}
    BY <1>0, <1>4
  <2>2. P \subseteq (0 .. m) \X (Nat \ {0})
    BY <2>1
  <2>3. \A i \in 0 .. n : i \in 0 .. m
    BY <1>0, <1>4
  <2>4. H \subseteq (0 .. m) \X (Nat \ {0})
    BY <1>1, <2>3
  <2>. QED
    BY <2>2, <2>4
<1>10. \A s, t \in K : s[1] = t[1] => s = t
  <2>1. \A s \in H, t \in P : s[1] # t[1]
    BY <1>0, <1>6, <1>7
  <2>2. \A s, t \in P : s[1] = t[1] => s = t
    <3>. SUFFICES ASSUME NEW s \in P, NEW t \in P, s[1] = t[1]
                  PROVE  s = t
      OBVIOUS
    <3>1. PICK j \in 1 .. k : s = <<n + j, e - j>> /\ s[1] = n + j
      BY <1>7
    <3>2. PICK l \in 1 .. k : t = <<n + l, e - l>> /\ t[1] = n + l
      BY <1>7
    <3>3. j = l
      BY <1>0, <3>1, <3>2
    <3>. QED
      BY <3>1, <3>2, <3>3
  <2>. QED
    BY <1>1, <2>1, <2>2
<1>11. <<0, g.arity + 1>> \in K /\ <<m, e - k>> \in K
  BY <1>0, <1>1, <1>4, <1>8
<1>12. ASSUME NEW s \in K, s[1] < m
       PROVE  Sits(g, K, O, s[1], s[2])
  <2>0. \A t \in K : t[1] \in Int
    BY <1>9
  <2>1. CASE s \in H /\ s[1] # n
    <3>1. s[1] \in Nat /\ s[2] \in Nat /\ s[1] < n
      BY <1>0, <1>6, <2>1
    <3>2. Sits(f, H, O, s[1], s[2])
      BY <1>1, <2>1, <3>1
    <3>3. \A t \in K : (t \in H \/ t[1] >= Len(f.code))
      BY <1>0, <1>7 DEF n
    <3>4. /\ s[1] + InstructionLength(OpAt(f, s[1])) <= n
          /\ InstructionLength(OpAt(f, s[1])) \in {1, 2, 3}
      BY <3>2, LengthIs DEF Sits, n
    <3>5. SameAt(f, g, s[1])
      <4>1. \A l \in 0 .. InstructionLength(OpAt(f, s[1])) - 1 : s[1] + l \in 0 .. n - 1
        BY <1>0, <3>1, <3>4
      <4>. QED
        BY <1>3, <4>1 DEF SameAt
    <3>6. H \subseteq K
      OBVIOUS
    <3>. HIDE DEF K
    <3>. QED
      BY <1>0, <2>0, <3>1, <3>2, <3>3, <3>5, <3>6, SitsStill
  <2>2. CASE ~ (s \in H /\ s[1] # n)
    <3>1. PICK j \in 0 .. k - 1 : s[1] = n + j /\ s[2] = e - j
      <4>1. CASE s \in H
        <5>1. s[1] = n + 0 /\ s[2] = e - 0
          BY <1>0, <1>1, <2>2, <4>1
        <5>2. 0 \in 0 .. k - 1
          BY <1>0, <1>4, <1>12, <5>1
        <5>. QED
          BY <5>1, <5>2
      <4>2. CASE s \in P
        <5>1. PICK j \in 1 .. k : s[1] = n + j /\ s[2] = e - j
          BY <1>7, <4>2
        <5>2. j \in 0 .. k - 1
          BY <1>0, <1>4, <1>12, <5>1
        <5>. QED
          BY <5>1, <5>2
      <4>. QED
        BY <4>1, <4>2
    <3>. DEFINE i == n + j  h == e - j
    <3>2. i \in Nat /\ h \in Nat /\ h >= 2 /\ i + 1 <= m
      BY <1>0, <1>4
    <3>3. <<i + 1, h - 1>> \in K
      <4>1. j + 1 \in 0 .. k /\ n + (j + 1) = i + 1 /\ e - (j + 1) = h - 1
        BY <1>0
      <4>. QED
        BY <1>8, <4>1
    <3>. HIDE DEF K, P
    <3>4. OpAt(g, i) = "POP"
      BY <1>5
    <3>. HIDE DEF i, h
    <3>5. Needs(g, i, h)
      BY <3>2, <3>4 DEF Needs, HasBytes, m, IBinaryOps, FBinaryOps
    <3>6. Follows(g, i, h) = {<<i + 1, h - 1>>}
      BY <3>4 DEF Follows, IBinaryOps, FBinaryOps
    <3>7. "POP" \in SimpleOps /\ InstructionLength("POP") = 1
      <4>1. "POP" \in SimpleOps
        BY DEF SimpleOps
      <4>. QED
        BY <4>1, LengthIs
    <3>8. \A t \in K : t[1] > i => t[1] >= i + 1
      BY <2>0, <3>2
    <3>9. Sits(g, K, O, i, h)
      BY <3>2, <3>3, <3>4, <3>5, <3>6, <3>7, <3>8 DEF Sits, m
    <3>. QED
      BY <3>1, <3>9 DEF i, h
  <2>. QED
    BY <2>1, <2>2
<1>. HIDE DEF K, P
<1>13. Cert(g, K, O, e - k)
  BY <1>9, <1>10, <1>11, <1>12 DEF Cert, m
<1>. QED
  BY <1>13 DEF K

(* A parameter more: a slot more from the start.                           *)
Raised(H) == {<<s[1], s[2] + 1>> : s \in H}

(* A call with a slot more below it leaves a slot more.                    *)
LEMMA CallRaised ==
  ASSUME NEW f, NEW i \in Nat, NEW h \in Nat, OpAt(f, i) = "CALL", Operand(f, i) \in Nat
  PROVE  \A t \in Follows(f, i, h + 1) : \E u \in Follows(f, i, h) : t = <<u[1], u[2] + 1>>
<1>. DEFINE a == Operand(f, i)
<1>1. a \in Nat /\ OpAt(f, i) = "CALL"
  OBVIOUS
<1>2. \A k : Follows(f, i, k) = {<<i + 2, k - a>>}
  BY DEF Follows, IBinaryOps, FBinaryOps
<1>. HIDE DEF a
<1>3. <<i + 2, h - a>> \in Follows(f, i, h)
  BY <1>2
<1>4. \A t \in Follows(f, i, h + 1) : t = <<i + 2, (h + 1) - a>>
  <2>. DEFINE m == h + 1
  <2>. HIDE DEF m
  <2>1. \A t \in Follows(f, i, m) : t = <<i + 2, m - a>>
    BY <1>2
  <2>. QED
    BY <2>1 DEF m
<1>5. (h + 1) - a = h - a + 1
  BY <1>1
<1>. QED
  BY <1>3, <1>4, <1>5

(* An instruction that has what it needs has it with a slot more.          *)
LEMMA NeedsRaised ==
  ASSUME NEW f, NEW i \in Nat, NEW h \in Nat, Typed(f), OpAt(f, i) \in SimpleOps,
         Needs(f, i, h), HasBytes(f, i, 1) => Operand(f, i) \in Nat
  PROVE  /\ Needs(f, i, h + 1)
         /\ \A t \in Follows(f, i, h + 1) : \E u \in Follows(f, i, h) : t = <<u[1], u[2] + 1>>
<1>. DEFINE op == OpAt(f, i)  a == Operand(f, i)
<1>1. op \in SimpleOps /\ Needs(f, i, h) /\ (HasBytes(f, i, 1) => a \in Nat)
  OBVIOUS
<1>2. op = "CALL" => a \in Nat
  BY DEF Needs
<1>. HIDE DEF a
<1>3. Needs(f, i, h + 1)
  BY <1>1 DEF Needs, SimpleOps, IBinaryOps, FBinaryOps, a
<1>4. \A t \in Follows(f, i, h + 1) : \E u \in Follows(f, i, h) : t = <<u[1], u[2] + 1>>
  <2>. HIDE DEF op
  <2>1. CASE op = "NIL"
    <3>1. Follows(f, i, h + 1) = {<<i + 1, h + 1 + 1>>} /\ Follows(f, i, h) = {<<i + 1, h + 1>>}
      BY <2>1 DEF Follows, op, IBinaryOps, FBinaryOps
    <3>. QED
      BY <3>1
  <2>2. CASE op \in {"CONSTANT", "GET_GLOBAL", "GET_LOCAL"}
    <3>1. Follows(f, i, h + 1) = {<<i + 2, h + 1 + 1>>} /\ Follows(f, i, h) = {<<i + 2, h + 1>>}
      BY <2>2 DEF Follows, op, IBinaryOps, FBinaryOps
    <3>. QED
      BY <3>1
  <2>3. CASE op \in {"SET_LOCAL", "SET_GLOBAL"}
    <3>1. Follows(f, i, h + 1) = {<<i + 2, h + 1>>} /\ Follows(f, i, h) = {<<i + 2, h>>}
      BY <2>3 DEF Follows, op, IBinaryOps, FBinaryOps
    <3>. QED
      BY <3>1
  <2>4. CASE op = "DEFINE_GLOBAL"
    <3>1. Follows(f, i, h + 1) = {<<i + 2, h + 1 - 1>>} /\ Follows(f, i, h) = {<<i + 2, h - 1>>}
      BY <2>4 DEF Follows, op, IBinaryOps, FBinaryOps
    <3>. QED
      BY <3>1
  <2>5. CASE op = "CALL"
    <3>1. Operand(f, i) \in Nat /\ OpAt(f, i) = "CALL"
      BY <1>2, <2>5 DEF op, a
    <3>. QED
      BY <3>1, CallRaised
  <2>6. CASE op = "RETURN"
    <3>1. Follows(f, i, h + 1) = {}
      BY <2>6 DEF Follows, op, IBinaryOps, FBinaryOps
    <3>. QED
      BY <3>1
  <2>7. CASE op = "POP"
    <3>1. Follows(f, i, h + 1) = {<<i + 1, h + 1 - 1>>} /\ Follows(f, i, h) = {<<i + 1, h - 1>>}
      BY <2>7 DEF Follows, op, IBinaryOps, FBinaryOps
    <3>. QED
      BY <3>1
  <2>8. CASE op = "JMP"
    <3>1. /\ Follows(f, i, h + 1) = {<<i + 3 + Short(f, i), h + 1>>}
          /\ Follows(f, i, h) = {<<i + 3 + Short(f, i), h>>}
      BY <2>8 DEF Follows, op, IBinaryOps, FBinaryOps
    <3>. QED
      BY <3>1
  <2>9. CASE op = "LOOP"
    <3>1. /\ Follows(f, i, h + 1) = {<<i + 3 - Short(f, i), h + 1>>}
          /\ Follows(f, i, h) = {<<i + 3 - Short(f, i), h>>}
      BY <2>9 DEF Follows, op, IBinaryOps, FBinaryOps
    <3>. QED
      BY <3>1
  <2>10. CASE op = "JMP_FALSE"
    <3>1. /\ Follows(f, i, h + 1) = {<<i + 3, h + 1>>, <<i + 3 + Short(f, i), h + 1>>}
          /\ Follows(f, i, h) = {<<i + 3, h>>, <<i + 3 + Short(f, i), h>>}
      BY <2>10 DEF Follows, op, IBinaryOps, FBinaryOps
    <3>. QED
      BY <3>1
  <2>11. CASE op = "NOT"
    <3>1. Follows(f, i, h + 1) = {<<i + 1, h + 1>>} /\ Follows(f, i, h) = {<<i + 1, h>>}
      BY <2>11 DEF Follows, op, IBinaryOps, FBinaryOps
    <3>. QED
      BY <3>1
  <2>12. CASE op \in IBinaryOps \cup FBinaryOps
    <3>1. Follows(f, i, h + 1) = {<<i + 1, h + 1 - 1>>} /\ Follows(f, i, h) = {<<i + 1, h - 1>>}
      BY <2>12 DEF Follows, op, IBinaryOps, FBinaryOps
    <3>. QED
      BY <3>1
  <2>. QED
    BY <1>1, <2>1, <2>2, <2>3, <2>4, <2>5, <2>6, <2>7, <2>8, <2>9, <2>10, <2>11, <2>12
       DEF SimpleOps
<1>. QED
  BY <1>3, <1>4

(* So a function's certificate goes with its parameters (parser_func).     *)
LEMMA RaisedCert ==
  ASSUME NEW f, NEW g, NEW H, NEW e \in Nat, Cert(f, H, {}, e),
         Typed(f), Typed(g), f.arity \in Nat, g.code = f.code, g.consts = f.consts,
         g.type = f.type, g.arity = f.arity + 1, f.type # "SCRIPT"
  PROVE  Cert(g, Raised(H), {}, e + 1)
<1>. DEFINE n == Len(f.code)
<1>1. /\ n \in Nat /\ H \subseteq (0 .. n) \X (Nat \ {0})
      /\ \A s, t \in H : s[1] = t[1] => s = t
      /\ <<0, f.arity + 1>> \in H /\ <<n, e>> \in H
      /\ \A s \in H : s[1] < n => Sits(f, H, {}, s[1], s[2])
  BY DEF Cert, Typed
<1>. HIDE DEF n
<1>2. \A s \in H : s[1] \in 0 .. n /\ s[2] \in Nat \ {0} /\ s = <<s[1], s[2]>>
  BY <1>1
<1>3. \A s \in H : <<s[1], s[2] + 1>> \in Raised(H)
  BY DEF Raised
<1>4. \A t \in Raised(H) : \E s \in H : t = <<s[1], s[2] + 1>>
  BY DEF Raised
<1>5. \A t \in Raised(H) : \E s \in H : t = <<s[1], s[2] + 1>> /\ t[1] = s[1] /\ t[2] = s[2] + 1
  BY <1>4
<1>6. Raised(H) \subseteq (0 .. n) \X (Nat \ {0})
  BY <1>2, <1>4
<1>7. \A s, t \in Raised(H) : s[1] = t[1] => s = t
  BY <1>1, <1>5
<1>8. <<0, g.arity + 1>> \in Raised(H) /\ <<n, e + 1>> \in Raised(H)
  BY <1>1, <1>3
<1>9. ASSUME NEW s \in H, s[1] < n
      PROVE  Sits(g, Raised(H), {}, s[1], s[2] + 1)
  <2>. DEFINE i == s[1]  h == s[2]  op == OpAt(f, i)
  <2>1. i \in Nat /\ h \in Nat /\ Sits(f, H, {}, i, h)
    BY <1>1, <1>2, <1>9
  <2>. HIDE DEF i, h
  <2>2. op \in SimpleOps /\ Needs(f, i, h) /\ Follows(f, i, h) \subseteq H
        /\ i + InstructionLength(op) <= n
        /\ (\A t \in H : t[1] > i => t[1] >= i + InstructionLength(op))
        /\ (op = "JMP_FALSE" => <<i + InstructionLength(op), h>> \in H)
    BY <2>1 DEF Sits, n
  <2>3. HasBytes(f, i, 1) => Operand(f, i) \in Nat
    <3>1. SUFFICES ASSUME i + 1 < n
                   PROVE  Operand(f, i) \in Nat
      BY DEF HasBytes, n
    <3>2. i + 2 \in 1 .. n
      BY <2>1, <3>1, <1>1
    <3>3. f.code[i + 2] \in Bytes
      BY <3>2 DEF Typed, n
    <3>4. i + 1 + 1 = i + 2
      BY <2>1
    <3>. QED
      BY <3>3, <3>4 DEF Operand, ByteAt, Bytes
  <2>4. /\ Needs(f, i, h + 1)
        /\ \A t \in Follows(f, i, h + 1) : \E u \in Follows(f, i, h) : t = <<u[1], u[2] + 1>>
    BY <2>1, <2>2, <2>3, NeedsRaised
  <2>5. SameAt(f, g, i) /\ Extends(f, g)
    BY DEF SameAt, Extends, ByteAt, Typed
  <2>6. OpAt(g, i) = op /\ Follows(g, i, h + 1) = Follows(f, i, h + 1)
    BY <2>1, <2>2, <2>5, SameInstruction
  <2>7. Needs(g, i, h + 1)
    BY <2>1, <2>2, <2>4, <2>5, NeedsMore DEF Typed
  <2>8. Follows(g, i, h + 1) \subseteq Raised(H)
    BY <2>2, <2>4, <2>6, <1>3
  <2>9. op = "JMP_FALSE" => <<i + InstructionLength(op), h + 1>> \in Raised(H)
    <3>1. SUFFICES ASSUME op = "JMP_FALSE"
                   PROVE  <<i + InstructionLength(op), h + 1>> \in Raised(H)
      OBVIOUS
    <3>. DEFINE t == <<i + InstructionLength(op), h>>
    <3>2. t \in H /\ t[1] = i + InstructionLength(op) /\ t[2] = h
      BY <2>2, <3>1
    <3>. QED
      BY <3>2, <1>3
  <2>. HIDE DEF op
  <2>10. \A t \in Raised(H) : t[1] > i => t[1] >= i + InstructionLength(op)
    BY <2>2, <1>5
  <2>11. i + InstructionLength(op) <= Len(g.code)
    BY <2>2 DEF n
  <2>12. Sits(g, Raised(H), {}, i, h + 1)
    BY <2>2, <2>6, <2>7, <2>8, <2>9, <2>10, <2>11 DEF Sits
  <2>. QED
    BY <2>12 DEF i, h
<1>10. \A s \in Raised(H) : s[1] < n => Sits(g, Raised(H), {}, s[1], s[2])
  BY <1>5, <1>9
<1>. QED
  BY <1>6, <1>7, <1>8, <1>10 DEF Cert, n

(* A function whose code has a certificate is balanced when it returns nil *)
(* at the end (parser_end_func, tr_parser_compile).                        *)
LEMMA Finished ==
  ASSUME NEW f, Typed(f), NEW H, NEW e \in Nat, Cert(f, H, {}, e),
         NEW F, F = Function(f.arity, f.code \o <<Opcode["NIL"], Opcode["RETURN"]>>, f.consts),
         NEW isScript \in BOOLEAN, isScript => f.type = "SCRIPT" /\ e = 1
  PROVE  Balanced(F, isScript)
<1>. DEFINE n == Len(f.code)  b == <<Opcode["NIL"], Opcode["RETURN"]>>
            g == [arity |-> f.arity, type |-> f.type, code |-> f.code \o b, consts |-> f.consts]
            K == H \cup {<<n + 1, e + 1>>}
<1>1. /\ n \in Nat /\ Len(f.consts) \in Nat /\ f.code \in Seq(Bytes)
      /\ H \subseteq (0 .. n) \X (Nat \ {0}) /\ \A s, t \in H : s[1] = t[1] => s = t
      /\ <<0, f.arity + 1>> \in H /\ <<n, e>> \in H
      /\ \A s \in H : s[1] < n => Sits(f, H, {}, s[1], s[2])
  BY DEF Cert, Typed
<1>2. b \in Seq(Bytes) /\ Len(b) = 2 /\ b[1] = Opcode["NIL"] /\ b[2] = Opcode["RETURN"]
  BY CodesAre DEF Emitted
<1>3. F.code = f.code \o b /\ F.arity = f.arity /\ F.consts = f.consts
  BY DEF Function
<1>. HIDE DEF b
<1>4. g.code \in Seq(Bytes) /\ Len(g.code) = n + 2 /\ Len(g.code) \in Nat
  <2>. DEFINE c == f.code \o b
  <2>1. f.code \in Seq(Bytes) /\ b \in Seq(Bytes)
    BY <1>1, <1>2
  <2>2. c \in Seq(Bytes) /\ Len(c) = n + Len(b)
    BY <2>1, ConcatProperties
  <2>. HIDE DEF c
  <2>3. g.code = c
    BY DEF c
  <2>. QED
    BY <1>1, <1>2, <2>2, <2>3
<1>5. Typed(g) /\ Extends(f, g)
  BY <1>1, <1>4 DEF Typed, Extends
<1>6. Appends(f, g, b)
  BY <1>2, <1>5 DEF Appends
<1>7. /\ \A i \in 0 .. n - 1 : ByteAt(g, i) = ByteAt(f, i)
      /\ ByteAt(g, n) = Opcode["NIL"] /\ ByteAt(g, n + 1) = Opcode["RETURN"]
  <2>1. Len(b) >= 1 /\ Len(b) >= 2
    BY <1>2
  <2>. QED
    BY ZenonT(60), <1>2, <1>6, <2>1, AppendedBytes
<1>. HIDE DEF g
<1>8. F.code = g.code /\ F.consts = f.consts
  BY <1>3 DEF g
<1>9. Len(F.code) = n + 2 /\ Extends(f, F)
  <2>1. Len(F.code) = n + 2
    BY <1>4, <1>8
  <2>2. n <= n + 2 /\ Len(F.consts) <= Len(F.consts)
    BY <1>1, <1>8
  <2>. QED
    BY <1>8, <2>1, <2>2 DEF Extends
<1>10. OpAt(F, n) = "NIL" /\ OpAt(F, n + 1) = "RETURN"
  <2>1. ByteAt(F, n) = Opcode["NIL"] /\ ByteAt(F, n + 1) = Opcode["RETURN"]
    BY <1>7, <1>8 DEF ByteAt
  <2>2. "NIL" \in Emitted /\ "RETURN" \in Emitted
    BY DEF Emitted
  <2>. QED
    BY <2>1, <2>2, OpcodeIs
<1>11. e >= 1
  BY <1>1
<1>12. K \in SUBSET ((0 .. Len(F.code) - 1) \X Int)
  <2>1. Len(F.code) - 1 = n + 1
    BY <1>1, <1>9
  <2>2. \A s \in H : s \in (0 .. n + 1) \X Int
    BY <1>1
  <2>3. <<n + 1, e + 1>> \in (0 .. n + 1) \X Int
    BY <1>1
  <2>. QED
    BY <2>1, <2>2, <2>3
<1>13. \A s, t \in K : s[1] = t[1] => s = t
  <2>1. \A s \in H : s[1] <= n /\ s[1] \in Nat
    BY <1>1
  <2>2. \A t \in K : t \in H \/ (t = <<n + 1, e + 1>> /\ t[1] = n + 1)
    OBVIOUS
  <2>. HIDE DEF K
  <2>3. ~ (n + 1 <= n)
    BY <1>1
  <2>. QED
    BY <1>1, <2>1, <2>2, <2>3
<1>14. ASSUME NEW s \in H, s[1] < n
       PROVE  /\ Needs(F, s[1], s[2]) /\ (isScript => OpAt(F, s[1]) # "RETURN")
              /\ Follows(F, s[1], s[2]) \subseteq K
  <2>. DEFINE i == s[1]  h == s[2]  op == OpAt(f, i)
  <2>1. i \in Nat /\ h \in Nat /\ Sits(f, H, {}, i, h)
    BY <1>1, <1>14
  <2>. HIDE DEF i, h
  <2>2. op \in SimpleOps /\ Needs(f, i, h) /\ Follows(f, i, h) \subseteq H
        /\ i + InstructionLength(op) <= n /\ (f.type = "SCRIPT" => op # "RETURN")
    BY <2>1 DEF Sits
  <2>. HIDE DEF op
  <2>3. SameAt(f, F, i)
    <3>1. ASSUME NEW k \in 0 .. InstructionLength(OpAt(f, i)) - 1
          PROVE  ByteAt(F, i + k) = ByteAt(f, i + k)
      <4>1. InstructionLength(op) \in {1, 2, 3}
        BY <2>2, LengthIs
      <4>2. i + k \in 0 .. n - 1
        BY SMTT(30), <1>1, <2>1, <2>2, <3>1, <4>1 DEF op
      <4>. QED
        BY <1>7, <1>8, <4>2 DEF ByteAt
    <3>. QED
      BY <3>1 DEF SameAt
  <2>4. OpAt(f, i) \in SimpleOps
    BY <2>2 DEF op
  <2>5. OpAt(F, i) = op /\ Follows(F, i, h) = Follows(f, i, h)
    BY <2>1, <2>3, <2>4, SameInstruction DEF op
  <2>6. Needs(F, i, h)
    <3>1. Len(F.code) \in Nat /\ Len(F.consts) \in Nat
      BY <1>1, <1>8, <1>9
    <3>. QED
      BY <1>1, <1>9, <2>1, <2>2, <2>3, <2>4, <3>1, NeedsMore
  <2>. QED
    BY <2>2, <2>5, <2>6 DEF i, h
<1>15. /\ Needs(F, n, e) /\ Follows(F, n, e) = {<<n + 1, e + 1>>}
       /\ Needs(F, n + 1, e + 1) /\ Follows(F, n + 1, e + 1) = {}
  <2>1. HasBytes(F, n, 0) /\ HasBytes(F, n + 1, 0)
    BY <1>1, <1>9 DEF HasBytes
  <2>2. e + 1 >= 2
    BY <1>11
  <2>3. Needs(F, n, e) /\ Needs(F, n + 1, e + 1)
    BY <1>10, <2>1, <2>2 DEF Needs, IBinaryOps, FBinaryOps
  <2>4. Follows(F, n, e) = {<<n + 1, e + 1>>}
    BY <1>10 DEF Follows, IBinaryOps, FBinaryOps
  <2>5. Follows(F, n + 1, e + 1) = {}
    <3>. DEFINE m == n + 1
    <3>1. OpAt(F, m) = "RETURN"
      BY <1>10
    <3>. HIDE DEF m
    <3>2. \A k : Follows(F, m, k) = {}
      BY <3>1 DEF Follows, IBinaryOps, FBinaryOps
    <3>. QED
      BY <3>2 DEF m
  <2>. QED
    BY <2>3, <2>4, <2>5
<1>16. ASSUME NEW s \in K
       PROVE  /\ s[2] >= 1 /\ Needs(F, s[1], s[2])
              /\ isScript /\ OpAt(F, s[1]) = "RETURN" => s[2] = 2
              /\ Follows(F, s[1], s[2]) \subseteq K
  <2>1. CASE s \in H /\ s[1] < n
    <3>1. s[2] >= 1
      BY <1>1, <2>1
    <3>. QED
      BY <1>14, <2>1, <3>1
  <2>2. CASE s = <<n, e>>
    <3>1. s[1] = n /\ s[2] = e
      BY <2>2
    <3>. QED
      BY <1>10, <1>11, <1>15, <3>1
  <2>3. CASE s = <<n + 1, e + 1>>
    <3>1. s[1] = n + 1 /\ s[2] = e + 1
      BY <2>3
    <3>2. isScript => s[2] = 2
      BY <3>1
    <3>3. s[2] >= 1
      BY <1>11, <3>1
    <3>. QED
      BY <1>15, <3>1, <3>2, <3>3
  <2>4. s \in H /\ s[1] = n => s = <<n, e>>
    BY <1>1
  <2>5. s \in H => s[1] < n \/ s[1] = n
    BY <1>1
  <2>6. s \in H \/ s = <<n + 1, e + 1>>
    BY <1>16
  <2>. QED
    BY <2>1, <2>2, <2>3, <2>4, <2>5, <2>6
<1>17. Balances(K, F, isScript)
  BY <1>1, <1>3, <1>16 DEF Balances
<1>. HIDE DEF K
<1>18. Len(F.code) \in Nat
  BY <1>1, <1>9
<1>. QED
  BY <1>12, <1>13, <1>17, <1>18, BalancedIfAny

(* What a call waits for, and what it leaves.                              *)

(* the calls that wait for a value, an expression's *)
Takers == {"infix", "finish", "binary_end", "arguments", "if_then", "while_body", "var_defined",
           "for_exit", "for_step"}
Gives(c) == c.at \in ExprCalls /\ ~ (c.at = "finish" /\ c.token = "SEMICOLON")

Waiting == Takers \cup {"script", "declared", "block", "end_scope", "if_else", "if_end",
                        "loop_end", "for_condition", "func_end"}
Branches == {"if_else", "if_end", "loop_end"}
Bodied == {"statement", "expression_statement", "finish", "end_scope"}
Conditions == {"if_statement", "if_then", "while_statement", "while_body", "for_statement",
               "for_condition", "for_exit", "for_increment", "for_step"}

(* the calls that begin where no operand ends *)
Starting ==
  {"precedence", "script", "declaration", "declared", "statement", "expression_statement",
   "block", "end_scope", "if_else", "if_end", "loop_end", "for_condition", "for_increment",
   "func_end", "return_statement"}

(* b is below a.                                                           *)
Over(a, b) ==
  /\ b.at \in Waiting
  /\ Gives(a) <=> b.at \in Takers
  /\ b.at \in Branches => a.at \in Bodied

(* The calls in progress, the innermost first.                             *)
StackOK(t) ==
  /\ \A i \in 1 .. Len(t) - 1 : Over(t[i], t[i + 1])
  /\ \A i \in 1 .. Len(t) :
       /\ t[i].at \in Takers => \A j \in 1 .. i - 1 : t[j].at \in ExprCalls
       /\ t[i].at \in {"compile", "script"} => i = Len(t)
       /\ t[i].at \in Conditions => Conditional

(* c does what is left of b *)
Replaces(c, b) ==
  /\ Gives(c) <=> Gives(b)
  /\ b.at \in Bodied => c.at \in Bodied
  /\ c.at \in {"compile", "script"} => b.at \in {"compile", "script"}

(* A call goes on as others, on the calls below.                           *)
LEMMA StackThen ==
  ASSUME NEW S, NEW t \in Seq(S), t # << >>, StackOK(t),
         NEW calls \in Seq(S), StackOK(calls),
         calls # << >> => Replaces(calls[Len(calls)], Head(t)),
         Head(t).at \in ExprCalls => \A k \in 1 .. Len(calls) : calls[k].at \in ExprCalls
  PROVE  StackOK(calls \o Tail(t))
<1>. DEFINE n == Len(calls)  L == Len(t)  T == Tail(t)  r == calls \o T
<1>1. L \in Nat /\ L >= 1 /\ n \in Nat /\ Head(t) = t[1]
  BY EmptySeq, LenProperties
<1>2. T \in Seq(S) /\ Len(T) = L - 1 /\ \A i \in 1 .. L - 1 : T[i] = t[i + 1]
  BY HeadTailProperties
<1>3. /\ Len(r) = n + (L - 1)
      /\ \A i \in 1 .. n + (L - 1) : r[i] = IF i <= n THEN calls[i] ELSE T[i - n]
  BY <1>2, ConcatProperties
<1>. HIDE DEF r, T
<1>4. \A i \in 1 .. n : r[i] = calls[i]
  BY <1>1, <1>3
<1>5. \A i \in n + 1 .. n + (L - 1) : i - n + 1 \in 2 .. L /\ r[i] = t[i - n + 1]
  <2>. SUFFICES ASSUME NEW i \in n + 1 .. n + (L - 1)
                PROVE  i - n + 1 \in 2 .. L /\ r[i] = t[i - n + 1]
    OBVIOUS
  <2>. DEFINE k == i - n
  <2>1. k \in 1 .. L - 1 /\ i \in 1 .. n + (L - 1) /\ ~ (i <= n) /\ k + 1 \in 2 .. L
    BY <1>1
  <2>2. r[i] = T[k]
    BY <1>3, <2>1
  <2>. HIDE DEF k
  <2>3. r[i] = t[k + 1]
    BY <1>2, <2>1, <2>2
  <2>. QED
    BY <2>1, <2>3 DEF k
<1>6. /\ \A i \in 1 .. n - 1 : Over(calls[i], calls[i + 1])
      /\ \A i \in 1 .. n :
           /\ calls[i].at \in Takers => \A j \in 1 .. i - 1 : calls[j].at \in ExprCalls
           /\ calls[i].at \in {"compile", "script"} => i = n
           /\ calls[i].at \in Conditions => Conditional
  BY DEF StackOK
<1>7. /\ \A i \in 1 .. L - 1 : Over(t[i], t[i + 1])
      /\ \A i \in 1 .. L :
           /\ t[i].at \in Takers => \A j \in 1 .. i - 1 : t[j].at \in ExprCalls
           /\ t[i].at \in {"compile", "script"} => i = L
           /\ t[i].at \in Conditions => Conditional
  BY DEF StackOK
<1>. HIDE DEF n, L
<1>8. ASSUME NEW i \in 1 .. Len(r) - 1
      PROVE  Over(r[i], r[i + 1])
  <2>1. CASE i + 1 <= n
    <3>1. i \in 1 .. n - 1 /\ i \in 1 .. n /\ i + 1 \in 1 .. n
      BY <1>1, <2>1
    <3>. QED
      BY <1>4, <1>6, <3>1
  <2>2. CASE i = n
    <3>1. i \in 1 .. n /\ i + 1 \in n + 1 .. n + (L - 1) /\ i + 1 - n + 1 = 2 /\ 1 \in 1 .. L - 1
      BY <1>1, <1>3, <2>2
    <3>2. r[i + 1] = t[2] /\ r[i] = calls[n]
      BY <1>4, <1>5, <2>2, <3>1
    <3>3. Over(t[1], t[2])
      <4>1. 1 + 1 = 2
        OBVIOUS
      <4>. QED
        BY <1>7, <3>1, <4>1
    <3>4. Replaces(calls[n], t[1])
      <4>1. calls # << >>
        BY <2>2, <1>1 DEF n
      <4>. QED
        BY <1>1, <4>1 DEF n
    <3>. QED
      BY <3>2, <3>3, <3>4 DEF Over, Replaces
  <2>3. CASE i >= n + 1
    <3>. DEFINE k == i - n + 1
    <3>1. /\ i \in n + 1 .. n + (L - 1) /\ i + 1 \in n + 1 .. n + (L - 1)
          /\ k \in 1 .. L - 1 /\ i + 1 - n + 1 = k + 1
      BY <1>1, <1>3, <2>3
    <3>2. r[i] = t[k]
      BY <1>5, <3>1
    <3>4. r[i + 1] = t[k + 1]
      <4>. DEFINE j == i + 1
      <4>1. j \in n + 1 .. n + (L - 1)
        BY <3>1
      <4>3. j - n + 1 = k + 1
        <5>1. n \in Int /\ i \in Int
          BY <1>1
        <5>. QED
          BY <5>1
      <4>. HIDE DEF j, k
      <4>2. r[j] = t[k + 1]
        BY <1>5, <4>1, <4>3
      <4>. QED
        BY <4>2 DEF j
    <3>. HIDE DEF k
    <3>. QED
      BY <1>7, <3>1, <3>2, <3>4
  <2>. QED
    BY <1>1, <2>1, <2>2, <2>3
<1>9. ASSUME NEW i \in 1 .. Len(r)
      PROVE  /\ r[i].at \in Takers => \A j \in 1 .. i - 1 : r[j].at \in ExprCalls
             /\ r[i].at \in {"compile", "script"} => i = Len(r)
             /\ r[i].at \in Conditions => Conditional
  <2>1. CASE i <= n
    <3>1. i \in 1 .. n /\ \A j \in 1 .. i - 1 : j \in 1 .. n
      BY <1>1, <2>1
    <3>2. r[i] = calls[i] /\ \A j \in 1 .. i - 1 : r[j] = calls[j]
      BY <1>4, <3>1
    <3>3. calls[i].at \in {"compile", "script"} => i = Len(r)
      <4>. SUFFICES ASSUME calls[i].at \in {"compile", "script"}
                    PROVE  i = Len(r)
        OBVIOUS
      <4>1. i = n /\ calls # << >>
        BY <1>1, <1>6, <3>1 DEF n
      <4>2. t[1].at \in {"compile", "script"}
        BY <1>1, <4>1 DEF n, Replaces
      <4>3. 1 \in 1 .. L
        BY <1>1
      <4>4. L = 1
        BY <1>7, <4>2, <4>3
      <4>. QED
        BY <1>1, <1>3, <4>1, <4>4
    <3>. QED
      BY <1>6, <3>1, <3>2, <3>3
  <2>2. CASE i >= n + 1
    <3>. DEFINE k == i - n + 1
    <3>1. i \in n + 1 .. n + (L - 1) /\ k \in 2 .. L /\ k \in 1 .. L
      BY <1>1, <1>3, <2>2
    <3>2. r[i] = t[k]
      BY <1>5, <3>1
    <3>3. ASSUME r[i].at \in Takers, NEW j \in 1 .. i - 1
          PROVE  r[j].at \in ExprCalls
      <4>0. \A m \in 1 .. k - 1 : t[m].at \in ExprCalls
        <5>. HIDE DEF k
        <5>. QED
          BY <1>7, <3>1, <3>2, <3>3
      <4>1. CASE j <= n
        <5>1. 1 \in 1 .. k - 1 /\ j \in 1 .. n
          BY <1>1, <3>1, <4>1
        <5>2. r[j] = calls[j] /\ Head(t).at \in ExprCalls
          BY <1>1, <1>4, <4>0, <5>1
        <5>. QED
          BY <5>1, <5>2 DEF n
      <4>2. CASE j >= n + 1
        <5>1. j \in n + 1 .. n + (L - 1) /\ j - n + 1 \in 1 .. k - 1
          BY <1>1, <1>3, <4>2
        <5>. QED
          BY <1>5, <4>0, <5>1
      <4>. QED
        BY <1>1, <4>1, <4>2
    <3>4. t[k].at \in {"compile", "script"} => i = Len(r)
      <4>1. k = L => i = n + (L - 1)
        BY <1>1
      <4>. HIDE DEF k
      <4>. QED
        BY <1>3, <1>7, <3>1, <4>1
    <3>. HIDE DEF k
    <3>. QED
      BY <1>7, <3>1, <3>2, <3>3, <3>4
  <2>. QED
    BY <1>1, <2>1, <2>2
<1>10. r = calls \o Tail(t)
  BY DEF r, T
<1>. QED
  BY <1>8, <1>9, <1>10 DEF StackOK
-----------------------------------------------------------------------------
(* The tokens read.                                                        *)

ReadOK(p) ==
  /\ {p.previous, p.current} \subseteq {text[i] : i \in 1 .. Len(text)} \cup {EOF, NoToken}
  /\ p.pos \in 1 .. Len(text) - 1 => p.current = text[p.pos]
  /\ Plain /\ p.current.type = "MINUS" => p.previous.type \in Minuends

(* A parser, and one that has read as much, with no fewer errors.          *)
IsParser(p) ==
  /\ p = [pos |-> p.pos, preprevious |-> p.preprevious, previous |-> p.previous,
          current |-> p.current, error |-> p.error, panicking |-> p.panicking, fns |-> p.fns]
  /\ p.pos \in 0 .. Len(text) /\ (p.panicking => p.error)
Still(p, q) ==
  /\ IsParser(q) /\ q.pos = p.pos /\ q.previous = p.previous /\ q.current = p.current
  /\ p.error => q.error

(* A parser of CompilerInv is one.                                         *)
LEMMA FineIsParser ==
  ASSUME NEW p, Fine(p), text \in Texts
  PROVE  IsParser(p) /\ Still(p, p)
<1>1. PICK S : Sound(p, S)
  BY DEF Fine
<1>2. /\ p.pos \in Nat /\ p.pos <= Len(text) /\ (p.panicking => p.error)
      /\ p = [pos |-> p.pos, preprevious |-> p.preprevious, previous |-> p.previous,
              current |-> p.current, error |-> p.error, panicking |-> p.panicking,
              fns |-> p.fns]
  BY <1>1 DEF Sound, ParserSet
<1>3. Len(text) \in Nat
  BY TextIs
<1>. QED
  BY <1>2, <1>3 DEF IsParser, Still

(* One reading nothing after another.                                      *)
LEMMA StillTrans ==
  ASSUME NEW p, NEW q, NEW r, Still(p, q), Still(q, r)
  PROVE  Still(p, r)
BY DEF Still

(* What has been read stays so while nothing is.                           *)
LEMMA StillReads ==
  ASSUME NEW p, NEW q, Still(p, q), ReadOK(p)
  PROVE  ReadOK(q)
BY DEF Still, ReadOK

(* advance reads the next token: before a minus, one that may precede it.  *)
LEMMA AdvanceReads ==
  ASSUME NEW p, IsParser(p), text \in Texts, ReadOK(p)
  PROVE  /\ ReadOK(Advance(p)) /\ IsParser(Advance(p)) /\ Advance(p).previous = p.current
         /\ Advance(p).error = p.error /\ Advance(p).fns = p.fns
<1>. DEFINE q == Advance(p)
<1>2. p.pos \in Nat /\ p.pos <= Len(text) /\ text \in Seq(Tokens) /\ Len(text) \in Nat
  BY TextIs DEF IsParser
<1>3. /\ q.pos = NextPos(p) /\ q.previous = p.current /\ q.error = p.error /\ q.fns = p.fns
      /\ q.current = IF Unread(p) = {} THEN EOF ELSE text[NextPos(p)]
      /\ NextPos(p) \in 0 .. Len(text) => IsParser(q)
  <2>. DEFINE c == IF Unread(p) = {} THEN EOF ELSE text[NextPos(p)]  i == NextPos(p)
  <2>2. q = [p EXCEPT !.pos = i, !.preprevious = p.previous, !.previous = p.current,
                      !.current = c]
    BY DEF Advance
  <2>. HIDE DEF c, i, q
  <2>3. /\ q.pos = i /\ q.previous = p.current /\ q.error = p.error /\ q.fns = p.fns
        /\ q.current = c /\ (i \in 0 .. Len(text) => IsParser(q))
    BY <2>2 DEF IsParser
  <2>. QED
    BY <2>3 DEF c, i
<1>. HIDE DEF q
<1>4. p.current \in {text[i] : i \in 1 .. Len(text)} \cup {EOF, NoToken}
  BY DEF ReadOK
<1>5. CASE Unread(p) = {}
  <2>1. q.pos = Len(text) /\ q.current = EOF /\ IsParser(q)
    BY <1>2, <1>3, <1>5 DEF NextPos
  <2>2. q.pos \notin 1 .. Len(text) - 1 /\ q.current.type # "MINUS"
    BY <1>2, <2>1 DEF EOF, Token
  <2>. QED
    BY <1>3, <1>4, <2>1, <2>2 DEF ReadOK, q
<1>6. CASE Unread(p) # {}
  <2>1. Unread(p) \in SUBSET Nat
    BY <1>2 DEF Unread
  <2>2. \E i \in Unread(p) : \A j \in Unread(p) : i <= j
    BY <1>6, <2>1, LeastOf
  <2>. DEFINE i == NextPos(p)
  <2>3. i \in Unread(p) /\ \A j \in Unread(p) : i <= j
    BY <1>6, <2>2 DEF NextPos
  <2>. HIDE DEF i
  <2>4. /\ i \in p.pos + 1 .. Len(text) /\ i \in Nat /\ i \in 1 .. Len(text)
        /\ q.pos = i /\ q.current = text[i] /\ IsParser(q)
    BY <1>2, <1>3, <1>6, <2>3 DEF Unread, i
  <2>5. ASSUME Plain, text[i].type = "MINUS"
        PROVE  p.current.type \in Minuends
    <3>1. i > 1 /\ text[i - 1].type \in Minuends
      BY <2>4, <2>5 DEF Plain
    <3>2. text[i - 1].type # "ERR"
      BY <3>1 DEF Minuends
    <3>3. i - 1 \notin Unread(p)
      BY <2>3, <2>4
    <3>4. ~ (i - 1 \in p.pos + 1 .. Len(text))
      BY <3>2, <3>3 DEF Unread
    <3>5. i - 1 = p.pos /\ p.pos \in 1 .. Len(text) - 1
      BY <1>2, <2>4, <3>1, <3>4
    <3>6. p.current = text[p.pos]
      BY <3>5 DEF ReadOK
    <3>. QED
      BY <3>1, <3>5, <3>6
  <2>6. ReadOK(q)
    BY <1>3, <1>4, <2>4, <2>5 DEF ReadOK
  <2>. QED
    BY <1>3, <2>4, <2>6 DEF q
<1>. QED
  BY <1>5, <1>6

(* error_at reads nothing, and there is an error from now on.              *)
LEMMA ErrorAtIs ==
  ASSUME NEW p, IsParser(p)
  PROVE  Still(p, ErrorAt(p)) /\ ErrorAt(p).error /\ ErrorAt(p).fns = p.fns
<1>1. CASE p.panicking
  BY <1>1 DEF ErrorAt, IsParser, Still
<1>2. CASE ~ p.panicking
  BY <1>2 DEF ErrorAt, IsParser, Still
<1>. QED
  BY <1>1, <1>2

(* What is consumed without an error is the token that comes next.         *)
LEMMA ConsumeReads ==
  ASSUME NEW p, IsParser(p), text \in Texts, ReadOK(p), NEW type
  PROVE  /\ ReadOK(Consume(p, type)) /\ IsParser(Consume(p, type))
         /\ Consume(p, type).fns = p.fns
         /\ ~ Consume(p, type).error =>
              /\ ~ p.error /\ p.current.type = type /\ Consume(p, type) = Advance(p)
              /\ Consume(p, type).previous.type = type
<1>1. CASE Check(p, type)
  <2>1. Consume(p, type) = Advance(p) /\ p.current.type = type
    BY <1>1 DEF Consume, Check
  <2>. QED
    BY <2>1, AdvanceReads
<1>2. CASE ~ Check(p, type)
  <2>1. Consume(p, type) = ErrorAt(p)
    BY <1>2 DEF Consume
  <2>3. Still(p, ErrorAt(p)) /\ ErrorAt(p).error /\ ErrorAt(p).fns = p.fns
    BY ErrorAtIs
  <2>4. ReadOK(ErrorAt(p)) /\ IsParser(ErrorAt(p))
    BY <2>3, StillReads DEF Still
  <2>. QED
    BY <2>1, <2>3, <2>4
<1>. QED
  BY <1>1, <1>2

(* The helpers that read nothing.                                          *)
LEMMA WithFnStill ==
  ASSUME NEW p, IsParser(p), NEW f
  PROVE  Still(p, WithFn(p, f)) /\ WithFn(p, f).error = p.error
<1>. DEFINE g == [p.fns EXCEPT ![Len(p.fns)] = f]
<1>1. WithFn(p, f) = [p EXCEPT !.fns = g]
  BY DEF WithFn
<1>. HIDE DEF g
<1>. QED
  BY <1>1 DEF IsParser, Still

(* Nor do the helpers that emit, patch or declare.                         *)
LEMMA HelpersStill ==
  ASSUME NEW p, IsParser(p)
  PROVE  /\ \A b : Still(p, Emit(p, b)) /\ Emit(p, b).error = p.error
         /\ \A op : Still(p, EmitOp(p, op)) /\ EmitOp(p, op).error = p.error
         /\ \A op : Still(p, EmitJump(p, op)) /\ EmitJump(p, op).error = p.error
         /\ \A v : Still(p, AddConstant(p, v))
         /\ \A v : Still(p, EmitConstant(p, v))
         /\ \A j : Still(p, PatchJump(p, j))
         /\ \A s : Still(p, EmitLoop(p, s))
         /\ Still(p, BeginScope(p)) /\ Still(p, EndScope(p)) /\ Still(p, MarkInitialized(p))
         /\ Still(p, DeclareVariable(p))
         /\ \A g : Still(p, DefineGlobal(p, g))
<1>1. \A b : Still(p, Emit(p, b)) /\ Emit(p, b).error = p.error
  BY WithFnStill DEF Emit
<1>2. \A op : Still(p, EmitOp(p, op)) /\ EmitOp(p, op).error = p.error
  BY <1>1 DEF EmitOp
<1>3. \A op : Still(p, EmitJump(p, op)) /\ EmitJump(p, op).error = p.error
  BY <1>1 DEF EmitJump
<1>4. ASSUME NEW v
      PROVE  Still(p, AddConstant(p, v))
  <2>. DEFINE q == WithFn(p, [Fn(p) EXCEPT !.consts = Append(@, v)])
  <2>1. Still(p, q)
    BY WithFnStill
  <2>2. AddConstant(p, v) = IF TooMany(p) THEN ErrorAt(q) ELSE q
    BY DEF AddConstant
  <2>. HIDE DEF q
  <2>3. Still(p, ErrorAt(q))
    BY <2>1, ErrorAtIs, StillTrans DEF Still
  <2>. QED
    BY <2>1, <2>2, <2>3
<1>5. ASSUME NEW v
      PROVE  Still(p, EmitConstant(p, v))
  <2>. DEFINE q == AddConstant(p, v)
  <2>1. Still(p, q)
    BY <1>4
  <2>2. EmitConstant(p, v) = WithFn(q, [Fn(q) EXCEPT !.code = @ \o <<Opcode["CONSTANT"], ConstantId(p)>>])
    BY DEF EmitConstant, Emit
  <2>. HIDE DEF q
  <2>3. IsParser(q)
    BY <2>1 DEF Still
  <2>. QED
    BY <2>1, <2>2, <2>3, WithFnStill, StillTrans
<1>6. ASSUME NEW j
      PROVE  Still(p, PatchJump(p, j))
  <2>. DEFINE k == Count(p) - j - 2  q == IF k > JumpMax THEN ErrorAt(p) ELSE p
  <2>1. Still(p, p)
    BY DEF Still
  <2>2. Still(p, q)
    BY <2>1, ErrorAtIs
  <2>3. \E f : PatchJump(p, j) = WithFn(q, f)
    BY DEF PatchJump
  <2>. HIDE DEF q
  <2>4. IsParser(q)
    BY <2>2 DEF Still
  <2>. QED
    BY <2>2, <2>3, <2>4, WithFnStill, StillTrans
<1>7. ASSUME NEW s
      PROVE  Still(p, EmitLoop(p, s))
  <2>. DEFINE q == EmitOp(p, "LOOP")
              k == Count(q) - s + 2
              r == IF k > JumpMax THEN ErrorAt(q) ELSE q
  <2>1. Still(p, q) /\ IsParser(q)
    BY <1>2 DEF Still
  <2>. HIDE DEF q
  <2>2. Still(p, r)
    BY <2>1, ErrorAtIs, StillTrans
  <2>3. \E f : EmitLoop(p, s) = WithFn(r, f)
    BY DEF EmitLoop, Emit, q
  <2>. HIDE DEF r
  <2>4. IsParser(r)
    BY <2>2 DEF Still
  <2>. QED
    BY <2>2, <2>3, <2>4, WithFnStill, StillTrans
<1>8. Still(p, BeginScope(p))
  BY WithFnStill DEF BeginScope
<1>9. Still(p, EndScope(p))
  <2>1. \E f, b : EndScope(p) = Emit(WithFn(p, f), b)
    BY DEF EndScope
  <2>2. PICK f, b : EndScope(p) = Emit(WithFn(p, f), b)
    BY <2>1
  <2>. DEFINE q == WithFn(p, f)
  <2>3. Still(p, q) /\ IsParser(q)
    BY WithFnStill DEF Still
  <2>. HIDE DEF q
  <2>4. \E g : EndScope(p) = WithFn(q, g)
    BY <2>2 DEF Emit, q
  <2>. QED
    BY <2>3, <2>4, WithFnStill, StillTrans
<1>10. Still(p, p)
  BY DEF Still
<1>11. Still(p, MarkInitialized(p))
  BY <1>10, WithFnStill DEF MarkInitialized
<1>12. Still(p, DeclareVariable(p))
  <2>. DEFINE q == IF Redeclares(p, p.previous.text) THEN ErrorAt(p) ELSE p
  <2>1. Still(p, q)
    BY <1>10, ErrorAtIs
  <2>2. DeclareVariable(p) = IF ScopeDepth(p) = 0 THEN p ELSE AddLocal(q, p.previous.text)
    BY DEF DeclareVariable
  <2>. HIDE DEF q
  <2>3. IsParser(q)
    BY <2>1 DEF Still
  <2>4. Still(q, AddLocal(q, p.previous.text))
    BY <2>3, ErrorAtIs, WithFnStill DEF AddLocal
  <2>. QED
    BY <1>10, <2>1, <2>2, <2>4, StillTrans
<1>13. ASSUME NEW g
       PROVE  Still(p, DefineGlobal(p, g))
  BY <1>1, <1>11 DEF DefineGlobal
<1>. QED
  BY <1>1, <1>2, <1>3, <1>4, <1>5, <1>6, <1>7, <1>8, <1>9, <1>11, <1>12, <1>13

(* What the call on top may rely on, of an accepted text.                  *)
Settles(c, p) ==
  /\ c.at \in PrefixCalls => GetRule(p.previous.type).prefix = c.at
  /\ c.at = "unary" => p.previous.type # "MINUS"
  /\ c.at = "compile" => p.current = NoToken
  /\ c.at = "call" => p.previous.type = "L_PAREN"
  /\ c.at = "func_declaration" => p.previous.type = "FUNC"
  /\ c.at # "synchronize"
  /\ c.at \in Starting => p.previous.type \notin Minuends

(* What has been read, and what the calls in progress wait for.            *)
TextInv ==
  /\ ReadOK(parser) /\ StackOK(todo)
  /\ todo # << >> /\ Plain /\ ~ parser.error => Settles(Top, parser)

(* What is known of the call on top.                                       *)
LEMMA TopReads ==
  ASSUME CompilerInv, TextInv, todo # << >>
  PROVE  /\ todo \in Seq(Calls) /\ Top = todo[1] /\ Len(todo) \in Nat /\ Len(todo) >= 1
         /\ text \in Texts /\ IsParser(parser) /\ ReadOK(parser) /\ Still(parser, parser)
         /\ Top.at \in Conditions => Conditional
         /\ Top.at \in {"compile", "script"} => Len(todo) = 1
         /\ Plain /\ ~ parser.error => Settles(Top, parser)
         /\ parser.panicking => parser.error
<1>1. todo \in Seq(Calls) /\ text \in Texts /\ Fine(parser)
  BY DEF CompilerInv, TodoOK
<1>2. Len(todo) \in Nat /\ Len(todo) >= 1 /\ Top = todo[1]
  BY <1>1, EmptySeq, LenProperties DEF Top
<1>3. IsParser(parser) /\ Still(parser, parser)
  BY <1>1, FineIsParser
<1>4. 1 \in 1 .. Len(todo)
  BY <1>2
<1>. QED
  BY <1>1, <1>2, <1>3, <1>4 DEF TextInv, StackOK, IsParser

(* The first of calls on others.                                           *)
LEMMA FirstOf ==
  ASSUME NEW S, NEW c \in Seq(S), NEW t \in Seq(S), Len(c) >= 1
  PROVE  Head(c \o t) = c[1]
<1>1. Len(c) \in Nat /\ Len(t) \in Nat
  BY LenProperties
<1>2. 1 \in 1 .. Len(c) + Len(t)
  BY <1>1
<1>3. (c \o t)[1] = c[1]
  BY <1>2, ConcatProperties
<1>. QED
  BY <1>3

(* The next state, by the parser and the calls there.                      *)
LEMMA TextNext ==
  ASSUME NEW q, NEW t, text' = text, parser' = q, todo' = t, ReadOK(q), StackOK(t),
         t # << >> /\ Plain /\ ~ q.error => Settles(Head(t), q)
  PROVE  TextInv'
<1>1. (Conditional <=> Conditional') /\ (Minuends = Minuends') /\ (Plain <=> Plain')
  BY DEF Conditional, Minuends, Plain
<1>2. ReadOK(parser)'
  BY <1>1 DEF ReadOK
<1>3. StackOK(todo)'
  BY <1>1 DEF StackOK, Over
<1>4. (todo # << >> /\ Plain /\ ~ parser.error => Settles(Top, parser))'
  BY <1>1 DEF Settles, Top
<1>. QED
  BY <1>2, <1>3, <1>4 DEF TextInv

(* The call on top returns.                                                *)
LEMMA TextReturns ==
  ASSUME CompilerInv, TextInv, todo # << >>, NEW q, Return(q), ReadOK(q),
         Plain /\ ~ q.error /\ ~ Gives(Top) => q.previous.type \notin Minuends
  PROVE  TextInv'
<1>. DEFINE t == << >> \o Tail(todo)  L == Len(todo)
<1>1. /\ todo \in Seq(Calls) /\ Top = todo[1] /\ L \in Nat /\ L >= 1 /\ StackOK(todo)
      /\ Top = Head(todo)
  BY TopReads DEF TextInv, Top
<1>2. text' = text /\ parser' = q /\ todo' = t
  BY DEF Return, Then
<1>3. /\ << >> \in Seq(Calls) /\ Len(<< >>) = 0
      /\ Tail(todo) \in Seq(Calls) /\ Len(Tail(todo)) = L - 1
      /\ \A i \in 1 .. L - 1 : Tail(todo)[i] = todo[i + 1]
  <2>1. << >> \in Seq(Calls) /\ Len(<< >>) = 0
    BY EmptySeq
  <2>2. /\ Tail(todo) \in Seq(Calls) /\ Len(Tail(todo)) = L - 1
        /\ \A i \in 1 .. L - 1 : Tail(todo)[i] = todo[i + 1]
    BY <1>1, HeadTailProperties
  <2>. QED
    BY <2>1, <2>2
<1>4. StackOK(<< >>)
  BY <1>3 DEF StackOK
<1>5. StackOK(t)
  <2>. DEFINE c == << >>
  <2>1. c \in Seq(Calls) /\ StackOK(c) /\ c = << >> /\ Len(c) = 0
    BY <1>3, <1>4
  <2>. HIDE DEF c
  <2>2. \A k \in 1 .. Len(c) : c[k].at \in ExprCalls
    BY <2>1
  <2>3. StackOK(c \o Tail(todo))
    BY <1>1, <2>1, <2>2, StackThen
  <2>. QED
    BY <2>3 DEF c
<1>6. t = Tail(todo)
  BY <1>3, ConcatEmptySeq
<1>. HIDE DEF t
<1>7. ASSUME t # << >>, Plain, ~ q.error
      PROVE  Settles(Head(t), q)
  <2>1. Len(t) # 0
    BY <1>3, <1>6, <1>7, EmptySeq
  <2>2. 1 \in 1 .. L - 1 /\ 1 + 1 = 2
    BY <1>1, <1>3, <1>6, <2>1
  <2>3. Head(t) = todo[2]
    BY <1>3, <1>6, <2>1, <2>2
  <2>4. Over(Top, todo[2])
    BY <1>1, <2>2 DEF StackOK
  <2>5. todo[2].at \in Starting => ~ Gives(Top)
    BY <2>4 DEF Over, Starting, Takers
  <2>6. todo[2].at \notin PrefixCalls \cup {"unary", "compile", "synchronize", "call", "func_declaration"}
    BY <2>4 DEF Over, Waiting, Takers, PrefixCalls
  <2>. QED
    BY <1>7, <2>3, <2>5, <2>6 DEF Settles
<1>. QED
  BY <1>2, <1>5, <1>7, TextNext

(* It goes on as one call, or makes a call first.                          *)
LEMMA TextOne ==
  ASSUME CompilerInv, TextInv, todo # << >>, NEW q, NEW a, Then(q, <<a>>), ReadOK(q),
         Replaces(a, Top), Top.at \in ExprCalls => a.at \in ExprCalls,
         a.at \in Conditions => Top.at \in Conditions \/ Conditional,
         Plain /\ ~ q.error => Settles(a, q)
  PROVE  TextInv'
<1>. DEFINE S == Calls \cup {a}  c == <<a>>  t == c \o Tail(todo)
<1>1. /\ todo \in Seq(Calls) /\ Top = Head(todo) /\ StackOK(todo)
      /\ (Top.at \in Conditions => Conditional)
  BY TopReads DEF TextInv, Top
<1>2. text' = text /\ parser' = q /\ todo' = t
  BY DEF Then
<1>3. todo \in Seq(S) /\ c \in Seq(S)
  <2>1. Calls \subseteq S /\ a \in S
    OBVIOUS
  <2>. HIDE DEF S
  <2>. QED
    BY <1>1, <2>1, SeqMonotonic
<1>. HIDE DEF S
<1>4. Len(c) = 1 /\ c[1] = a /\ c # << >>
  OBVIOUS
<1>. HIDE DEF c
<1>5. StackOK(c)
  BY <1>1, <1>4 DEF StackOK, Replaces
<1>6. StackOK(t)
  BY <1>1, <1>3, <1>4, <1>5, StackThen
<1>7. Head(t) = a
  <2>1. Tail(todo) \in Seq(S)
    BY <1>3, HeadTailProperties
  <2>. QED
    BY <1>3, <1>4, <2>1, FirstOf
<1>. HIDE DEF t
<1>. QED
  BY <1>2, <1>6, <1>7, TextNext

(* The call on top makes a call and goes on as another.                    *)
LEMMA TextTwo ==
  ASSUME CompilerInv, TextInv, todo # << >>, NEW q, NEW a, NEW b, Then(q, <<a, b>>), ReadOK(q),
         Over(a, b), Replaces(b, Top),
         Top.at \in ExprCalls => a.at \in ExprCalls /\ b.at \in ExprCalls,
         a.at \notin {"compile", "script"},
         a.at \in Conditions \/ b.at \in Conditions => Top.at \in Conditions \/ Conditional,
         Plain /\ ~ q.error => Settles(a, q)
  PROVE  TextInv'
<1>. DEFINE S == Calls \cup {a, b}  c == <<a, b>>  t == c \o Tail(todo)
<1>1. /\ todo \in Seq(Calls) /\ Top = Head(todo) /\ StackOK(todo)
      /\ (Top.at \in Conditions => Conditional)
  BY TopReads DEF TextInv, Top
<1>2. text' = text /\ parser' = q /\ todo' = t
  BY DEF Then
<1>3. todo \in Seq(S) /\ c \in Seq(S)
  <2>1. Calls \subseteq S /\ a \in S /\ b \in S
    OBVIOUS
  <2>. HIDE DEF S
  <2>. QED
    BY <1>1, <2>1, SeqMonotonic
<1>. HIDE DEF S
<1>4. Len(c) = 2 /\ c[1] = a /\ c[2] = b /\ c # << >>
  OBVIOUS
<1>. HIDE DEF c
<1>5. StackOK(c)
  <2>1. \A i \in 1 .. 2 : i = 1 \/ i = 2
    OBVIOUS
  <2>2. \A i \in 1 .. 2 - 1 : i = 1 /\ i + 1 = 2
    OBVIOUS
  <2>3. \A i \in 1 .. 2 : \A j \in 1 .. i - 1 : j = 1 /\ i = 2
    OBVIOUS
  <2>4. b.at \in Takers => a.at \in ExprCalls
    BY DEF Over, Gives
  <2>. QED
    BY <1>1, <1>4, <2>1, <2>2, <2>3, <2>4 DEF StackOK
<1>6. StackOK(t)
  <2>1. \A k \in 1 .. 2 : k = 1 \/ k = 2
    OBVIOUS
  <2>2. Head(todo).at \in ExprCalls => \A k \in 1 .. Len(c) : c[k].at \in ExprCalls
    BY <1>1, <1>4, <2>1
  <2>3. Replaces(c[Len(c)], Head(todo))
    BY <1>1, <1>4
  <2>. QED
    BY <1>1, <1>3, <1>5, <2>2, <2>3, StackThen
<1>7. Head(t) = a
  <2>1. Tail(todo) \in Seq(S)
    BY <1>3, HeadTailProperties
  <2>. QED
    BY <1>3, <1>4, <2>1, FirstOf
<1>. HIDE DEF t
<1>. QED
  BY <1>2, <1>6, <1>7, TextNext

(* It makes two, as a block in a scope of its own or the body of a for.    *)
LEMMA TextThree ==
  ASSUME CompilerInv, TextInv, todo # << >>, NEW q, NEW a, NEW b, NEW d,
         Then(q, <<a, b, d>>), ReadOK(q), Over(a, b), Over(b, d), Replaces(d, Top),
         Top.at \notin ExprCalls, {b.at, d.at} \cap Takers = {},
         {a.at, b.at, d.at} \cap ({"compile", "script"} \cup Conditions) = {},
         Plain /\ ~ q.error => Settles(a, q)
  PROVE  TextInv'
<1>. DEFINE S == Calls \cup {a, b, d}  c == <<a, b, d>>  t == c \o Tail(todo)
<1>1. todo \in Seq(Calls) /\ Top = Head(todo) /\ StackOK(todo)
  BY TopReads DEF TextInv, Top
<1>2. text' = text /\ parser' = q /\ todo' = t
  BY DEF Then
<1>3. todo \in Seq(S) /\ c \in Seq(S)
  <2>1. Calls \subseteq S /\ a \in S /\ b \in S /\ d \in S
    OBVIOUS
  <2>. HIDE DEF S
  <2>. QED
    BY <1>1, <2>1, SeqMonotonic
<1>. HIDE DEF S
<1>4. Len(c) = 3 /\ c[1] = a /\ c[2] = b /\ c[3] = d /\ c # << >>
  OBVIOUS
<1>. HIDE DEF c
<1>5. StackOK(c)
  <2>1. \A i \in 1 .. 3 : i = 1 \/ i = 2 \/ i = 3
    OBVIOUS
  <2>2. \A i \in 1 .. 3 - 1 : (i = 1 /\ i + 1 = 2) \/ (i = 2 /\ i + 1 = 3)
    OBVIOUS
  <2>3. a.at \in Takers => \A j \in 1 .. 1 - 1 : c[j].at \in ExprCalls
    OBVIOUS
  <2>. QED
    BY <1>4, <2>1, <2>2, <2>3 DEF StackOK
<1>6. StackOK(t)
  <2>2. Head(todo).at \notin ExprCalls
    BY <1>1
  <2>3. Replaces(c[Len(c)], Head(todo))
    BY <1>1, <1>4
  <2>. QED
    BY <1>1, <1>3, <1>5, <2>2, <2>3, StackThen
<1>7. Head(t) = a
  <2>1. Tail(todo) \in Seq(S)
    BY <1>3, HeadTailProperties
  <2>. QED
    BY <1>3, <1>4, <2>1, FirstOf
<1>. HIDE DEF t
<1>. QED
  BY <1>2, <1>6, <1>7, TextNext

(* The same after other helpers.                                           *)
LEMMA Onward ==
  ASSUME NEW p, NEW q, Still(p, q)
  PROVE  /\ IsParser(q) /\ (ReadOK(p) => ReadOK(q))
         /\ Still(p, ErrorAt(q)) /\ ErrorAt(q).error
         /\ \A b : Still(p, Emit(q, b))
         /\ \A op : Still(p, EmitOp(q, op)) /\ Still(p, EmitJump(q, op))
         /\ \A v : Still(p, AddConstant(q, v)) /\ Still(p, EmitConstant(q, v))
         /\ \A j : Still(p, PatchJump(q, j)) /\ Still(p, EmitLoop(q, j))
         /\ Still(p, BeginScope(q)) /\ Still(p, EndScope(q)) /\ Still(p, MarkInitialized(q))
         /\ Still(p, DeclareVariable(q))
         /\ \A g : Still(p, DefineGlobal(q, g))
         /\ \A f : Still(p, WithFn(q, f))
<1>1. IsParser(q)
  BY DEF Still
<1>2. \A r : Still(q, r) => Still(p, r)
  BY StillTrans
<1>3. ReadOK(p) => ReadOK(q)
  BY StillReads
<1>. QED
  BY <1>1, <1>2, <1>3, HelpersStill, ErrorAtIs, WithFnStill

(* A token that ends no operand.                                           *)
Enders == {"IDENT", "INT", "NUMBER", "STRING", "R_PAREN"}

(* Where a minus may follow, an operand ends; a text with conditions has   *)
(* none after a parenthesis.                                               *)
LEMMA MinuendsAre == Minuends \subseteq Enders /\ (Conditional => "R_PAREN" \notin Minuends)
BY DEF Minuends, Enders
-----------------------------------------------------------------------------
(* The actions, by the tokens they read.                                   *)

(* tr_parser_compile reads the first token.                                *)
LEMMA CompileReads ==
  ASSUME CompilerInv, TextInv, Compile
  PROVE  TextInv'
<1>1. todo # << >> /\ Top.at = "compile" /\ Then(Advance(parser), <<Do("script")>>)
  BY DEF Compile, At
<1>2. /\ ReadOK(Advance(parser)) /\ Advance(parser).previous = parser.current
      /\ Advance(parser).error = parser.error
  BY <1>1, TopReads, AdvanceReads
<1>3. Plain /\ ~ Advance(parser).error => Settles(Do("script"), Advance(parser))
  <2>1. Plain /\ ~ Advance(parser).error => parser.current = NoToken
    BY <1>1, <1>2, TopReads DEF Settles
  <2>. QED
    BY <1>2, <2>1, MinuendsAre DEF Settles, Do, NoToken, Token, Enders, PrefixCalls
<1>. QED
  BY <1>1, <1>2, <1>3, TextOne DEF Do, Over, Replaces, Gives, Waiting, Takers, Branches,
     Bodied, ExprCalls, Immediate, PrefixCalls,
         Conditions

(* tr_parser_compile calls declaration until the end of the text.          *)
LEMMA ScriptReads ==
  ASSUME CompilerInv, TextInv, Script
  PROVE  TextInv'
<1>1. todo # << >> /\ Top.at = "script" /\ Then(parser, <<Do("declaration"), Do("script")>>)
  BY DEF Script, At
<1>2. ReadOK(parser) /\ (Plain /\ ~ parser.error => Settles(Do("declaration"), parser))
  BY <1>1, TopReads DEF Settles, Do, Starting, PrefixCalls
<1>. QED
  BY <1>1, <1>2, TextTwo DEF Do, Over, Replaces, Gives, Waiting, Takers, Branches, Bodied,
     ExprCalls, Immediate, PrefixCalls,
         Conditions

(* It ends there.                                                          *)
LEMMA ScriptEndReads ==
  ASSUME CompilerInv, TextInv, ScriptEnd
  PROVE  TextInv'
<1>. DEFINE b == <<Opcode["NIL"], Opcode["RETURN"]>>
            p == Emit(Advance(parser), b)  q == Consume(p, "EOF")
<1>1. todo # << >> /\ Top.at = "script" /\ Return(q)
  BY DEF ScriptEnd, At
<1>. HIDE DEF b
<1>2. IsParser(Advance(parser)) /\ ReadOK(Advance(parser)) /\ text \in Texts
  BY <1>1, TopReads, AdvanceReads
<1>3. Still(Advance(parser), p)
  BY <1>2, HelpersStill
<1>4. IsParser(p) /\ ReadOK(p)
  BY <1>2, <1>3, StillReads DEF Still
<1>. HIDE DEF p
<1>5. ReadOK(q) /\ (~ q.error => q.previous.type = "EOF")
  BY <1>2, <1>4, ConsumeReads
<1>. QED
  BY <1>1, <1>5, TextReturns, MinuendsAre DEF Enders

(* declaration goes by the token that it matches.                          *)
LEMMA DeclarationReads ==
  ASSUME CompilerInv, TextInv, Declaration
  PROVE  TextInv'
<1>. DEFINE name == Declares(parser.current.type)
            q == IF name = "statement" THEN parser ELSE Advance(parser)
            a == Do(name)  b == Do("declared")
<1>1. todo # << >> /\ Top.at = "declaration" /\ Then(q, <<a, b>>)
  BY DEF Declaration, At
<1>2. name \in {"func_declaration", "var_declaration", "for_statement", "if_statement",
                "return_statement", "while_statement", "statement"}
  BY DEF Declares
<1>3. name # "statement" => parser.current.type \in {"FUNC", "VAR", "FOR", "IF", "RETURN", "WHILE"}
  BY DEF Declares
<1>12. name = "func_declaration" => parser.current.type = "FUNC"
  BY DEF Declares
<1>4. name \in {"if_statement", "for_statement", "while_statement"} => Conditional
  <2>. SUFFICES ASSUME name \in {"if_statement", "for_statement", "while_statement"}
                PROVE  Conditional
    OBVIOUS
  <2>1. parser.current.type \in {"FOR", "IF", "WHILE"}
    BY DEF Declares
  <2>2. parser.current \in {text[i] : i \in 1 .. Len(text)} \cup {EOF, NoToken}
    BY <1>1, TopReads DEF ReadOK
  <2>. QED
    BY <2>1, <2>2 DEF Conditional, EOF, NoToken, Token
<1>5. a.at = name /\ b.at = "declared"
  BY DEF Do
<1>. HIDE DEF name
<1>6. /\ ReadOK(parser) /\ ReadOK(Advance(parser)) /\ Advance(parser).previous = parser.current
      /\ Advance(parser).error = parser.error
      /\ Plain /\ ~ parser.error => Settles(Top, parser)
  BY <1>1, TopReads, AdvanceReads
<1>7. Plain /\ ~ q.error => Settles(a, q)
  <2>. SUFFICES ASSUME Plain, ~ q.error
                PROVE  Settles(a, q)
    OBVIOUS
  <2>1. Settles(Top, parser)
    BY <1>6
  <2>2. q.previous.type \notin Minuends
    BY <1>1, <1>3, <1>6, <2>1, MinuendsAre DEF Settles, Starting, Enders
  <2>3. name = "func_declaration" => q.previous.type = "FUNC"
    BY <1>6, <1>12
  <2>. HIDE DEF a, q
  <2>. QED
    BY <1>2, <1>5, <2>2, <2>3 DEF Settles, PrefixCalls
<1>8. ReadOK(q)
  BY <1>6
<1>. HIDE DEF a, b, q
<1>9. Over(a, b) /\ Replaces(b, Top)
  BY <1>1, <1>2, <1>5 DEF Over, Replaces, Gives, Waiting, Takers, Branches, Bodied, ExprCalls,
     Immediate, PrefixCalls,
         Conditions
<1>10. Top.at \notin ExprCalls /\ a.at \notin {"compile", "script"}
  BY <1>1, <1>2, <1>5 DEF ExprCalls, Immediate, PrefixCalls
<1>11. a.at \in Conditions \/ b.at \in Conditions => Conditional
  BY <1>2, <1>4, <1>5 DEF Conditions
<1>. QED
  BY <1>1, <1>7, <1>8, <1>9, <1>10, <1>11, TextTwo

(* declaration returns, or synchronizes after an error.                    *)
LEMMA DeclaredReads ==
  ASSUME CompilerInv, TextInv, Declared
  PROVE  TextInv'
<1>1. todo # << >> /\ Top.at = "declared"
  BY DEF Declared, At
<1>2. CASE parser.panicking
  <2>. DEFINE q == [parser EXCEPT !.panicking = FALSE]
  <2>1. Then(q, <<Do("synchronize")>>)
    BY <1>2 DEF Declared
  <2>2. IsParser(parser) /\ ReadOK(parser) /\ parser.error
    BY <1>1, <1>2, TopReads
  <2>5. q = [parser EXCEPT !.panicking = FALSE]
    OBVIOUS
  <2>. HIDE DEF q
  <2>3. Still(parser, q)
    BY <2>2, <2>5 DEF IsParser, Still
  <2>4. ReadOK(q) /\ q.error
    BY <2>2, <2>3, StillReads DEF Still
  <2>. QED
    BY <1>1, <2>1, <2>4, TextOne DEF Do, Over, Replaces, Gives, Waiting, Takers, Branches,
       Bodied, ExprCalls, Immediate, PrefixCalls,
         Conditions
<1>3. CASE ~ parser.panicking
  <2>1. Return(parser)
    BY <1>3 DEF Declared
  <2>. QED
    BY <1>1, <2>1, TopReads, TextReturns DEF Settles, Starting
<1>. QED
  BY <1>2, <1>3

(* synchronize is after an error: the text is not accepted.                *)
LEMMA SynchronizeReads ==
  ASSUME CompilerInv, TextInv, Synchronize
  PROVE  TextInv'
<1>1. /\ todo # << >> /\ Top.at = "synchronize"
      /\ Return(parser) \/ Then(Advance(parser), <<Top>>)
  BY DEF Synchronize, At
<1>2. /\ ReadOK(parser) /\ ReadOK(Advance(parser)) /\ Advance(parser).error = parser.error
      /\ ~ (Plain /\ ~ parser.error)
  BY <1>1, TopReads, AdvanceReads DEF Settles
<1>3. Replaces(Top, Top)
  BY DEF Replaces
<1>. QED
  BY <1>1, <1>2, <1>3, TextReturns, TextOne

(* A parse function consumes the token that ends it.                       *)
LEMMA FinishCallReads ==
  ASSUME CompilerInv, TextInv, FinishCall
  PROVE  TextInv'
<1>. DEFINE p == IF Top.token = None THEN parser ELSE Consume(parser, Top.token)
            q == Emit(p, Top.code)
<1>1. todo # << >> /\ Top.at = "finish" /\ Return(q)
  BY DEF FinishCall, At
<1>2. IsParser(p) /\ ReadOK(p) /\ (~ p.error /\ Top.token # None => p.previous.type = Top.token)
  BY <1>1, TopReads, ConsumeReads
<1>. HIDE DEF p
<1>3. Still(p, q)
  BY <1>2, HelpersStill
<1>4. ReadOK(q) /\ (~ q.error /\ Top.token # None => q.previous.type = Top.token)
  BY <1>2, <1>3, StillReads DEF Still
<1>5. ~ Gives(Top) => Top.token = "SEMICOLON"
  BY <1>1 DEF Gives, ExprCalls
<1>. HIDE DEF q
<1>6. ~ q.error /\ ~ Gives(Top) => q.previous.type = "SEMICOLON"
  BY <1>4, <1>5 DEF None
<1>. QED
  BY <1>1, <1>4, <1>6, TextReturns, MinuendsAre DEF Enders

(* statement matches a brace, or is an expression.                         *)
LEMMA StatementReads ==
  ASSUME CompilerInv, TextInv, Statement
  PROVE  TextInv'
<1>1. todo # << >> /\ Top.at = "statement"
  BY DEF Statement, At
<1>2. CASE Check(parser, "L_BRACE")
  <2>. DEFINE p == Advance(parser)  q == BeginScope(p)
  <2>1. Then(q, <<Do("block"), Do("end_scope")>>)
    BY <1>2 DEF Statement
  <2>2. IsParser(p) /\ ReadOK(p) /\ p.previous.type = "L_BRACE"
    BY <1>1, <1>2, TopReads, AdvanceReads DEF Check
  <2>. HIDE DEF p
  <2>3. Still(p, q)
    BY <2>2, HelpersStill
  <2>4. ReadOK(q) /\ q.previous.type = "L_BRACE"
    BY <2>2, <2>3, StillReads DEF Still
  <2>. HIDE DEF q
  <2>5. Settles(Do("block"), q)
    BY <2>4, MinuendsAre DEF Settles, Do, Enders, PrefixCalls
  <2>. QED
    BY <1>1, <2>1, <2>4, <2>5, TextTwo DEF Do, Over, Replaces, Gives, Waiting, Takers,
       Branches, Bodied, ExprCalls, Immediate, PrefixCalls,
         Conditions
<1>3. CASE ~ Check(parser, "L_BRACE")
  <2>1. Then(parser, <<Do("expression_statement")>>)
    BY <1>3 DEF Statement
  <2>2. ReadOK(parser) /\ (Plain /\ ~ parser.error => Settles(Do("expression_statement"), parser))
    BY <1>1, TopReads DEF Settles, Do, Starting, PrefixCalls
  <2>. QED
    BY <1>1, <2>1, <2>2, TextOne DEF Do, Over, Replaces, Gives, Waiting, Takers, Branches,
       Bodied, ExprCalls, Immediate, PrefixCalls,
         Conditions
<1>. QED
  BY <1>2, <1>3

(* An expression first, where no operand ends, and then a call for it.     *)
LEMMA ExpressionReads ==
  ASSUME CompilerInv, TextInv, todo # << >>, NEW q, NEW prec, NEW b,
         Then(q, <<Precedence(prec), b>>), ReadOK(q),
         b.at \in Takers, Replaces(b, Top), b.at \notin ExprCalls => Top.at \notin ExprCalls,
         b.at \in Conditions => Top.at \in Conditions \/ Conditional,
         Plain /\ ~ q.error => q.previous.type \notin Minuends
  PROVE  TextInv'
<1>. DEFINE a == Precedence(prec)
<1>1. a.at = "precedence"
  BY DEF Precedence
<1>. HIDE DEF a
<1>2. Over(a, b) /\ a.at \in ExprCalls /\ a.at \notin Conditions \cup {"compile", "script"}
  BY <1>1 DEF Over, Replaces, Gives, Waiting, Takers, Branches, Bodied, ExprCalls, Immediate,
     PrefixCalls,
         Conditions
<1>3. Plain /\ ~ q.error => Settles(a, q)
  BY <1>1 DEF Settles, PrefixCalls
<1>4. Then(q, <<a, b>>)
  BY DEF a
<1>. QED
  BY <1>2, <1>3, <1>4, TextTwo

(* expression_statement calls expression, where no operand ends.           *)
LEMMA ExpressionStatementReads ==
  ASSUME CompilerInv, TextInv, ExpressionStatement
  PROVE  TextInv'
<1>. DEFINE b == Finish("SEMICOLON", <<Opcode["POP"]>>)
<1>1. /\ todo # << >> /\ Top.at = "expression_statement"
      /\ Then(parser, <<Precedence(PREC_ASSIGN), b>>)
  BY DEF ExpressionStatement, At, Expression
<1>2. b.at = "finish" /\ b.token = "SEMICOLON"
  BY DEF Finish
<1>. HIDE DEF b
<1>3. ReadOK(parser) /\ (Plain /\ ~ parser.error => parser.previous.type \notin Minuends)
  BY <1>1, TopReads DEF Settles, Starting
<1>4. Replaces(b, Top) /\ b.at \in Takers /\ Top.at \notin ExprCalls /\ b.at \notin Conditions
  BY <1>1, <1>2 DEF Over, Replaces, Gives, Waiting, Takers, Branches, Bodied, ExprCalls,
     Immediate, PrefixCalls,
         Conditions
<1>. QED
  BY <1>1, <1>3, <1>4, ExpressionReads

(* block calls declaration until its brace.                                *)
LEMMA BlockReads ==
  ASSUME CompilerInv, TextInv, Block
  PROVE  TextInv'
<1>1. todo # << >> /\ Top.at = "block"
  BY DEF Block, At
<1>2. CASE parser.current.type \in {"R_BRACE", "EOF"}
  <2>. DEFINE q == Consume(parser, "R_BRACE")
  <2>1. Return(q)
    BY <1>2 DEF Block
  <2>2. ReadOK(q) /\ (~ q.error => q.previous.type = "R_BRACE")
    BY <1>1, TopReads, ConsumeReads
  <2>. HIDE DEF q
  <2>. QED
    BY <1>1, <2>1, <2>2, TextReturns, MinuendsAre DEF Enders
<1>3. CASE parser.current.type \notin {"R_BRACE", "EOF"}
  <2>1. Then(parser, <<Do("declaration"), Do("block")>>)
    BY <1>3 DEF Block
  <2>2. ReadOK(parser) /\ (Plain /\ ~ parser.error => Settles(Do("declaration"), parser))
    BY <1>1, TopReads DEF Settles, Do, Starting, PrefixCalls
  <2>. QED
    BY <1>1, <2>1, <2>2, TextTwo DEF Do, Over, Replaces, Gives, Waiting, Takers, Branches,
       Bodied, ExprCalls, Immediate, PrefixCalls,
         Conditions
<1>. QED
  BY <1>2, <1>3

(* A call returns that has read nothing, where no operand ends.            *)
LEMMA QuietReads ==
  ASSUME CompilerInv, TextInv, todo # << >>, NEW q, Return(q), Still(parser, q),
         ~ Gives(Top) => Top.at \in Starting
  PROVE  TextInv'
<1>1. ReadOK(q)
  BY TopReads, StillReads
<1>2. Plain /\ ~ q.error /\ ~ Gives(Top) => q.previous.type \notin Minuends
  BY TopReads DEF Settles, Still
<1>. QED
  BY <1>1, <1>2, TextReturns

(* The end of a scope reads nothing.                                       *)
LEMMA ScopeEndsReads ==
  ASSUME CompilerInv, TextInv, ScopeEnds
  PROVE  TextInv'
<1>1. todo # << >> /\ Top.at = "end_scope" /\ Return(EndScope(parser))
  BY DEF ScopeEnds, At
<1>. QED
  BY <1>1, TopReads, HelpersStill, QuietReads DEF Starting

(* parse_variable reads a name.                                            *)
LEMMA ParseVariableReads ==
  ASSUME NEW p, IsParser(p), text \in Texts, ReadOK(p)
  PROVE  /\ IsParser(ParseVariable(p)) /\ ReadOK(ParseVariable(p))
         /\ ~ ParseVariable(p).error => ~ p.error /\ ParseVariable(p).previous.type = "IDENT"
<1>. DEFINE c == Consume(p, "IDENT")  d == DeclareVariable(c)
<1>1. /\ IsParser(c) /\ ReadOK(c)
      /\ ~ c.error => ~ p.error /\ c.previous.type = "IDENT"
  BY ConsumeReads
<1>. HIDE DEF c
<1>2. Still(c, d)
  BY <1>1, HelpersStill
<1>. HIDE DEF d
<1>3. \E v : ParseVariable(p) = IF ScopeDepth(p) > 0 THEN d ELSE AddConstant(d, v)
  BY DEF ParseVariable, c, d
<1>4. Still(c, ParseVariable(p))
  BY <1>2, <1>3, Onward
<1>. QED
  BY <1>1, <1>4, StillReads DEF Still

(* var_declaration reads a name, and perhaps a sign of equality.           *)
LEMMA VarDeclarationReads ==
  ASSUME CompilerInv, TextInv, VarDeclaration
  PROVE  TextInv'
<1>. DEFINE q == ParseVariable(parser)
            defined == [at |-> "var_defined", global |-> VariableId(parser)]
<1>1. todo # << >> /\ Top.at = "var_declaration"
  BY DEF VarDeclaration, At
<1>2. IsParser(q) /\ ReadOK(q) /\ text \in Texts
  BY <1>1, TopReads, ParseVariableReads
<1>3. IF Check(q, "ASSIGN") THEN Then(Advance(q), <<Precedence(PREC_ASSIGN), defined>>)
                            ELSE Then(EmitOp(q, "NIL"), <<defined>>)
  BY DEF VarDeclaration, Expression
<1>4. defined.at = "var_defined"
  OBVIOUS
<1>. HIDE DEF q, defined
<1>5. Replaces(defined, Top) /\ defined.at \in Takers /\ Top.at \notin ExprCalls
      /\ defined.at \notin Conditions
  BY <1>1, <1>4 DEF Over, Replaces, Gives, Waiting, Takers, Branches, Bodied, ExprCalls,
     Immediate, PrefixCalls,
         Conditions
<1>6. CASE Check(q, "ASSIGN")
  <2>1. ReadOK(Advance(q)) /\ Advance(q).previous.type = "ASSIGN"
    BY <1>2, <1>6, AdvanceReads DEF Check
  <2>. QED
    BY <1>1, <1>3, <1>5, <1>6, <2>1, ExpressionReads, MinuendsAre DEF Enders
<1>7. CASE ~ Check(q, "ASSIGN")
  <2>1. ReadOK(EmitOp(q, "NIL"))
    BY <1>2, HelpersStill, StillReads
  <2>2. Settles(defined, EmitOp(q, "NIL"))
    BY <1>4 DEF Settles, Starting, PrefixCalls
  <2>. QED
    BY <1>1, <1>3, <1>5, <1>7, <2>1, <2>2, TextOne
<1>. QED
  BY <1>6, <1>7

(* The initializer is followed by a semicolon.                             *)
LEMMA VarDefinedReads ==
  ASSUME CompilerInv, TextInv, VarDefined
  PROVE  TextInv'
<1>. DEFINE p == Consume(parser, "SEMICOLON")  q == DefineGlobal(p, Top.global)
<1>1. todo # << >> /\ Top.at = "var_defined" /\ Return(q)
  BY DEF VarDefined, At
<1>2. IsParser(p) /\ ReadOK(p) /\ (~ p.error => p.previous.type = "SEMICOLON")
  BY <1>1, TopReads, ConsumeReads
<1>. HIDE DEF p
<1>3. Still(p, q)
  BY <1>2, HelpersStill
<1>. HIDE DEF q
<1>4. ReadOK(q) /\ (~ q.error => q.previous.type = "SEMICOLON")
  BY <1>2, <1>3, StillReads DEF Still
<1>. QED
  BY <1>1, <1>4, TextReturns, MinuendsAre DEF Enders

(* The conditions of if, while and for.                                    *)
LEMMA IfStatementReads ==
  ASSUME CompilerInv, TextInv, IfStatement
  PROVE  TextInv'
<1>. DEFINE q == Consume(parser, "L_PAREN")  b == Do("if_then")
<1>1. todo # << >> /\ Top.at = "if_statement" /\ Then(q, <<Precedence(PREC_ASSIGN), b>>)
  BY DEF IfStatement, At, Expression
<1>2. ReadOK(q) /\ (~ q.error => q.previous.type = "L_PAREN")
  BY <1>1, TopReads, ConsumeReads
<1>3. b.at = "if_then"
  BY DEF Do
<1>. HIDE DEF q, b
<1>4. Replaces(b, Top) /\ b.at \in Takers /\ Top.at \notin ExprCalls /\ Top.at \in Conditions
  BY <1>1, <1>3 DEF Replaces, Gives, Takers, Bodied, ExprCalls, Immediate, PrefixCalls, Conditions
<1>. QED
  BY <1>1, <1>2, <1>4, ExpressionReads, MinuendsAre DEF Enders

(* while_statement does.                                                   *)
LEMMA WhileStatementReads ==
  ASSUME CompilerInv, TextInv, WhileStatement
  PROVE  TextInv'
<1>. DEFINE q == Consume(parser, "L_PAREN")  b == [at |-> "while_body", start |-> Count(parser)]
<1>1. todo # << >> /\ Top.at = "while_statement" /\ Then(q, <<Precedence(PREC_ASSIGN), b>>)
  BY DEF WhileStatement, At, Expression
<1>2. ReadOK(q) /\ (~ q.error => q.previous.type = "L_PAREN")
  BY <1>1, TopReads, ConsumeReads
<1>3. b.at = "while_body"
  OBVIOUS
<1>. HIDE DEF q, b
<1>4. Replaces(b, Top) /\ b.at \in Takers /\ Top.at \notin ExprCalls /\ Top.at \in Conditions
  BY <1>1, <1>3 DEF Replaces, Gives, Takers, Bodied, ExprCalls, Immediate, PrefixCalls, Conditions
<1>. QED
  BY <1>1, <1>2, <1>4, ExpressionReads, MinuendsAre DEF Enders

(* After the condition, its statement.                                     *)
LEMMA StatementThen ==
  ASSUME CompilerInv, TextInv, todo # << >>, NEW q, NEW b,
         Then(q, <<Do("statement"), b>>), ReadOK(q), b.at \in Branches, Top.at \notin Bodied,
         Top.at \notin ExprCalls, Plain /\ ~ q.error => q.previous.type \notin Minuends
  PROVE  TextInv'
<1>. DEFINE a == Do("statement")
<1>1. a.at = "statement"
  BY DEF Do
<1>2. Then(q, <<a, b>>)
  OBVIOUS
<1>. HIDE DEF a
<1>3. Over(a, b) /\ Replaces(b, Top) /\ {a.at, b.at} \cap (Conditions \cup {"compile", "script"}) = {}
  BY <1>1 DEF Over, Replaces, Gives, Waiting, Takers, Branches, Bodied, ExprCalls, Immediate,
     PrefixCalls,
         Conditions
<1>4. Plain /\ ~ q.error => Settles(a, q)
  BY <1>1 DEF Settles, PrefixCalls
<1>5. a.at \notin Conditions /\ b.at \notin Conditions /\ a.at \notin {"compile", "script"}
  BY <1>3
<1>. QED
  BY <1>2, <1>3, <1>4, <1>5, TextTwo

(* The condition's parenthesis is closed before the statement.             *)
LEMMA IfThenReads ==
  ASSUME CompilerInv, TextInv, IfThen
  PROVE  TextInv'
<1>. DEFINE p == Consume(parser, "R_PAREN")  r == EmitJump(p, "JMP_FALSE")  q == EmitOp(r, "POP")
            b == [at |-> "if_else", jump |-> JumpOf(r)]
<1>1. todo # << >> /\ Top.at = "if_then" /\ Then(q, <<Do("statement"), b>>)
  BY DEF IfThen, At
<1>2. /\ IsParser(p) /\ ReadOK(p) /\ (~ p.error => p.previous.type = "R_PAREN")
      /\ Conditional
  BY <1>1, TopReads, ConsumeReads DEF Conditions
<1>3. b.at = "if_else"
  OBVIOUS
<1>. HIDE DEF p, b
<1>4. Still(p, r)
  BY <1>2, HelpersStill
<1>. HIDE DEF r
<1>5. Still(p, q)
  BY <1>4, Onward
<1>. HIDE DEF q
<1>6. ReadOK(q) /\ (~ q.error => q.previous.type \notin Minuends)
  BY <1>2, <1>5, StillReads, MinuendsAre DEF Still
<1>. QED
  BY <1>1, <1>3, <1>6, StatementThen DEF Branches, Bodied, ExprCalls, Immediate, PrefixCalls

(* That of a while is.                                                     *)
LEMMA WhileBodyReads ==
  ASSUME CompilerInv, TextInv, WhileBody
  PROVE  TextInv'
<1>. DEFINE p == Consume(parser, "R_PAREN")  r == EmitJump(p, "JMP_FALSE")  q == EmitOp(r, "POP")
            b == [at |-> "loop_end", start |-> Top.start, exit |-> JumpOf(r)]
<1>1. todo # << >> /\ Top.at = "while_body" /\ Then(q, <<Do("statement"), b>>)
  BY DEF WhileBody, At
<1>2. /\ IsParser(p) /\ ReadOK(p) /\ (~ p.error => p.previous.type = "R_PAREN")
      /\ Conditional
  BY <1>1, TopReads, ConsumeReads DEF Conditions
<1>3. b.at = "loop_end"
  OBVIOUS
<1>. HIDE DEF p, b
<1>4. Still(p, r)
  BY <1>2, HelpersStill
<1>. HIDE DEF r
<1>5. Still(p, q)
  BY <1>4, Onward
<1>. HIDE DEF q
<1>6. ReadOK(q) /\ (~ q.error => q.previous.type \notin Minuends)
  BY <1>2, <1>5, StillReads, MinuendsAre DEF Still
<1>. QED
  BY <1>1, <1>3, <1>6, StatementThen DEF Branches, Bodied, ExprCalls, Immediate, PrefixCalls

(* if_statement may match an else.                                         *)
LEMMA IfElseReads ==
  ASSUME CompilerInv, TextInv, IfElse
  PROVE  TextInv'
<1>. DEFINE p == EmitJump(parser, "JMP")  s == PatchJump(p, Top.jump)  q == EmitOp(s, "POP")
            b == [at |-> "if_end", jump |-> JumpOf(p)]
<1>1. todo # << >> /\ Top.at = "if_else"
  BY DEF IfElse, At
<1>2. IF Check(q, "ELSE") THEN Then(Advance(q), <<Do("statement"), b>>) ELSE Then(q, <<b>>)
  BY DEF IfElse
<1>3. b.at = "if_end"
  OBVIOUS
<1>. HIDE DEF b
<1>4. IsParser(parser) /\ Still(parser, p)
  BY <1>1, TopReads, HelpersStill
<1>. HIDE DEF p
<1>5. Still(parser, s)
  BY <1>4, Onward
<1>. HIDE DEF s
<1>6. Still(parser, q)
  BY <1>5, Onward
<1>. HIDE DEF q
<1>7. /\ ReadOK(q) /\ IsParser(q)
      /\ Plain /\ ~ q.error => q.previous.type \notin Minuends
  BY <1>1, <1>6, TopReads, StillReads DEF Still, Settles, Starting
<1>8. CASE Check(q, "ELSE")
  <2>1. ReadOK(Advance(q)) /\ Advance(q).previous.type = "ELSE"
    BY <1>1, <1>7, <1>8, TopReads, AdvanceReads DEF Check
  <2>. QED
    BY <1>1, <1>2, <1>3, <1>8, <2>1, StatementThen, MinuendsAre
    DEF Enders, Branches, Bodied, ExprCalls, Immediate, PrefixCalls
<1>9. CASE ~ Check(q, "ELSE")
  <2>1. Plain /\ ~ q.error => Settles(b, q)
    BY <1>3, <1>7 DEF Settles, PrefixCalls
  <2>2. Replaces(b, Top) /\ Top.at \notin ExprCalls /\ b.at \notin Conditions
    BY <1>1, <1>3 DEF Replaces, Gives, Takers, Bodied, ExprCalls, Immediate, PrefixCalls,
       Conditions
  <2>. QED
    BY <1>1, <1>2, <1>7, <1>9, <2>1, <2>2, TextOne
<1>. QED
  BY <1>8, <1>9

(* The end of an if reads nothing.                                         *)
LEMMA IfEndReads ==
  ASSUME CompilerInv, TextInv, IfEnd
  PROVE  TextInv'
<1>1. todo # << >> /\ Top.at = "if_end" /\ Return(PatchJump(parser, Top.jump))
  BY DEF IfEnd, At
<1>. QED
  BY <1>1, TopReads, HelpersStill, QuietReads DEF Starting

(* The end of a loop reads nothing.                                        *)
LEMMA LoopEndReads ==
  ASSUME CompilerInv, TextInv, LoopEnd
  PROVE  TextInv'
<1>. DEFINE p == EmitLoop(parser, Top.start)  r == PatchJump(p, Top.exit)
            q == IF Top.exit = -1 THEN p ELSE EmitOp(r, "POP")
<1>1. todo # << >> /\ Top.at = "loop_end" /\ Return(q)
  BY DEF LoopEnd, At
<1>2. Still(parser, p)
  BY <1>1, TopReads, HelpersStill
<1>. HIDE DEF p
<1>3. Still(parser, r)
  BY <1>2, Onward
<1>. HIDE DEF r
<1>4. Still(parser, q)
  BY <1>2, <1>3, Onward
<1>. QED
  BY <1>1, <1>4, QuietReads DEF Starting

(* for, which begins with a declaration, an expression or nothing          *)
LEMMA ForStatementReads ==
  ASSUME CompilerInv, TextInv, ForStatement
  PROVE  TextInv'
<1>. DEFINE p == BeginScope(parser)  q == Consume(p, "L_PAREN")  b == Do("for_condition")
<1>1. todo # << >> /\ Top.at = "for_statement"
  BY DEF ForStatement, At
<1>2. /\ Check(q, "SEMICOLON") => Then(Advance(q), <<b>>)
      /\ Check(q, "VAR") => Then(Advance(q), <<Do("var_declaration"), b>>)
      /\ ~ Check(q, "SEMICOLON") /\ ~ Check(q, "VAR") => Then(q, <<Do("expression_statement"), b>>)
  BY DEF ForStatement, Check
<1>3. b.at = "for_condition"
  BY DEF Do
<1>. HIDE DEF b
<1>4. IsParser(p) /\ ReadOK(p) /\ text \in Texts
  BY <1>1, TopReads, HelpersStill, StillReads DEF Still
<1>. HIDE DEF p
<1>5. IsParser(q) /\ ReadOK(q) /\ (~ q.error => q.previous.type = "L_PAREN")
  BY <1>4, ConsumeReads
<1>. HIDE DEF q
<1>6. /\ IsParser(Advance(q)) /\ ReadOK(Advance(q)) /\ Advance(q).previous = q.current
  BY <1>4, <1>5, AdvanceReads
<1>7. Replaces(b, Top) /\ Top.at \notin ExprCalls /\ Top.at \in Conditions
  BY <1>1, <1>3 DEF Replaces, Gives, Takers, Bodied, ExprCalls, Immediate, PrefixCalls, Conditions
<1>8. CASE Check(q, "SEMICOLON")
  <2>1. Settles(b, Advance(q))
    BY <1>3, <1>6, <1>8, MinuendsAre DEF Settles, PrefixCalls, Check, Enders
  <2>. QED
    BY <1>1, <1>2, <1>6, <1>7, <1>8, <2>1, TextOne
<1>9. CASE Check(q, "VAR")
  <2>. DEFINE a == Do("var_declaration")
  <2>1. a.at = "var_declaration"
    BY DEF Do
  <2>2. Then(Advance(q), <<a, b>>)
    BY <1>2, <1>9
  <2>. HIDE DEF a
  <2>3. Settles(a, Advance(q))
    BY <2>1 DEF Settles, PrefixCalls, Starting
  <2>4. Over(a, b) /\ a.at \notin {"compile", "script"}
    BY <1>3, <2>1 DEF Over, Replaces, Gives, Waiting, Takers, Branches, Bodied, ExprCalls,
       Immediate, PrefixCalls,
         Conditions
  <2>. QED
    BY <1>1, <1>6, <1>7, <2>2, <2>3, <2>4, TextTwo
<1>10. CASE ~ Check(q, "SEMICOLON") /\ ~ Check(q, "VAR")
  <2>. DEFINE a == Do("expression_statement")
  <2>1. a.at = "expression_statement"
    BY DEF Do
  <2>2. Then(q, <<a, b>>)
    BY <1>2, <1>10
  <2>. HIDE DEF a
  <2>3. Plain /\ ~ q.error => Settles(a, q)
    BY <1>5, <2>1, MinuendsAre DEF Settles, PrefixCalls, Enders
  <2>4. Over(a, b) /\ a.at \notin {"compile", "script"}
    BY <1>3, <2>1 DEF Over, Replaces, Gives, Waiting, Takers, Branches, Bodied, ExprCalls,
       Immediate, PrefixCalls,
         Conditions
  <2>. QED
    BY <1>1, <1>5, <1>7, <2>2, <2>3, <2>4, TextTwo
<1>. QED
  BY <1>8, <1>9, <1>10

(* After the first semicolon, a condition or another semicolon.            *)
LEMMA ForConditionReads ==
  ASSUME CompilerInv, TextInv, ForCondition
  PROVE  TextInv'
<1>. DEFINE a == [at |-> "for_increment", start |-> Count(parser), exit |-> -1]
            b == [at |-> "for_exit", start |-> Count(parser)]
<1>1. todo # << >> /\ Top.at = "for_condition"
  BY DEF ForCondition, At
<1>2. IF Check(parser, "SEMICOLON") THEN Then(Advance(parser), <<a>>)
      ELSE Then(parser, <<Precedence(PREC_ASSIGN), b>>)
  BY DEF ForCondition, Expression
<1>3. a.at = "for_increment" /\ b.at = "for_exit"
  OBVIOUS
<1>. HIDE DEF a, b
<1>4. /\ ReadOK(parser) /\ ReadOK(Advance(parser)) /\ Advance(parser).previous = parser.current
      /\ Plain /\ ~ parser.error => parser.previous.type \notin Minuends
  BY <1>1, TopReads, AdvanceReads DEF Settles, Starting
<1>5. Replaces(a, Top) /\ Replaces(b, Top) /\ b.at \in Takers /\ Top.at \notin ExprCalls
      /\ Top.at \in Conditions
  BY <1>1, <1>3 DEF Replaces, Gives, Takers, Bodied, ExprCalls, Immediate, PrefixCalls, Conditions
<1>6. CASE Check(parser, "SEMICOLON")
  <2>1. Settles(a, Advance(parser))
    BY <1>3, <1>4, <1>6, MinuendsAre DEF Settles, PrefixCalls, Check, Enders
  <2>. QED
    BY <1>1, <1>2, <1>4, <1>5, <1>6, <2>1, TextOne
<1>7. CASE ~ Check(parser, "SEMICOLON")
  BY <1>1, <1>2, <1>4, <1>5, <1>7, ExpressionReads
<1>. QED
  BY <1>6, <1>7

(* The condition is followed by a semicolon.                               *)
LEMMA ForExitReads ==
  ASSUME CompilerInv, TextInv, ForExit
  PROVE  TextInv'
<1>. DEFINE p == Consume(parser, "SEMICOLON")  r == EmitJump(p, "JMP_FALSE")
            q == EmitOp(r, "POP")
            a == [at |-> "for_increment", start |-> Top.start, exit |-> JumpOf(r)]
<1>1. todo # << >> /\ Top.at = "for_exit" /\ Then(q, <<a>>)
  BY DEF ForExit, At
<1>2. IsParser(p) /\ ReadOK(p) /\ (~ p.error => p.previous.type = "SEMICOLON")
  BY <1>1, TopReads, ConsumeReads
<1>3. a.at = "for_increment"
  OBVIOUS
<1>. HIDE DEF p, a
<1>4. Still(p, r)
  BY <1>2, HelpersStill
<1>. HIDE DEF r
<1>5. Still(p, q)
  BY <1>4, Onward
<1>. HIDE DEF q
<1>6. ReadOK(q) /\ (~ q.error => Settles(a, q))
  BY <1>2, <1>3, <1>5, StillReads, MinuendsAre DEF Still, Settles, PrefixCalls, Enders
<1>7. Replaces(a, Top) /\ Top.at \notin ExprCalls /\ Top.at \in Conditions
  BY <1>1, <1>3 DEF Replaces, Gives, Takers, Bodied, ExprCalls, Immediate, PrefixCalls, Conditions
<1>. QED
  BY <1>1, <1>6, <1>7, TextOne

(* The body of a for, and what is left of the for.                         *)
LEMMA ForBodyReads ==
  ASSUME CompilerInv, TextInv, todo # << >>, NEW q, NEW start, Then(q, ForBody(start)),
         ReadOK(q), Top.at \in {"for_increment", "for_step"},
         ~ q.error => q.previous.type = "R_PAREN"
  PROVE  TextInv'
<1>. DEFINE a == Do("statement")  d == Do("end_scope")
            b == [at |-> "loop_end", start |-> start, exit |-> Top.exit]
<1>1. Then(q, <<a, b, d>>)
  BY DEF ForBody
<1>2. a.at = "statement" /\ b.at = "loop_end" /\ d.at = "end_scope"
  BY DEF Do
<1>. HIDE DEF a, b, d
<1>3. Conditional
  BY TopReads DEF Conditions
<1>4. ~ q.error => Settles(a, q)
  BY <1>2, <1>3, MinuendsAre DEF Settles, PrefixCalls
<1>5. Over(a, b) /\ Over(b, d) /\ Replaces(d, Top) /\ Top.at \notin ExprCalls
  BY <1>2 DEF Over, Replaces, Gives, Waiting, Takers, Branches, Bodied, ExprCalls, Immediate,
     PrefixCalls,
         Conditions
<1>6. {b.at, d.at} \cap Takers = {}
  BY <1>2 DEF Takers
<1>7. {a.at, b.at, d.at} \cap ({"compile", "script"} \cup Conditions) = {}
  BY <1>2 DEF Conditions
<1>. QED
  BY <1>1, <1>4, <1>5, <1>6, <1>7, TextThree

(* After it, an increment or a parenthesis.                                *)
LEMMA ForIncrementReads ==
  ASSUME CompilerInv, TextInv, ForIncrement
  PROVE  TextInv'
<1>. DEFINE q == EmitJump(parser, "JMP")
            b == [at |-> "for_step", start |-> Top.start, exit |-> Top.exit,
                  increment |-> Count(q), jump |-> JumpOf(q)]
<1>1. todo # << >> /\ Top.at = "for_increment"
  BY DEF ForIncrement, At
<1>2. IF Check(parser, "R_PAREN") THEN Then(Advance(parser), ForBody(Top.start))
      ELSE Then(q, <<Precedence(PREC_ASSIGN), b>>)
  BY DEF ForIncrement, Expression
<1>3. b.at = "for_step"
  OBVIOUS
<1>. HIDE DEF b
<1>4. CASE Check(parser, "R_PAREN")
  <2>1. ReadOK(Advance(parser)) /\ Advance(parser).previous.type = "R_PAREN"
    BY <1>1, <1>4, TopReads, AdvanceReads DEF Check
  <2>. QED
    BY <1>1, <1>2, <1>4, <2>1, ForBodyReads
<1>5. CASE ~ Check(parser, "R_PAREN")
  <2>1. Still(parser, q)
    BY <1>1, TopReads, HelpersStill
  <2>. HIDE DEF q
  <2>2. ReadOK(q) /\ (Plain /\ ~ q.error => q.previous.type \notin Minuends)
    BY <1>1, <2>1, TopReads, StillReads DEF Settles, Starting, Still
  <2>3. Replaces(b, Top) /\ b.at \in Takers /\ Top.at \notin ExprCalls /\ Top.at \in Conditions
    BY <1>1, <1>3 DEF Replaces, Gives, Takers, Bodied, ExprCalls, Immediate, PrefixCalls,
       Conditions
  <2>. QED
    BY <1>1, <1>2, <1>5, <2>2, <2>3, ExpressionReads
<1>. QED
  BY <1>4, <1>5

(* The increment is followed by a parenthesis.                             *)
LEMMA ForStepReads ==
  ASSUME CompilerInv, TextInv, ForStep
  PROVE  TextInv'
<1>. DEFINE p == EmitOp(parser, "POP")  c == Consume(p, "R_PAREN")
            l == EmitLoop(c, Top.start)  q == PatchJump(l, Top.jump)
<1>1. todo # << >> /\ Top.at = "for_step" /\ Then(q, ForBody(Top.increment))
  BY DEF ForStep, At
<1>2. IsParser(p) /\ ReadOK(p) /\ text \in Texts
  BY <1>1, TopReads, HelpersStill, StillReads DEF Still
<1>. HIDE DEF p
<1>3. IsParser(c) /\ ReadOK(c) /\ (~ c.error => c.previous.type = "R_PAREN")
  BY <1>2, ConsumeReads
<1>. HIDE DEF c
<1>4. Still(c, l)
  BY <1>3, HelpersStill
<1>. HIDE DEF l
<1>5. Still(c, q)
  BY <1>4, Onward
<1>. HIDE DEF q
<1>6. ReadOK(q) /\ (~ q.error => q.previous.type = "R_PAREN")
  BY <1>3, <1>5, StillReads DEF Still
<1>. QED
  BY <1>1, <1>6, ForBodyReads
-----------------------------------------------------------------------------
(* Functions.                                                              *)

(* func_declaration reads a name, and function its parenthesis.            *)
LEMMA FuncDeclarationReads ==
  ASSUME CompilerInv, TextInv, FuncDeclaration
  PROVE  TextInv'
<1>. DEFINE v == ParseVariable(parser)  q == MarkInitialized(v)
            n == [q EXCEPT !.fns = Append(@, NewFunc("FUNC"))]
            r == BeginScope(n)  s == Consume(r, "L_PAREN")
            a == [at |-> IF Check(s, "R_PAREN") THEN "func_body" ELSE "parameter",
                  global |-> VariableId(parser)]
<1>1. todo # << >> /\ Top.at = "func_declaration" /\ Then(s, <<a>>)
  BY DEF FuncDeclaration, At
<1>2. a.at \in {"func_body", "parameter"}
  OBVIOUS
<1>3. IsParser(v) /\ ReadOK(v) /\ text \in Texts
  BY <1>1, TopReads, ParseVariableReads
<1>. HIDE DEF v, a
<1>4. Still(v, q)
  BY <1>3, HelpersStill
<1>5. Still(v, n)
  <2>1. \E g : n = [q EXCEPT !.fns = g]
    OBVIOUS
  <2>. HIDE DEF n, q
  <2>. QED
    BY <1>4, <2>1 DEF Still, IsParser
<1>. HIDE DEF n
<1>6. Still(v, r)
  BY <1>5, Onward
<1>. HIDE DEF r
<1>7. IsParser(r) /\ ReadOK(r)
  BY <1>3, <1>6, StillReads DEF Still
<1>8. ReadOK(s)
  BY <1>3, <1>7, ConsumeReads
<1>. HIDE DEF s
<1>9. /\ Settles(a, s) /\ Replaces(a, Top) /\ Top.at \notin ExprCalls /\ a.at \notin Conditions
  BY <1>1, <1>2 DEF Settles, Starting, Replaces, Gives, Takers, Bodied, ExprCalls, Immediate,
     PrefixCalls, Conditions
<1>. QED
  BY <1>1, <1>8, <1>9, TextOne

(* function reads a parameter, and a comma or a parenthesis.               *)
LEMMA ParameterReads ==
  ASSUME CompilerInv, TextInv, Parameter
  PROVE  TextInv'
<1>. DEFINE f == [Fn(parser) EXCEPT !.arity = Fn(parser).arity + 1]
            counted == WithFn(parser, f)
            q == IF Fn(parser).arity + 1 > ByteMax THEN ErrorAt(counted) ELSE counted
            v == ParseVariable(q)  r == DefineGlobal(v, VariableId(q))
            a == [Top EXCEPT !.at = "func_body"]
<1>1. /\ todo # << >> /\ Top.at = "parameter"
      /\ IF Check(r, "COMMA") THEN Then(Advance(r), <<Top>>) ELSE Then(r, <<a>>)
  BY DEF Parameter, At
<1>2. a.at = "func_body"
  <2>1. Top \in Calls
    BY <1>1, TopIs
  <2>. QED
    BY <1>1, <2>1 DEF Calls, PlainCalls, PrefixCalls, InFunction
<1>3. IsParser(parser) /\ text \in Texts /\ ReadOK(parser)
  BY <1>1, TopReads
<1>. HIDE DEF f, a
<1>4. Still(parser, counted)
  BY <1>3, WithFnStill
<1>. HIDE DEF counted
<1>5. Still(parser, q)
  BY <1>4, Onward
<1>. HIDE DEF q
<1>6. IsParser(v) /\ ReadOK(v)
  BY <1>3, <1>5, StillReads, ParseVariableReads DEF Still
<1>. HIDE DEF v
<1>7. Still(v, r)
  BY <1>6, HelpersStill
<1>. HIDE DEF r
<1>8. IsParser(r) /\ ReadOK(r) /\ ReadOK(Advance(r))
  BY <1>3, <1>6, <1>7, StillReads, AdvanceReads DEF Still
<1>9. /\ Settles(a, r) /\ Settles(Top, Advance(r)) /\ Replaces(a, Top) /\ Replaces(Top, Top)
      /\ Top.at \notin ExprCalls /\ a.at \notin Conditions /\ Top.at \notin Conditions
  BY <1>1, <1>2 DEF Settles, Starting, Replaces, Gives, Takers, Bodied, ExprCalls, Immediate,
     PrefixCalls, Conditions
<1>. QED
  BY <1>1, <1>8, <1>9, TextOne

(* function reads the brace of its body.                                   *)
LEMMA FuncBodyReads ==
  ASSUME CompilerInv, TextInv, FuncBody
  PROVE  TextInv'
<1>. DEFINE p == Consume(parser, "R_PAREN")  q == Consume(p, "L_BRACE")
            a == Do("block")  b == [Top EXCEPT !.at = "func_end"]
<1>1. todo # << >> /\ Top.at = "func_body" /\ Then(q, <<a, b>>)
  BY DEF FuncBody, At
<1>2. a.at = "block" /\ b.at = "func_end"
  <2>1. Top \in Calls
    BY <1>1, TopIs
  <2>. QED
    BY <1>1, <2>1 DEF Calls, PlainCalls, PrefixCalls, InFunction, Do
<1>3. IsParser(p) /\ text \in Texts /\ ReadOK(p)
  BY <1>1, TopReads, ConsumeReads
<1>. HIDE DEF p, a, b
<1>4. ReadOK(q) /\ (~ q.error => q.previous.type = "L_BRACE")
  BY <1>3, ConsumeReads
<1>. HIDE DEF q
<1>5. ~ q.error => Settles(a, q)
  BY <1>2, <1>4, MinuendsAre DEF Settles, PrefixCalls, Enders
<1>6. Over(a, b) /\ Replaces(b, Top) /\ Top.at \notin ExprCalls
      /\ {a.at, b.at} \cap (Conditions \cup {"compile", "script"}) = {}
  BY <1>1, <1>2 DEF Over, Replaces, Gives, Waiting, Takers, Branches, Bodied, ExprCalls,
     Immediate, PrefixCalls,
         Conditions
<1>7. a.at \notin Conditions /\ b.at \notin Conditions /\ a.at \notin {"compile", "script"}
  BY <1>6
<1>. QED
  BY <1>1, <1>4, <1>5, <1>6, <1>7, TextTwo

(* parser_end_func reads nothing.                                          *)
LEMMA FuncEndReads ==
  ASSUME CompilerInv, TextInv, FuncEnd
  PROVE  TextInv'
<1>. DEFINE f == Fn(Emit(parser, <<Opcode["NIL"], Opcode["RETURN"]>>))
            p == [parser EXCEPT !.fns = SubSeq(@, 1, Len(@) - 1)]
            q == EmitOp(p, "CLOSURE")
            r == EmitConstant(q, Func(Function(f.arity, f.code, f.consts)))
            s == Emit(r, <<ConstantId(q)>>)
            d == DefineGlobal(s, Top.global)
<1>1. todo # << >> /\ Top.at = "func_end" /\ Return(d)
  BY DEF FuncEnd, At
<1>2. IsParser(parser)
  BY <1>1, TopReads
<1>3. Still(parser, p)
  <2>1. \E g : p = [parser EXCEPT !.fns = g]
    OBVIOUS
  <2>. HIDE DEF p
  <2>. QED
    BY <1>2, <2>1 DEF Still, IsParser
<1>. HIDE DEF f, p
<1>4. Still(parser, q)
  BY <1>3, Onward
<1>. HIDE DEF q
<1>5. Still(parser, r)
  BY <1>4, Onward
<1>. HIDE DEF r
<1>6. Still(parser, s)
  BY <1>5, Onward
<1>. HIDE DEF s
<1>7. Still(parser, d)
  BY <1>6, Onward
<1>. QED
  BY <1>1, <1>7, QuietReads DEF Starting

(* return_statement reads a semicolon, or an expression follows.           *)
LEMMA ReturnStatementReads ==
  ASSUME CompilerInv, TextInv, ReturnStatement
  PROVE  TextInv'
<1>. DEFINE q == IF Fn(parser).type = "SCRIPT" THEN ErrorAt(parser) ELSE parser
            e == <<Opcode["NIL"], Opcode["RETURN"]>>  r == Emit(Advance(q), e)
            b == Finish("SEMICOLON", <<Opcode["RETURN"]>>)
<1>1. /\ todo # << >> /\ Top.at = "return_statement"
      /\ IF Check(q, "SEMICOLON") THEN Return(r) ELSE Then(q, <<Precedence(PREC_ASSIGN), b>>)
  BY DEF ReturnStatement, At, Expression
<1>2. b.at = "finish" /\ b.token = "SEMICOLON"
  BY DEF Finish
<1>. HIDE DEF b, e
<1>3. Still(parser, q) /\ text \in Texts
  BY <1>1, TopReads, ErrorAtIs
<1>. HIDE DEF q
<1>4. /\ IsParser(q) /\ ReadOK(q)
      /\ Plain /\ ~ q.error => q.previous.type \notin Minuends
  BY <1>1, <1>3, TopReads, StillReads DEF Settles, Starting, Still
<1>5. CASE Check(q, "SEMICOLON")
  <2>. DEFINE p == Advance(q)
  <2>1. IsParser(p) /\ ReadOK(p) /\ p.previous.type = "SEMICOLON"
    BY <1>3, <1>4, <1>5, AdvanceReads DEF Check
  <2>2. Return(r)
    BY <1>1, <1>5
  <2>. HIDE DEF p
  <2>3. Still(p, r)
    BY <2>1, HelpersStill DEF p
  <2>4. ReadOK(r) /\ r.previous.type = "SEMICOLON"
    BY <2>1, <2>3, StillReads DEF Still
  <2>. HIDE DEF r
  <2>. QED
    BY <1>1, <2>2, <2>4, TextReturns, MinuendsAre DEF Enders
<1>6. CASE ~ Check(q, "SEMICOLON")
  <2>1. Replaces(b, Top) /\ b.at \in Takers /\ Top.at \notin ExprCalls /\ b.at \notin Conditions
    BY <1>1, <1>2 DEF Replaces, Gives, Takers, Bodied, ExprCalls, Immediate, PrefixCalls,
       Conditions
  <2>2. Then(q, <<Precedence(PREC_ASSIGN), b>>)
    BY <1>1, <1>6
  <2>. QED
    BY <1>1, <1>4, <2>1, <2>2, ExpressionReads
<1>. QED
  BY <1>5, <1>6
-----------------------------------------------------------------------------
(* Expressions.                                                            *)

(* What follows these tokens is an operand.                                *)
LEMMA OpensAre ==
  ASSUME NEW type
  PROVE  /\ GetRule(type).prefix \in {"grouping", "unary"} => type \notin Enders
         /\ GetRule(type).prefix = "unary" => type \in {"MINUS", "EXCL"}
         /\ type \in BinaryTypes \cup {"ASSIGN", "COMMA", "L_PAREN"} => type \notin Enders
         /\ GetRule(type).infix = "call" => type = "L_PAREN"
BY DEF GetRule, Rule, Prefix, Binary, BinaryTypes, Enders, None

(* A call of an expression is the last: it reads as it likes.              *)
LEMMA GivesReads ==
  ASSUME CompilerInv, TextInv, todo # << >>, NEW q, Return(q), ReadOK(q),
         Top.at \in ExprCalls, Top.at # "finish"
  PROVE  TextInv'
BY TextReturns DEF Gives

(* precedence advances, and the rule is of the token it reads.             *)
LEMMA PrefixRuleReads ==
  ASSUME CompilerInv, TextInv, PrefixRule
  PROVE  TextInv'
<1>. DEFINE q == Advance(parser)  prefix == GetRule(q.previous.type).prefix
            a == [at |-> prefix, canAssign |-> Top.prec <= PREC_ASSIGN]
            b == [Top EXCEPT !.at = "infix"]
<1>1. /\ todo # << >> /\ Top.at = "precedence"
      /\ IF prefix = None THEN Return(ErrorAt(q)) ELSE Then(q, <<a, b>>)
  BY DEF PrefixRule, At
<1>2. /\ IsParser(q) /\ ReadOK(q) /\ q.previous = parser.current /\ q.error = parser.error
      /\ ReadOK(parser)
  BY <1>1, TopReads, AdvanceReads
<1>3. Top.at \in ExprCalls
  BY <1>1 DEF ExprCalls
<1>4. CASE prefix = None
  <2>1. ReadOK(ErrorAt(q))
    BY <1>2, ErrorAtIs, StillReads
  <2>. QED
    BY <1>1, <1>3, <1>4, <2>1, GivesReads
<1>5. CASE prefix # None
  <2>1. b.at = "infix"
    <3>1. Top \in Calls
      BY <1>1, TopIs
    <3>. QED
      BY <1>1, <3>1 DEF Calls, PlainCalls, PrefixCalls, InFunction
  <2>2. a.at \in PrefixCalls /\ a.at = GetRule(q.previous.type).prefix /\ Then(q, <<a, b>>)
    BY <1>1, <1>5, RuleIs
  <2>. HIDE DEF a, b, q
  <2>3. ASSUME Plain, ~ q.error, a.at = "unary"
        PROVE  q.previous.type # "MINUS"
    <3>1. parser.previous.type \notin Minuends
      BY <1>1, <1>2, <2>3, TopReads DEF Settles, Starting
    <3>. QED
      BY <1>2, <2>3, <3>1 DEF ReadOK
  <2>4. Plain /\ ~ q.error => Settles(a, q)
    BY <2>2, <2>3 DEF Settles, PrefixCalls, Starting
  <2>5. Over(a, b) /\ Replaces(b, Top) /\ a.at \in ExprCalls /\ b.at \in ExprCalls
        /\ a.at \notin {"compile", "script"} /\ a.at \notin Conditions /\ b.at \notin Conditions
    BY <1>1, <2>1, <2>2 DEF Over, Replaces, Gives, Waiting, Takers, Branches, Bodied,
       ExprCalls, Immediate, PrefixCalls,
         Conditions
  <2>. QED
    BY <1>1, <1>2, <2>2, <2>4, <2>5, TextTwo
<1>. QED
  BY <1>4, <1>5

(* So it is for the token between operands.                                *)
LEMMA InfixRuleReads ==
  ASSUME CompilerInv, TextInv, InfixRule
  PROVE  TextInv'
<1>. DEFINE rule == GetRule(parser.current.type)  q == Advance(parser)  a == Do(rule.infix)
            r == IF Top.prec <= PREC_ASSIGN /\ Check(parser, "ASSIGN") THEN ErrorAt(q) ELSE parser
<1>1. /\ todo # << >> /\ Top.at = "infix"
      /\ IF Top.prec < rule.precedence THEN Then(q, <<a, Top>>) ELSE Return(r)
  BY DEF InfixRule, At
<1>2. /\ IsParser(q) /\ ReadOK(q) /\ q.previous = parser.current /\ ReadOK(parser)
  BY <1>1, TopReads, AdvanceReads
<1>3. Top.at \in ExprCalls /\ Top.at # "finish"
  BY <1>1 DEF ExprCalls
<1>4. CASE Top.prec < rule.precedence
  <2>0. Top.prec \in Nat
    <3>1. Top \in Calls
      BY <1>1, TopIs
    <3>. QED
      BY <1>1, <3>1 DEF Calls, PlainCalls, PrefixCalls, InFunction
  <2>1. /\ a.at \in {"binary", "call"}
        /\ a.at = "call" => q.previous.type = "L_PAREN"
    <3>1. rule.precedence \in 0 .. 9 /\ rule.infix \in {"binary", "call", None}
          /\ (rule.precedence # 0 => rule.infix # None)
      BY RuleIs
    <3>2. rule.infix \in {"binary", "call"}
      BY <1>4, <2>0, <3>1
    <3>. QED
      BY <1>2, <3>2, OpensAre DEF Do
  <2>. HIDE DEF a, q
  <2>2. Then(q, <<a, Top>>)
    BY <1>1, <1>4
  <2>3. Settles(a, q)
    BY <2>1 DEF Settles, PrefixCalls, Starting
  <2>5. Over(a, Top) /\ Replaces(Top, Top) /\ a.at \in ExprCalls
        /\ a.at \notin {"compile", "script"} /\ a.at \notin Conditions /\ Top.at \notin Conditions
    BY <1>1, <2>1 DEF Over, Replaces, Gives, Waiting, Takers, Branches, Bodied, ExprCalls,
       Immediate, PrefixCalls,
         Conditions
  <2>. QED
    BY <1>1, <1>2, <1>3, <2>2, <2>3, <2>5, TextTwo
<1>5. CASE ~ (Top.prec < rule.precedence)
  <2>1. ReadOK(r)
    BY <1>2, ErrorAtIs, StillReads
  <2>. QED
    BY <1>1, <1>3, <1>5, <2>1, GivesReads
<1>. QED
  BY <1>4, <1>5

(* number and string read nothing more.                                    *)
LEMMA ConstantReads ==
  ASSUME CompilerInv, TextInv, Constant
  PROVE  TextInv'
<1>. DEFINE q == EmitConstant(parser, Literal[parser.previous.text])
<1>1. todo # << >> /\ Top.at \in {"number", "string"} /\ Return(q)
  BY DEF Constant, At
<1>2. ReadOK(q)
  BY <1>1, TopReads, HelpersStill, StillReads
<1>. QED
  BY <1>1, <1>2, GivesReads DEF ExprCalls, Immediate, PrefixCalls

(* Nor does literal.                                                       *)
LEMMA LiteralValueReads ==
  ASSUME CompilerInv, TextInv, LiteralValue
  PROVE  TextInv'
<1>. DEFINE q == EmitOp(parser, parser.previous.type)
<1>1. todo # << >> /\ Top.at = "literal" /\ Return(q)
  BY DEF LiteralValue, At
<1>2. ReadOK(q)
  BY <1>1, TopReads, HelpersStill, StillReads
<1>. QED
  BY <1>1, <1>2, GivesReads DEF ExprCalls, Immediate, PrefixCalls

(* grouping calls expression, after its parenthesis.                       *)
LEMMA GroupingReads ==
  ASSUME CompilerInv, TextInv, Grouping
  PROVE  TextInv'
<1>. DEFINE b == Finish("R_PAREN", << >>)
<1>1. todo # << >> /\ Top.at = "grouping" /\ Then(parser, <<Precedence(PREC_ASSIGN), b>>)
  BY DEF Grouping, At, Expression
<1>2. b.at = "finish" /\ b.token = "R_PAREN"
  BY DEF Finish
<1>. HIDE DEF b
<1>3. ReadOK(parser) /\ (Plain /\ ~ parser.error => parser.previous.type \notin Minuends)
  BY <1>1, TopReads, OpensAre, MinuendsAre DEF Settles, PrefixCalls
<1>4. Replaces(b, Top) /\ b.at \in Takers /\ b.at \in ExprCalls /\ b.at \notin Conditions
  BY <1>1, <1>2 DEF Replaces, Gives, Takers, Bodied, ExprCalls, Immediate, PrefixCalls, Conditions
<1>. QED
  BY <1>1, <1>3, <1>4, ExpressionReads

(* unary calls precedence, after its operator.                             *)
LEMMA UnaryReads ==
  ASSUME CompilerInv, TextInv, Unary
  PROVE  TextInv'
<1>. DEFINE op == IF parser.previous.type = "EXCL" THEN "NOT" ELSE "NEGATE"
            b == Finish(None, <<Opcode[op]>>)
<1>1. todo # << >> /\ Top.at = "unary" /\ Then(parser, <<Precedence(PREC_UNARY), b>>)
  BY DEF Unary, At
<1>2. b.at = "finish" /\ b.token = None
  BY DEF Finish
<1>. HIDE DEF b
<1>3. ReadOK(parser) /\ (Plain /\ ~ parser.error => parser.previous.type \notin Minuends)
  BY <1>1, TopReads, OpensAre, MinuendsAre DEF Settles, PrefixCalls
<1>4. Replaces(b, Top) /\ b.at \in Takers /\ b.at \in ExprCalls /\ b.at \notin Conditions
  BY <1>1, <1>2 DEF None, Replaces, Gives, Takers, Bodied, ExprCalls, Immediate, PrefixCalls,
     Conditions
<1>. QED
  BY <1>1, <1>3, <1>4, ExpressionReads

(* binary calls precedence, after its operator.                            *)
LEMMA BinaryRightReads ==
  ASSUME CompilerInv, TextInv, BinaryRight
  PROVE  TextInv'
<1>. DEFINE b == [at |-> "binary_end", type |-> parser.previous.type,
                  left |-> parser.preprevious.type]
            prec == GetRule(parser.previous.type).precedence + 1
<1>1. todo # << >> /\ Top.at = "binary" /\ Then(parser, <<Precedence(prec), b>>)
  BY DEF BinaryRight, At
<1>2. b.at = "binary_end"
  OBVIOUS
<1>. HIDE DEF b, prec
<1>3. ReadOK(parser) /\ parser.previous.type \notin Minuends
  BY <1>1, TopReads, OpensAre, MinuendsAre DEF CompilerInv, TodoOK, At
<1>4. Replaces(b, Top) /\ b.at \in Takers /\ b.at \in ExprCalls /\ b.at \notin Conditions
  BY <1>1, <1>2 DEF Replaces, Gives, Takers, Bodied, ExprCalls, Immediate, PrefixCalls, Conditions
<1>. QED
  BY <1>1, <1>3, <1>4, ExpressionReads

(* It reads nothing more.                                                  *)
LEMMA BinaryEndReads ==
  ASSUME CompilerInv, TextInv, BinaryEnd
  PROVE  TextInv'
<1>. DEFINE op == BinaryOp(Top.type, "NUMBER" \in {parser.previous.type, Top.left})
            q == EmitOp(parser, op)
<1>1. todo # << >> /\ Top.at = "binary_end" /\ Return(q)
  BY DEF BinaryEnd, At
<1>. HIDE DEF op
<1>2. ReadOK(q)
  BY <1>1, TopReads, HelpersStill, StillReads
<1>. QED
  BY <1>1, <1>2, GivesReads DEF ExprCalls, Immediate, PrefixCalls

(* The end of a call's arguments reads its parenthesis.                    *)
LEMMA CallEndsReads ==
  ASSUME NEW p, IsParser(p), text \in Texts, ReadOK(p), NEW count
  PROVE  ReadOK(CallEnds(p, count))
<1>. DEFINE c == Consume(p, "R_PAREN")  b == <<Opcode["CALL"], count>>
<1>1. IsParser(c) /\ ReadOK(c) /\ CallEnds(p, count) = Emit(c, b)
  BY ConsumeReads DEF CallEnds
<1>. HIDE DEF c, b
<1>. QED
  BY <1>1, HelpersStill, StillReads

(* call reads a parenthesis, or its arguments.                             *)
LEMMA CallReads ==
  ASSUME CompilerInv, TextInv, Call
  PROVE  TextInv'
<1>. DEFINE b == [at |-> "arguments", count |-> 0]
<1>1. /\ todo # << >> /\ Top.at = "call"
      /\ IF Check(parser, "R_PAREN") THEN Return(CallEnds(parser, 0))
         ELSE Then(parser, <<Precedence(PREC_ASSIGN), b>>)
  BY DEF Call, At, Expression
<1>2. b.at = "arguments"
  OBVIOUS
<1>. HIDE DEF b
<1>3. /\ ReadOK(parser) /\ (Plain /\ ~ parser.error => parser.previous.type \notin Minuends)
      /\ ReadOK(CallEnds(parser, 0))
  BY <1>1, TopReads, OpensAre, MinuendsAre, CallEndsReads DEF Settles
<1>4. Replaces(b, Top) /\ b.at \in Takers /\ b.at \in ExprCalls /\ b.at \notin Conditions
      /\ Top.at \in ExprCalls
  BY <1>1, <1>2 DEF Replaces, Gives, Takers, Bodied, ExprCalls, Immediate, PrefixCalls, Conditions
<1>5. CASE Check(parser, "R_PAREN")
  BY <1>1, <1>3, <1>4, <1>5, GivesReads
<1>6. CASE ~ Check(parser, "R_PAREN")
  BY <1>1, <1>3, <1>4, <1>6, ExpressionReads
<1>. QED
  BY <1>5, <1>6

(* argument_list reads a comma, or the end.                                *)
LEMMA ArgumentsReads ==
  ASSUME CompilerInv, TextInv, Arguments
  PROVE  TextInv'
<1>. DEFINE q == IF Top.count = ByteMax THEN ErrorAt(parser) ELSE parser
            n == (Top.count + 1) % (ByteMax + 1)
            b == [Top EXCEPT !.count = n]
<1>1. /\ todo # << >> /\ Top.at = "arguments"
      /\ IF Check(q, "COMMA") THEN Then(Advance(q), <<Precedence(PREC_ASSIGN), b>>)
         ELSE Return(CallEnds(q, n))
  BY DEF Arguments, At, Expression
<1>2. b.at = "arguments"
  <2>1. Top \in Calls
    BY <1>1, TopIs
  <2>. QED
    BY <1>1, <2>1 DEF Calls, PlainCalls, PrefixCalls, InFunction
<1>. HIDE DEF b, n
<1>3. text \in Texts /\ IsParser(q) /\ ReadOK(q)
  BY <1>1, TopReads, ErrorAtIs, StillReads DEF Still
<1>. HIDE DEF q
<1>4. Replaces(b, Top) /\ b.at \in Takers /\ b.at \in ExprCalls /\ b.at \notin Conditions
      /\ Top.at \in ExprCalls
  BY <1>1, <1>2 DEF Replaces, Gives, Takers, Bodied, ExprCalls, Immediate, PrefixCalls, Conditions
<1>5. CASE Check(q, "COMMA")
  <2>1. ReadOK(Advance(q)) /\ Advance(q).previous.type = "COMMA"
    BY <1>3, <1>5, AdvanceReads DEF Check
  <2>2. Advance(q).previous.type \notin Minuends
    BY <2>1, MinuendsAre DEF Enders
  <2>. QED
    BY <1>1, <1>4, <1>5, <2>1, <2>2, ExpressionReads
<1>6. CASE ~ Check(q, "COMMA")
  BY <1>1, <1>3, <1>4, <1>6, CallEndsReads, GivesReads
<1>. QED
  BY <1>5, <1>6

(* variable reads a sign of equality, or nothing.                          *)
LEMMA VariableReads ==
  ASSUME CompilerInv, TextInv, Variable
  PROVE  TextInv'
<1>. DEFINE name  == parser.previous.text
            local == Named(parser, name) # {}
            i == Resolve(parser, name)
            q == CASE ~local -> AddConstant(parser, Str(name))
                   [] local /\ Locals(parser)[i].depth = -1 -> ErrorAt(parser)
                   [] OTHER -> parser
            arg == IF local THEN (i - 1) % (ByteMax + 1) ELSE ConstantId(parser)
            b == Finish(None, <<Opcode[IF local THEN "SET_LOCAL" ELSE "SET_GLOBAL"], arg>>)
            e == <<Opcode[IF local THEN "GET_LOCAL" ELSE "GET_GLOBAL"], arg>>
<1>1. /\ todo # << >> /\ Top.at = "variable"
      /\ \/ Check(q, "ASSIGN") /\ Then(Advance(q), <<Precedence(PREC_ASSIGN), b>>)
         \/ Return(Emit(q, e))
  BY DEF Variable, At, Expression
<1>2. b.at = "finish" /\ b.token = None
  BY DEF Finish
<1>3. text \in Texts /\ IsParser(parser) /\ Still(parser, parser) /\ ReadOK(parser)
  BY <1>1, TopReads
<1>4. Still(parser, q)
  <2>1. \/ q = AddConstant(parser, Str(name)) \/ q = ErrorAt(parser) \/ q = parser
    OBVIOUS
  <2>. HIDE DEF q
  <2>. QED
    BY <1>3, <2>1, HelpersStill, ErrorAtIs
<1>. HIDE DEF b, e, q
<1>5. IsParser(q) /\ ReadOK(q) /\ ReadOK(Emit(q, e))
  BY <1>3, <1>4, StillReads, HelpersStill DEF Still
<1>6. Replaces(b, Top) /\ b.at \in Takers /\ b.at \in ExprCalls /\ b.at \notin Conditions
      /\ Top.at \in ExprCalls
  BY <1>1, <1>2 DEF None, Replaces, Gives, Takers, Bodied, ExprCalls, Immediate, PrefixCalls,
     Conditions
<1>7. CASE Check(q, "ASSIGN") /\ Then(Advance(q), <<Precedence(PREC_ASSIGN), b>>)
  <2>1. ReadOK(Advance(q)) /\ Advance(q).previous.type = "ASSIGN"
    BY <1>3, <1>5, <1>7, AdvanceReads DEF Check
  <2>2. Advance(q).previous.type \notin Minuends
    BY <2>1, MinuendsAre DEF Enders
  <2>. QED
    BY <1>1, <1>6, <1>7, <2>1, <2>2, ExpressionReads
<1>8. CASE Return(Emit(q, e))
  BY <1>1, <1>5, <1>6, <1>8, GivesReads
<1>. QED
  BY <1>1, <1>7, <1>8
-----------------------------------------------------------------------------

(* Nothing has been read at the beginning.                                 *)
LEMMA TextInitially == Init => TextInv
<1>. SUFFICES ASSUME Init
              PROVE  TextInv
  OBVIOUS
<1>. DEFINE t == <<Do("compile")>>
<1>1. todo = t /\ parser.current = NoToken /\ parser.previous = NoToken /\ parser.pos = 0
  BY DEF Init
<1>2. Len(t) = 1 /\ t[1].at = "compile" /\ Head(t) = t[1]
  BY DEF Do
<1>. HIDE DEF t
<1>3. StackOK(todo)
  BY <1>1, <1>2 DEF StackOK, Takers, Conditions
<1>4. ReadOK(parser)
  <2>1. parser.pos \notin 1 .. Len(text) - 1
    BY <1>1
  <2>2. parser.current.type # "MINUS"
    BY <1>1 DEF NoToken, Token
  <2>. QED
    BY <1>1, <2>1, <2>2 DEF ReadOK
<1>5. Settles(Top, parser)
  BY <1>1, <1>2 DEF Top, Settles, PrefixCalls, Starting
<1>. QED
  BY <1>3, <1>4, <1>5 DEF TextInv

(* A step that changes nothing keeps it.                                   *)
LEMMA TextStutters == CompilerInv /\ TextInv /\ UNCHANGED vars => TextInv'
<1>. SUFFICES ASSUME TextInv, UNCHANGED vars
              PROVE  TextInv'
  OBVIOUS
<1>1. text' = text /\ parser' = parser /\ todo' = todo
  BY DEF vars
<1>2. ReadOK(parser) /\ StackOK(todo)
      /\ (todo # << >> /\ Plain /\ ~ parser.error => Settles(Head(todo), parser))
  BY DEF TextInv, Top
<1>. QED
  BY <1>1, <1>2, TextNext

(* Every action keeps it.                                                  *)
LEMMA TextKept == CompilerInv /\ TextInv /\ Next => TextInv'
BY CompileReads, ScriptReads, ScriptEndReads, DeclarationReads, DeclaredReads, SynchronizeReads,
   FinishCallReads, StatementReads, ExpressionStatementReads, BlockReads, ScopeEndsReads,
   VarDeclarationReads, VarDefinedReads, IfStatementReads, IfThenReads, IfElseReads, IfEndReads,
   WhileStatementReads, WhileBodyReads, LoopEndReads, ForStatementReads, ForConditionReads,
   ForExitReads, ForIncrementReads, ForStepReads, FuncDeclarationReads, ParameterReads,
   FuncBodyReads, FuncEndReads, ReturnStatementReads, PrefixRuleReads, InfixRuleReads,
   ConstantReads, LiteralValueReads, GroupingReads, UnaryReads, BinaryRightReads,
   BinaryEndReads, CallReads, ArgumentsReads, VariableReads DEF Next

(* For every text: an operand that a minus follows ends as the text's      *)
(* tokens say it does, and the call on top has the token its function was  *)
(* chosen for.                                                             *)
LEMMA TextHolds == Spec => []TextInv
<1>1. Init => TextInv
  BY TextInitially
<1>2. CompilerInv /\ TextInv /\ [Next]_vars => TextInv'
  BY TextKept, TextStutters
<1>. QED
  BY <1>1, <1>2, CompilerInvariant, PTL DEF Spec

(* The functions that are constants of those begun.                        *)
Made(p) == UNION {Functions(p.fns[n].consts) : n \in 1 .. Len(p.fns)}

(* q has the functions of p: none is declared, none is forgotten.          *)
Tame(p, q) ==
  /\ Fine(q) /\ Made(q) \subseteq Made(p)
  /\ Functions(Fn(p).consts) \subseteq Functions(Fn(q).consts)

(* One after the other.                                                    *)
LEMMA TameTrans ==
  ASSUME NEW p, NEW q, NEW r, Tame(p, q), Tame(q, r)
  PROVE  Tame(p, r)
BY DEF Tame

(* No function is touched.                                                 *)
LEMMA TameSame ==
  ASSUME NEW p, NEW q, Fine(q), q.fns = p.fns
  PROVE  Tame(p, q)
BY DEF Tame, Made, Fn

(* The function being compiled, by its parts.                              *)
LEMMA FnParts ==
  ASSUME NEW S, NEW p, Sound(p, S)
  PROVE  /\ Fn(p) \in FnSet(S) /\ Typed(Fn(p)) /\ Fn(p).consts \in Seq(S)
         /\ DOMAIN Fn(p).consts = 1 .. Len(Fn(p).consts)
         /\ Fn(p).locals \in Seq(LocalSet) /\ Fn(p).depth \in Nat /\ Fn(p).arity \in Nat
<1>1. /\ Fn(p) \in FnSet(S) /\ Fn(p).code \in Seq(Bytes) /\ Len(Fn(p).code) \in Nat
      /\ Len(Fn(p).consts) \in Nat
  BY FnIs
<1>2. /\ Fn(p).consts \in Seq(S) /\ Fn(p).locals \in Seq(LocalSet) /\ Fn(p).depth \in Nat
      /\ Fn(p).arity \in Nat
  BY <1>1 DEF FnSet
<1>. QED
  BY <1>1, <1>2 DEF Typed

(* The same of a parser of CompilerInv.                                    *)
LEMMA FineParts ==
  ASSUME NEW p, Fine(p)
  PROVE  /\ Typed(Fn(p)) /\ DOMAIN Fn(p).consts = 1 .. Len(Fn(p).consts)
         /\ Fn(p).locals \in Seq(LocalSet) /\ Fn(p).depth \in Nat /\ Fn(p).arity \in Nat
         /\ Fn(p).type \in {"SCRIPT", "FUNC"}
<1>1. PICK S : Sound(p, S)
  BY DEF Fine
<1>2. Fn(p) \in FnSet(S)
  BY <1>1, FnParts
<1>. QED
  BY <1>1, <1>2, FnParts DEF FnSet

(* It is replaced.                                                         *)
LEMMA TameWith ==
  ASSUME NEW S, NEW p, Sound(p, S), NEW f \in FnSet(S),
         Functions(f.consts) = Functions(Fn(p).consts)
  PROVE  /\ Tame(p, WithFn(p, f)) /\ Fn(WithFn(p, f)) = f /\ Sound(WithFn(p, f), S)
         /\ WithFn(p, f).error = p.error
<1>. DEFINE q == WithFn(p, f)
<1>1. /\ Sound(q, S) /\ Fn(q) = f /\ Len(q.fns) = Len(p.fns)
      /\ \A n \in 1 .. Len(p.fns) - 1 : q.fns[n] = p.fns[n]
      /\ q.fns[Len(p.fns)] = f
  BY SoundWith
<1>2. Len(p.fns) \in Nat /\ Fn(p) = p.fns[Len(p.fns)] /\ Len(p.fns) \in 1 .. Len(p.fns)
  BY FnIs
<1>3. p.fns = p.fns /\ p \in ParserSet(S)
  BY DEF Sound
<1>4. q.error = p.error
  BY <1>3 DEF WithFn, ParserSet
<1>. HIDE DEF q
<1>5. ASSUME NEW n \in 1 .. Len(q.fns)
      PROVE  Functions(q.fns[n].consts) = Functions(p.fns[n].consts)
  <2>1. CASE n = Len(p.fns)
    BY <1>1, <1>2, <2>1
  <2>2. CASE n # Len(p.fns)
    <3>1. n \in 1 .. Len(p.fns) - 1
      BY <1>1, <1>2, <2>2
    <3>. QED
      BY <1>1, <3>1
  <2>. QED
    BY <2>1, <2>2
<1>6. Made(q) \subseteq Made(p)
  BY <1>1, <1>5 DEF Made
<1>. QED
  BY <1>1, <1>4, <1>6 DEF Tame, Fine, q

(* g is in the scopes that f is in.                                        *)
Level(f, g) == g.locals = f.locals /\ g.depth = f.depth

(* Its code is replaced.                                                   *)
LEMMA CodeWith ==
  ASSUME NEW p, Fine(p), NEW c \in Seq(Bytes), NEW q, q = WithFn(p, [Fn(p) EXCEPT !.code = c])
  PROVE  /\ Tame(p, q) /\ Fine(q) /\ q.error = p.error
         /\ Typed(Fn(p)) /\ Typed(Fn(q)) /\ Fn(q).code = c /\ Level(Fn(p), Fn(q))
         /\ Fn(q).consts = Fn(p).consts /\ Fn(q).type = Fn(p).type /\ Fn(q).arity = Fn(p).arity
<1>1. PICK S : Sound(p, S)
  BY DEF Fine
<1>. DEFINE f == [Fn(p) EXCEPT !.code = c]
<1>2. Fn(p) \in FnSet(S) /\ Typed(Fn(p))
  BY <1>1, FnParts
<1>3. f \in FnSet(S) /\ f.code = c /\ Level(Fn(p), f) /\ f.consts = Fn(p).consts
      /\ f.type = Fn(p).type /\ f.arity = Fn(p).arity
  BY <1>2 DEF FnSet, Level
<1>0. q = WithFn(p, f) /\ Functions(f.consts) = Functions(Fn(p).consts)
  BY <1>3
<1>. HIDE DEF f
<1>4. Tame(p, q) /\ Fn(q) = f /\ Sound(q, S) /\ q.error = p.error
  BY <1>0, <1>1, <1>3, TameWith
<1>5. Typed(f)
  BY <1>4, FnParts
<1>. QED
  BY <1>2, <1>3, <1>4, <1>5 DEF Fine

(* Two sequences that are one.                                             *)
LEMMA Joins ==
  ASSUME NEW x, NEW y, NEW z
  PROVE  <<x>> \o <<y, z>> = <<x, y, z>>
<1>. DEFINE S == {x, y, z}  a == <<x>>  b == <<y, z>>  c == <<x, y, z>>
<1>1. /\ a \in Seq(S) /\ b \in Seq(S) /\ c \in Seq(S)
      /\ Len(a) = 1 /\ Len(b) = 2 /\ Len(c) = 3
      /\ a[1] = x /\ b[1] = y /\ b[2] = z /\ c[1] = x /\ c[2] = y /\ c[3] = z
  OBVIOUS
<1>. HIDE DEF a, b, c, S
<1>2. /\ a \o b \in Seq(S) /\ Len(a \o b) = 3
      /\ \A i \in 1 .. 3 : (a \o b)[i] = IF i <= 1 THEN a[i] ELSE b[i - 1]
  <2>1. /\ a \o b \in Seq(S) /\ Len(a \o b) = Len(a) + Len(b)
        /\ \A i \in 1 .. Len(a) + Len(b) : (a \o b)[i] = IF i <= Len(a) THEN a[i] ELSE b[i - Len(a)]
    BY <1>1, ConcatProperties
  <2>. QED
    BY <1>1, <2>1
<1>. DEFINE d == a \o b
<1>3. d \in Seq(S) /\ Len(d) = 3 /\ d[1] = x /\ d[2] = y /\ d[3] = z
  BY <1>1, <1>2
<1>. HIDE DEF d
<1>4. \A i \in 1 .. Len(d) : d[i] = c[i]
  BY <1>1, <1>3
<1>5. d = c
  BY <1>1, <1>3, <1>4, SeqEqual
<1>. QED
  BY <1>5 DEF a, b, c, d

(* A number as two bytes, unless it is too large.                          *)
LEMMA TwoBytesSpan ==
  ASSUME NEW n \in Nat
  PROVE  /\ TwoBytes(n)[1] \in Bytes /\ TwoBytes(n)[2] \in Bytes
         /\ TwoBytes(n) = <<TwoBytes(n)[1], TwoBytes(n)[2]>>
         /\ ~ (n > JumpMax) => Spans(TwoBytes(n)[1], TwoBytes(n)[2], n)
<1>. DEFINE b == TwoBytes(n)
<1>1. b[1] \in Bytes /\ b[2] \in Bytes
  BY TwoBytesAreBytes
<1>2. b = <<b[1], b[2]>>
  BY DEF TwoBytes
<1>3. ASSUME ~ (n > JumpMax)
      PROVE  Spans(b[1], b[2], n)
  <2>1. n \in 0 .. JumpMax /\ JumpMax \in Nat
    BY <1>3, CompilerAssumption
  <2>2. n % (JumpMax + 1) = n
    BY <2>1
  <2>3. b[1] = n \div 256 /\ b[2] = n % 256
    BY <2>2 DEF TwoBytes
  <2>. HIDE DEF b
  <2>. QED
    BY <2>3 DEF Spans
<1>. QED
  BY <1>1, <1>2, <1>3

(* emit_opcode and the like append to the code, and do nothing else.       *)
LEMMA EmitIs ==
  ASSUME NEW p, Fine(p), NEW b \in Seq(Bytes), NEW q, q = Emit(p, b)
  PROVE  /\ Tame(p, q) /\ Fine(q) /\ q.error = p.error
         /\ Appends(Fn(p), Fn(q), b) /\ Level(Fn(p), Fn(q)) /\ Fn(q).consts = Fn(p).consts
<1>. DEFINE c == Fn(p).code \o b
<1>1. Typed(Fn(p))
  BY FineParts
<1>2. c \in Seq(Bytes) /\ Len(c) = Len(Fn(p).code) + Len(b) /\ Len(b) \in Nat
  BY <1>1, ConcatProperties, LenProperties DEF Typed
<1>3. q = WithFn(p, [Fn(p) EXCEPT !.code = c])
  BY DEF Emit
<1>. HIDE DEF c
<1>4. /\ Tame(p, q) /\ Fine(q) /\ q.error = p.error /\ Typed(Fn(q)) /\ Fn(q).code = c
      /\ Level(Fn(p), Fn(q)) /\ Fn(q).consts = Fn(p).consts /\ Fn(q).type = Fn(p).type
      /\ Fn(q).arity = Fn(p).arity
  BY <1>2, <1>3, CodeWith
<1>5. Len(Fn(p).code) <= Len(c) /\ Len(Fn(p).consts) <= Len(Fn(p).consts)
  BY <1>1, <1>2 DEF Typed
<1>6. Extends(Fn(p), Fn(q))
  BY <1>4, <1>5 DEF Extends
<1>. QED
  BY <1>1, <1>4, <1>6 DEF Appends, c

(* Tokens read and errors leave the functions alone.                       *)
LEMMA ReadIs ==
  ASSUME NEW p, Fine(p), text \in Texts
  PROVE  /\ Fine(Advance(p)) /\ Advance(p).fns = p.fns /\ Tame(p, Advance(p))
         /\ Fine(ErrorAt(p)) /\ ErrorAt(p).fns = p.fns /\ Tame(p, ErrorAt(p))
         /\ \A type : /\ Fine(Consume(p, type)) /\ Consume(p, type).fns = p.fns
                      /\ Tame(p, Consume(p, type))
         /\ Fn(Advance(p)) = Fn(p) /\ Fn(ErrorAt(p)) = Fn(p)
         /\ \A type : Fn(Consume(p, type)) = Fn(p)
<1>1. /\ Fine(Advance(p)) /\ Advance(p).fns = p.fns
      /\ Fine(ErrorAt(p)) /\ ErrorAt(p).fns = p.fns
      /\ \A type : Fine(Consume(p, type)) /\ Consume(p, type).fns = p.fns
  BY HelpersKeep DEF Same
<1>. QED
  BY <1>1, TameSame DEF Fn

(* A constant is added; it has a number unless an error says so.           *)
LEMMA AddConstantIs ==
  ASSUME NEW p, Fine(p), text \in Texts, NEW v, ~ IsFunc(v), NEW q, q = AddConstant(p, v)
  PROVE  /\ Tame(p, q) /\ Fine(q) /\ Level(Fn(p), Fn(q))
         /\ Typed(Fn(p)) /\ Typed(Fn(q)) /\ Extends(Fn(p), Fn(q))
         /\ Fn(q).code = Fn(p).code /\ Fn(q).type = Fn(p).type /\ Fn(q).arity = Fn(p).arity
         /\ ~ q.error => /\ HasConstant(Fn(q), ConstantId(p))
                         /\ ConstantAt(Fn(q), ConstantId(p)) = v
<1>1. PICK R : Sound(p, R)
  BY DEF Fine
<1>. DEFINE S == R \cup {v}  c == Append(Fn(p).consts, v)  f == [Fn(p) EXCEPT !.consts = c]
            w == WithFn(p, f)
<1>2. Sound(p, S)
  BY <1>1, SoundMore
<1>3. /\ Fn(p) \in FnSet(S) /\ Typed(Fn(p)) /\ Fn(p).consts \in Seq(S)
      /\ DOMAIN Fn(p).consts = 1 .. Len(Fn(p).consts)
  BY <1>2, FnParts
<1>4. /\ c \in Seq(S) /\ Len(c) = Len(Fn(p).consts) + 1 /\ c[Len(Fn(p).consts) + 1] = v
      /\ \A i \in 1 .. Len(Fn(p).consts) : c[i] = Fn(p).consts[i]
      /\ DOMAIN c = 1 .. Len(Fn(p).consts) + 1
  BY <1>3, AppendProperties DEF Typed
<1>. HIDE DEF c
<1>5. /\ f \in FnSet(S) /\ f.consts = c /\ f.code = Fn(p).code /\ f.type = Fn(p).type
      /\ f.arity = Fn(p).arity /\ Level(Fn(p), f)
  BY <1>3, <1>4 DEF FnSet, Level
<1>6. Functions(c) = Functions(Fn(p).consts)
  <2>1. \A i \in 1 .. Len(Fn(p).consts) + 1 : i \in 1 .. Len(Fn(p).consts) \/ i = Len(Fn(p).consts) + 1
    BY <1>3 DEF Typed
  <2>2. \A i \in 1 .. Len(Fn(p).consts) : i \in 1 .. Len(Fn(p).consts) + 1
    BY <1>3 DEF Typed
  <2>3. {i \in DOMAIN c : IsFunc(c[i])} = {i \in DOMAIN Fn(p).consts : IsFunc(Fn(p).consts[i])}
    BY <1>3, <1>4, <2>1, <2>2
  <2>4. \A i \in DOMAIN Fn(p).consts : c[i] = Fn(p).consts[i]
    BY <1>3, <1>4
  <2>. QED
    BY <2>3, <2>4 DEF Functions
<1>. HIDE DEF f, S
<1>7. Tame(p, w) /\ Fn(w) = f /\ Sound(w, S)
  BY <1>2, <1>5, <1>6, TameWith
<1>8. q = IF TooMany(p) THEN ErrorAt(w) ELSE w
  BY DEF AddConstant, c, f
<1>9. Fine(w) /\ Typed(f)
  BY <1>7, FnParts DEF Fine
<1>. HIDE DEF w
<1>10. Fine(q) /\ Tame(p, q) /\ Fn(q) = f
  BY <1>7, <1>8, <1>9, ReadIs, TameTrans
<1>11. Len(Fn(p).code) <= Len(f.code) /\ Len(Fn(p).consts) <= Len(f.consts)
       /\ Len(Fn(p).consts) \in 0 .. Len(f.consts) - 1
  BY <1>3, <1>4, <1>5 DEF Typed
<1>12. Extends(Fn(p), f)
  BY <1>4, <1>5, <1>11 DEF Extends
<1>13. ASSUME ~ q.error
       PROVE  HasConstant(f, ConstantId(p)) /\ ConstantAt(f, ConstantId(p)) = v
  <2>1. ~ TooMany(p)
    BY <1>8, <1>9, <1>13, ErrorAtIs, FineIsParser
  <2>2. ConstantId(p) = Len(Fn(p).consts)
    BY <2>1 DEF ConstantId
  <2>. QED
    BY <1>4, <1>5, <1>11, <2>2 DEF HasConstant, ConstantAt
<1>. QED
  BY <1>3, <1>5, <1>9, <1>10, <1>12, <1>13

(* A jump back, unless it is too far.                                      *)
LEMMA EmitLoopIs ==
  ASSUME NEW p, Fine(p), text \in Texts, NEW start \in Nat, start <= Count(p),
         NEW q, q = EmitLoop(p, start)
  PROVE  /\ Tame(p, q) /\ Fine(q) /\ Level(Fn(p), Fn(q))
         /\ ~ q.error => \E y \in Nat, z \in Nat :
                           /\ Appends(Fn(p), Fn(q), <<Opcode["LOOP"], y, z>>)
                           /\ Spans(y, z, Len(Fn(p).code) + 3 - start)
<1>. DEFINE a == <<Opcode["LOOP"]>>  s == Emit(p, a)
            n == Count(s) - start + 2  b == TwoBytes(n)
            r == IF n > JumpMax THEN ErrorAt(s) ELSE s
<1>1. a \in Seq(Bytes) /\ Len(a) = 1 /\ Opcode["LOOP"] \in Bytes
  BY OpcodeIsByte DEF Emitted
<1>2. /\ Tame(p, s) /\ Fine(s) /\ s.error = p.error /\ Appends(Fn(p), Fn(s), a)
      /\ Level(Fn(p), Fn(s)) /\ Fn(s).consts = Fn(p).consts
  BY <1>1, EmitIs
<1>3. q = Emit(r, b)
  BY DEF EmitLoop, EmitOp
<1>4. Len(Fn(s).code) = Len(Fn(p).code) + 1 /\ Len(Fn(p).code) \in Nat
  BY <1>1, <1>2, AppendedLength DEF Appends, Typed
<1>. HIDE DEF s, a
<1>5. n \in Nat /\ n = Len(Fn(p).code) + 3 - start
  BY <1>4 DEF Count
<1>. HIDE DEF n
<1>6. /\ b[1] \in Bytes /\ b[2] \in Bytes /\ b = <<b[1], b[2]>>
      /\ ~ (n > JumpMax) => Spans(b[1], b[2], n)
  BY <1>5, TwoBytesSpan
<1>7. Tame(p, r) /\ Fine(r) /\ Fn(r) = Fn(s) /\ (n > JumpMax => r.error)
  BY <1>2, ReadIs, TameTrans, ErrorAtIs, FineIsParser
<1>8. b \in Seq(Bytes)
  <2>1. \A u \in Bytes, v \in Bytes : <<u, v>> \in Seq(Bytes)
    OBVIOUS
  <2>. HIDE DEF b
  <2>. QED
    BY <1>6, <2>1
<1>. HIDE DEF b, r
<1>10. /\ Tame(r, q) /\ Fine(q) /\ q.error = r.error /\ Appends(Fn(r), Fn(q), b)
       /\ Level(Fn(r), Fn(q)) /\ Fn(q).consts = Fn(r).consts
  BY <1>3, <1>8, <1>7, EmitIs
<1>11. Tame(p, q) /\ Level(Fn(p), Fn(q))
  BY <1>2, <1>7, <1>10, TameTrans DEF Level
<1>. DEFINE y == b[1]  z == b[2]  c == <<Opcode["LOOP"], y, z>>
<1>12. y \in Nat /\ z \in Nat /\ c \in Seq(Bytes) /\ a \o b = c
  <2>1. y \in Bytes /\ z \in Bytes /\ b = <<y, z>> /\ a = <<Opcode["LOOP"]>>
    BY <1>6 DEF a
  <2>. HIDE DEF y, z
  <2>2. y \in Nat /\ z \in Nat
    BY <2>1 DEF Bytes
  <2>3. c \in Seq(Bytes)
    BY <1>1, <2>1
  <2>. QED
    BY <2>1, <2>2, <2>3, Joins
<1>13. Appends(Fn(p), Fn(q), c)
  <2>1. Fn(q).code = (Fn(p).code \o a) \o b
    BY <1>2, <1>7, <1>10 DEF Appends
  <2>2. (Fn(p).code \o a) \o b = Fn(p).code \o (a \o b)
    <3>. DEFINE d == Fn(p).code
    <3>1. d \in Seq(Bytes) /\ a \in Seq(Bytes) /\ b \in Seq(Bytes)
      BY <1>2, <1>8 DEF Appends, Typed
    <3>. HIDE DEF d
    <3>2. (d \o a) \o b = d \o (a \o b)
      BY SMTT(30), <3>1, ConcatAssociative
    <3>. QED
      BY <3>2 DEF d
  <2>3. Fn(q).code = Fn(p).code \o c
    BY <1>12, <2>1, <2>2
  <2>. HIDE DEF c
  <2>4. Extends(Fn(p), Fn(q))
    <3>1. Len(Fn(p).code) <= Len(Fn(s).code) /\ Len(Fn(s).code) <= Len(Fn(q).code)
      BY <1>2, <1>7, <1>10 DEF Appends, Extends
    <3>2. Len(Fn(p).code) \in Nat /\ Len(Fn(s).code) \in Nat /\ Len(Fn(q).code) \in Nat
      BY <1>2, <1>7, <1>10 DEF Appends, Typed
    <3>3. Len(Fn(p).code) <= Len(Fn(q).code)
      BY <3>1, <3>2
    <3>. QED
      BY <1>2, <1>7, <1>10, <3>3 DEF Appends, Extends
  <2>. QED
    BY <1>2, <1>7, <1>10, <1>12, <2>3, <2>4 DEF Appends
<1>14. ~ q.error => Spans(y, z, Len(Fn(p).code) + 3 - start)
  BY <1>5, <1>6, <1>7, <1>10
<1>. HIDE DEF c, y, z
<1>. QED
  BY <1>10, <1>11, <1>12, <1>13, <1>14 DEF c

(* The target of a jump is written, unless it is too far.                  *)
LEMMA PatchIs ==
  ASSUME NEW p, Fine(p), text \in Texts, NEW j, Open(Fn(p), j), NEW q, q = PatchJump(p, j)
  PROVE  /\ Tame(p, q) /\ Fine(q) /\ Level(Fn(p), Fn(q))
         /\ Typed(Fn(p)) /\ Typed(Fn(q))
         /\ Fn(q).consts = Fn(p).consts /\ Fn(q).type = Fn(p).type /\ Fn(q).arity = Fn(p).arity
         /\ Len(Fn(q).code) = Len(Fn(p).code)
         /\ \A k \in 0 .. Len(Fn(p).code) - 1 :
              k \notin {j, j + 1} => ByteAt(Fn(q), k) = ByteAt(Fn(p), k)
         /\ ~ q.error => Short(Fn(q), j - 1) = Len(Fn(p).code) - j - 2
<1>. DEFINE n == Count(p) - j - 2  b == TwoBytes(n)
            s == IF n > JumpMax THEN ErrorAt(p) ELSE p
            c == [Fn(p).code EXCEPT ![j + 1] = b[1]]  d == [c EXCEPT ![j + 2] = b[2]]
<1>1. /\ j \in Nat /\ j + 2 <= Len(Fn(p).code) /\ Len(Fn(p).code) \in Nat /\ Typed(Fn(p))
      /\ Fn(p).code \in Seq(Bytes)
  BY FineParts DEF Open, Typed
<1>2. n \in Nat /\ n = Len(Fn(p).code) - j - 2
  BY <1>1 DEF Count
<1>. HIDE DEF n
<1>3. /\ b[1] \in Bytes /\ b[2] \in Bytes
      /\ ~ (n > JumpMax) => b[1] * 256 + b[2] = n
  BY <1>2, TwoBytesSpan DEF Spans
<1>5. Tame(p, s) /\ Fine(s) /\ Fn(s) = Fn(p) /\ (n > JumpMax => s.error)
  <2>1. Tame(p, p)
    BY TameSame
  <2>. QED
    BY <2>1, ReadIs, ErrorAtIs, FineIsParser
<1>6. q = WithFn(s, [Fn(s) EXCEPT !.code = d])
  <2>1. q = WithFn(s, [Fn(s) EXCEPT !.code[j + 1] = b[1], !.code[j + 2] = b[2]])
    BY DEF PatchJump, n, b, s
  <2>. HIDE DEF s, b
  <2>2. [Fn(s) EXCEPT !.code[j + 1] = b[1], !.code[j + 2] = b[2]] = [Fn(s) EXCEPT !.code = d]
    <3>1. PICK S : Fn(s) \in FnSet(S)
      BY <1>5, FnIs DEF Fine
    <3>. QED
      BY <1>5, <3>1 DEF FnSet
  <2>. QED
    BY <2>1, <2>2
<1>7. j + 1 \in 1 .. Len(Fn(p).code) /\ j + 2 \in 1 .. Len(Fn(p).code)
  BY <1>1
<1>. HIDE DEF b, s
<1>8. /\ c \in Seq(Bytes) /\ Len(c) = Len(Fn(p).code)
      /\ \A i \in 1 .. Len(Fn(p).code) : c[i] = IF i = j + 1 THEN b[1] ELSE Fn(p).code[i]
  BY <1>1, <1>3, <1>7, ExceptSeq
<1>. HIDE DEF c
<1>9. /\ d \in Seq(Bytes) /\ Len(d) = Len(Fn(p).code)
      /\ \A i \in 1 .. Len(Fn(p).code) : d[i] = IF i = j + 2 THEN b[2] ELSE c[i]
  BY <1>3, <1>7, <1>8, ExceptSeq
<1>. HIDE DEF d
<1>10. /\ Tame(s, q) /\ Fine(q) /\ q.error = s.error
       /\ Typed(Fn(q)) /\ Fn(q).code = d /\ Level(Fn(s), Fn(q))
       /\ Fn(q).consts = Fn(s).consts /\ Fn(q).type = Fn(s).type /\ Fn(q).arity = Fn(s).arity
  BY <1>5, <1>6, <1>9, CodeWith
<1>11. d[j + 1] = b[1] /\ d[j + 2] = b[2]
  BY <1>1, <1>7, <1>8, <1>9
<1>12. ASSUME NEW k \in 0 .. Len(Fn(p).code) - 1, k \notin {j, j + 1}
       PROVE  d[k + 1] = Fn(p).code[k + 1]
  <2>. DEFINE m == k + 1
  <2>1. m \in 1 .. Len(Fn(p).code) /\ m # j + 1 /\ m # j + 2
    BY <1>1, <1>12
  <2>. HIDE DEF m
  <2>2. d[m] = Fn(p).code[m]
    BY <1>8, <1>9, <2>1
  <2>. QED
    BY <2>2 DEF m
<1>13. ~ q.error => Short(Fn(q), j - 1) = Len(Fn(p).code) - j - 2
  <2>. SUFFICES ASSUME ~ q.error
                PROVE  Short(Fn(q), j - 1) = Len(Fn(p).code) - j - 2
    OBVIOUS
  <2>1. b[1] * 256 + b[2] = n
    BY <1>3, <1>5, <1>10
  <2>2. (j - 1) + 1 + 1 = j + 1 /\ (j - 1) + 2 + 1 = j + 2
    BY <1>1
  <2>. QED
    BY <1>2, <1>10, <1>11, <2>1, <2>2 DEF Short, ByteAt
<1>14. Tame(p, q) /\ Level(Fn(p), Fn(q))
  BY <1>5, <1>10, TameTrans
<1>. QED
  BY <1>1, <1>5, <1>9, <1>10, <1>12, <1>13, <1>14 DEF ByteAt

(* Heights for the calls in progress of the function being compiled, the   *)
(* innermost first: where a call begins and where it ends, and the depth   *)
(* of the scope when it has ended.                                         *)
RecSet == [call : Calls, in : Nat, out : Nat, depth : Nat]
Rec(c, u, w, d) == [call |-> c, in |-> u, out |-> w, depth |-> d]

(* the locals with a value *)
Slots(f) ==
  IF f.locals[Len(f.locals)].depth = -1 THEN Len(f.locals) - 1 ELSE Len(f.locals)

Sc(c) == IF c.at \in Scoped THEN 1 ELSE 0
Bases == {"compile", "script"} \cup InFunction

(* the calls that begin with as many slots as there are locals by then *)
Flexible == Bases \cup {"block", "declaration", "declared", "synchronize", "var_declaration",
                        "func_declaration", "end_scope", "for_condition"}

(* The first n locals are of the scopes to depth x, the others deeper.     *)
LocalsTo(f, n, x) ==
  /\ n \in 1 .. Len(f.locals)
  /\ \A i \in 1 .. n : f.locals[i].depth \in 0 .. x
  /\ \A i \in n + 1 .. Len(f.locals) : f.locals[i].depth = -1 \/ f.locals[i].depth > x

(* s is above t *)
Linked(s, t) ==
  /\ t.call.at \notin Flexible => s.out = t.in
  /\ s.depth = t.depth + Sc(t.call)

Arranged(r) ==
  /\ r \in Seq(RecSet) /\ Len(r) \in Nat /\ Len(r) >= 1
  /\ \A i \in 1 .. Len(r) - 1 : Linked(r[i], r[i + 1])
  /\ \A i \in 1 .. Len(r) :
       /\ r[i].call.at \in Bases <=> i = Len(r)
       /\ \A j \in 1 .. i - 1 : r[i].depth + Sc(r[i].call) <= r[j].depth

(* A jump that waits at height h.                                          *)
Hole(f, H, j, h) ==
  <<j - 1, h>> \in H /\ j - 1 < Len(f.code) /\ OpAt(f, j - 1) \in {"JMP", "JMP_FALSE"}

(* What a call knows of the heights where it begins and ends: the calls of *)
(* expressions, those that end a parse function, the statements, ...       *)
FitsExpression(f, c, u, w) ==
  /\ c.at \in {"precedence"} \cup PrefixCalls => w = u + 1 /\ u >= Slots(f)
  /\ c.at \in {"infix", "binary", "call"} => w = u /\ u > Slots(f)
  /\ c.at = "binary_end" =>
       u = w + 1 /\ w > Slots(f) /\ c.type \in {"PLUS", "MINUS", "STAR", "SLASH"}
  /\ c.at = "arguments" => u = w + c.count + 1 /\ w > Slots(f)

FitsFinish(f, c, u, w) ==
  c.at = "finish" =>
    IF c.token = "SEMICOLON"
    THEN /\ w = Len(f.locals) /\ u = w + 1
         /\ \/ c.code = <<Opcode["POP"]>>
            \/ c.code = <<Opcode["RETURN"]>> /\ f.type # "SCRIPT"
    ELSE /\ w = u /\ u > Slots(f)
         /\ \/ c.code = << >>
            \/ c.code = <<Opcode["NOT"]>>
            \/ \E a \in Nat : a < Slots(f) /\ c.code = <<Opcode["SET_LOCAL"], a>>
            \/ \E a \in Nat : IsName(f, a) /\ c.code = <<Opcode["SET_GLOBAL"], a>>

FitsStatement(f, c, u, w) ==
  /\ c.at \in {"statement", "expression_statement", "if_statement", "while_statement",
               "for_statement", "return_statement", "if_else", "if_end", "loop_end"} => w = u
  /\ c.at \in {"if_then", "while_body"} => w = Len(f.locals)
  /\ c.at \in {"if_then", "while_body", "for_exit", "for_step"} => u = Len(f.locals) + 1
  /\ c.at = "var_defined" =>
       IF Joined /\ f.depth > 0
       THEN Slots(f) < Len(f.locals) /\ u = Len(f.locals)
       ELSE Slots(f) = Len(f.locals) /\ u = Len(f.locals) + 1 /\ IsName(f, c.global)

(* ... the jumps that wait for them and the places they jump back to, ...  *)
FitsMarks(f, H, c, u) ==
  /\ c.at = "if_else" => Hole(f, H, c.jump, u + 1)
  /\ c.at = "if_end" => Hole(f, H, c.jump, u)
  /\ c.at \in {"while_body", "for_exit"} => c.start <= Len(f.code) /\ <<c.start, u - 1>> \in H
  /\ c.at \in {"loop_end", "for_increment"} =>
       /\ c.start <= Len(f.code) /\ <<c.start, u>> \in H
       /\ c.exit # -1 => Hole(f, H, c.exit, u + 1)
  /\ c.at = "for_step" =>
       /\ c.start <= Len(f.code) /\ <<c.start, u - 1>> \in H
       /\ c.increment <= Len(f.code) /\ <<c.increment, u - 1>> \in H
       /\ Hole(f, H, c.jump, u - 1)
       /\ c.exit # -1 => Hole(f, H, c.exit, u)

(* ... and the locals that their scope leaves.                             *)
FitsScope(f, c, w, d) ==
  /\ c.at \in Scoped => LocalsTo(f, w, d)
  /\ c.at \in {"compile", "script"} => f.type = "SCRIPT" /\ d = 0
  /\ c.at \in InFunction => f.type # "SCRIPT" /\ d = 1

Fits(f, H, s) ==
  /\ FitsExpression(f, s.call, s.in, s.out) /\ FitsFinish(f, s.call, s.in, s.out)
  /\ FitsStatement(f, s.call, s.in, s.out) /\ FitsMarks(f, H, s.call, s.in)
  /\ FitsScope(f, s.call, s.out, s.depth)

(* e is the height at the end of the code, for the call on top.            *)
TopOK(f, e, s) ==
  /\ s.call.at \notin Flexible => e = s.in
  /\ s.call.at \notin ExprCalls \cup Takers => e = Len(f.locals)
  /\ f.depth = s.depth + Sc(s.call)

Stack(f, H, r) == Arranged(r) /\ \A i \in 1 .. Len(r) : Fits(f, H, r[i])
Rest(f, H, r) == Arranged(r) /\ \A i \in 2 .. Len(r) : Fits(f, H, r[i])
HeldIn(r) == UNION {Holds(r[i].call) : i \in 1 .. Len(r)}
Matches(r, t) == Len(r) <= Len(t) /\ \A i \in 1 .. Len(r) : r[i].call = t[i]

(* The heights H of the code so far, with those of the calls in progress.  *)
Typing(f, H, O, e, r) ==
  /\ Typed(f) /\ Cert(f, H, O, e) /\ LocalsTo(f, 1, 0)
  /\ Stack(f, H, r) /\ TopOK(f, e, r[1]) /\ \A j \in O : j + 1 \in HeldIn(r)

TypedBy(f, t) == \E H, O, e, r : Typing(f, H, O, e, r) /\ Matches(r, t)

(* s on top of t.                                                          *)
On(s, t) == <<s>> \o t

(* The parts of a sequence with one more in front.                         *)
LEMMA OnIs ==
  ASSUME NEW S, NEW s \in S, NEW t \in Seq(S)
  PROVE  /\ On(s, t) \in Seq(S) /\ Len(t) \in Nat /\ Len(On(s, t)) = Len(t) + 1
         /\ On(s, t)[1] = s /\ On(s, t) # << >>
         /\ \A i \in 1 .. Len(t) : On(s, t)[i + 1] = t[i]
         /\ \A i \in 2 .. Len(t) + 1 : On(s, t)[i] = t[i - 1] /\ i - 1 \in 1 .. Len(t)
<1>. DEFINE a == <<s>>  b == a \o t
<1>1. a \in Seq(S) /\ Len(a) = 1 /\ a[1] = s /\ Len(t) \in Nat
  BY LenProperties
<1>. HIDE DEF a
<1>2. /\ b \in Seq(S) /\ Len(b) = Len(a) + Len(t)
      /\ \A i \in 1 .. Len(a) + Len(t) : b[i] = IF i <= Len(a) THEN a[i] ELSE t[i - Len(a)]
  BY <1>1, ConcatProperties
<1>. HIDE DEF b
<1>3. Len(b) = Len(t) + 1 /\ \A i \in 1 .. Len(t) + 1 : b[i] = IF i <= 1 THEN a[i] ELSE t[i - 1]
  BY <1>1, <1>2
<1>4. b[1] = s
  <2>1. 1 \in 1 .. Len(t) + 1
    BY <1>1
  <2>. QED
    BY <1>1, <1>3, <2>1
<1>5. \A i \in 2 .. Len(t) + 1 : b[i] = t[i - 1] /\ i - 1 \in 1 .. Len(t)
  BY <1>1, <1>3
<1>6. ASSUME NEW i \in 1 .. Len(t)
      PROVE  b[i + 1] = t[i]
  <2>. DEFINE k == i + 1
  <2>1. k \in 2 .. Len(t) + 1 /\ k - 1 = i
    BY <1>1
  <2>. HIDE DEF k
  <2>2. b[k] = t[i]
    BY <1>5, <2>1
  <2>. QED
    BY <2>2 DEF k
<1>7. b # << >>
  BY <1>1, <1>3, EmptySeq
<1>8. b = On(s, t)
  BY DEF On, a, b
<1>. QED
  BY <1>1, <1>2, <1>3, <1>4, <1>5, <1>6, <1>7, <1>8

(* With two more.                                                          *)
LEMMA TwoOn ==
  ASSUME NEW S, NEW a \in S, NEW b \in S, NEW t \in Seq(S)
  PROVE  <<a, b>> \o t = On(a, On(b, t))
<1>. DEFINE x == <<a>>  y == <<b>>  z == <<a, b>>
<1>1. x \in Seq(S) /\ y \in Seq(S) /\ z \in Seq(S)
  OBVIOUS
<1>2. x \o y = z
  <2>1. Len(x) = 1 /\ Len(y) = 1 /\ Len(z) = 2 /\ x[1] = a /\ y[1] = b /\ z[1] = a /\ z[2] = b
    OBVIOUS
  <2>. HIDE DEF x, y, z
  <2>2. On(a, y) = x \o y
    BY DEF On, x
  <2>3. x \o y \in Seq(S) /\ Len(x \o y) = 2 /\ (x \o y)[1] = a /\ (x \o y)[2] = b
    <3>0. y \in Seq(S)
      BY <1>1
    <3>1. /\ On(a, y) \in Seq(S) /\ Len(On(a, y)) = Len(y) + 1 /\ On(a, y)[1] = a
          /\ \A i \in 1 .. Len(y) : On(a, y)[i + 1] = y[i]
      BY <3>0, OnIs
    <3>2. 1 \in 1 .. 1 /\ 1 + 1 = 2
      OBVIOUS
    <3>. QED
      BY <2>1, <2>2, <3>1, <3>2
  <2>4. \A i \in 1 .. 2 : i = 1 \/ i = 2
    OBVIOUS
  <2>. DEFINE w == x \o y
  <2>5. w \in Seq(S) /\ Len(w) = 2 /\ \A i \in 1 .. 2 : w[i] = z[i]
    BY <2>1, <2>3, <2>4
  <2>. HIDE DEF w
  <2>6. w = z
    BY <1>1, <2>1, <2>5, SeqEqual
  <2>. QED
    BY <2>6 DEF w
<1>. HIDE DEF x, y, z
<1>3. (x \o y) \o t = x \o (y \o t)
  BY SMTT(30), <1>1, ConcatAssociative
<1>. QED
  BY <1>2, <1>3 DEF On, x, y, z

(* With three more.                                                        *)
LEMMA ThreeOn ==
  ASSUME NEW S, NEW a \in S, NEW b \in S, NEW d \in S, NEW t \in Seq(S)
  PROVE  <<a, b, d>> \o t = On(a, On(b, On(d, t)))
<1>. DEFINE x == <<a>>  y == <<b, d>>  z == <<a, b, d>>
<1>1. x \in Seq(S) /\ y \in Seq(S) /\ z \in Seq(S)
  OBVIOUS
<1>2. x \o y = z
  BY Joins
<1>3. y \o t = On(b, On(d, t))
  BY TwoOn
<1>. HIDE DEF x, y, z
<1>4. (x \o y) \o t = x \o (y \o t)
  BY SMTT(30), <1>1, ConcatAssociative
<1>. QED
  BY <1>2, <1>3, <1>4 DEF On, x, y, z
-----------------------------------------------------------------------------

(* The parts of a sequence without its first.                              *)
LEMMA TailIs ==
  ASSUME NEW S, NEW r \in Seq(S), Len(r) >= 1
  PROVE  /\ Tail(r) \in Seq(S) /\ Len(r) \in Nat /\ Len(Tail(r)) = Len(r) - 1
         /\ \A i \in 1 .. Len(r) - 1 : Tail(r)[i] = r[i + 1]
<1>1. r # << >> /\ Len(r) \in Nat
  BY EmptySeq, LenProperties
<1>. QED
  BY <1>1, HeadTailProperties

(* A call more.                                                            *)
LEMMA StackPush ==
  ASSUME NEW g, NEW K, NEW t, Stack(g, K, t), NEW s \in RecSet, s.call.at \notin Bases,
         Linked(s, t[1]), Fits(g, K, s)
  PROVE  /\ Stack(g, K, On(s, t)) /\ On(s, t)[1] = s
         /\ HeldIn(On(s, t)) = Holds(s.call) \cup HeldIn(t)
         /\ \A S, T : T \in Seq(S) /\ s.call \in S /\ Matches(t, T)
                        => Matches(On(s, t), On(s.call, T))
<1>. DEFINE r == On(s, t)  n == Len(t)
<1>1. /\ t \in Seq(RecSet) /\ n \in Nat /\ n >= 1
      /\ \A i \in 1 .. n - 1 : Linked(t[i], t[i + 1])
      /\ \A i \in 1 .. n :
           /\ t[i].call.at \in Bases <=> i = n
           /\ \A j \in 1 .. i - 1 : t[i].depth + Sc(t[i].call) <= t[j].depth
      /\ \A i \in 1 .. n : Fits(g, K, t[i])
  BY DEF Stack, Arranged
<1>2. /\ r \in Seq(RecSet) /\ Len(r) = n + 1 /\ r[1] = s
      /\ \A i \in 1 .. n : r[i + 1] = t[i]
      /\ \A i \in 2 .. n + 1 : r[i] = t[i - 1] /\ i - 1 \in 1 .. n
  <2>1. t \in Seq(RecSet)
    BY <1>1
  <2>2. /\ On(s, t) \in Seq(RecSet) /\ Len(On(s, t)) = Len(t) + 1 /\ On(s, t)[1] = s
        /\ \A i \in 1 .. Len(t) : On(s, t)[i + 1] = t[i]
        /\ \A i \in 2 .. Len(t) + 1 : On(s, t)[i] = t[i - 1] /\ i - 1 \in 1 .. Len(t)
    <3>. HIDE DEF n, r
    <3>1. On(s, t) \in Seq(RecSet) /\ Len(On(s, t)) = Len(t) + 1
      BY <2>1, OnIs
    <3>2. On(s, t)[1] = s
      BY <2>1, OnIs
    <3>3. \A i \in 1 .. Len(t) : On(s, t)[i + 1] = t[i]
      BY <2>1, OnIs
    <3>4. \A i \in 2 .. Len(t) + 1 : On(s, t)[i] = t[i - 1] /\ i - 1 \in 1 .. Len(t)
      BY <2>1, OnIs
    <3>. QED
      BY <3>1, <3>2, <3>3, <3>4
  <2>. QED
    BY <2>2
<1>. HIDE DEF r, n
<1>3. \A i \in 1 .. n + 1 : i = 1 \/ i \in 2 .. n + 1
  BY <1>1
<1>4. ASSUME NEW i \in 1 .. n
      PROVE  Linked(r[i], r[i + 1])
  <2>1. CASE i = 1
    BY <1>2, <2>1
  <2>2. CASE i # 1
    <3>1. i \in 2 .. n + 1 /\ i - 1 \in 1 .. n - 1 /\ i - 1 + 1 = i
      BY <1>1, <2>2
    <3>2. r[i] = t[i - 1] /\ r[i + 1] = t[i]
      BY <1>2, <3>1
    <3>. QED
      BY <1>1, <3>1, <3>2
  <2>. QED
    BY <2>1, <2>2
<1>5. ASSUME NEW i \in 1 .. n + 1
      PROVE  r[i].call.at \in Bases <=> i = n + 1
  <2>1. CASE i = 1
    BY <1>1, <1>2, <2>1
  <2>2. CASE i # 1
    <3>1. i \in 2 .. n + 1 /\ (i - 1 = n <=> i = n + 1)
      BY <1>1, <2>2
    <3>. QED
      BY <1>1, <1>2, <3>1
  <2>. QED
    BY <2>1, <2>2
<1>6. \A i \in 1 .. n : t[i].depth \in Nat /\ Sc(t[i].call) \in {0, 1}
  <2>1. \A x \in RecSet : x.depth \in Nat /\ Sc(x.call) \in {0, 1}
    BY DEF RecSet, Sc
  <2>2. \A i \in 1 .. n : t[i] \in RecSet
    BY <1>1, ElementOfSeq DEF n
  <2>. QED
    BY <2>1, <2>2
<1>7. \A i \in 1 .. n : t[i].depth + Sc(t[i].call) <= s.depth
  <2>. SUFFICES ASSUME NEW i \in 1 .. n
                PROVE  t[i].depth + Sc(t[i].call) <= s.depth
    OBVIOUS
  <2>1. 1 \in 1 .. n
    BY <1>1
  <2>2. s.depth = t[1].depth + Sc(t[1].call) /\ t[1].depth \in Nat /\ Sc(t[1].call) \in {0, 1}
    BY <1>6, <2>1 DEF Linked
  <2>3. CASE i = 1
    BY <2>2, <2>3
  <2>4. CASE i # 1
    <3>1. 1 \in 1 .. i - 1
      BY <1>1, <2>4
    <3>2. t[i].depth + Sc(t[i].call) <= t[1].depth
      BY <1>1, <3>1
    <3>. QED
      BY <1>6, <2>2, <3>2
  <2>. QED
    BY <2>3, <2>4
<1>8. ASSUME NEW i \in 1 .. n + 1, NEW j \in 1 .. i - 1
      PROVE  r[i].depth + Sc(r[i].call) <= r[j].depth
  <2>1. i \in 2 .. n + 1
    BY <1>1
  <2>2. r[i] = t[i - 1] /\ i - 1 \in 1 .. n
    BY <1>2, <2>1
  <2>3. CASE j = 1
    BY <1>2, <1>7, <2>2, <2>3
  <2>4. CASE j # 1
    <3>1. j \in 2 .. n + 1 /\ j - 1 \in 1 .. i - 1 - 1
      BY <1>1, <2>4
    <3>2. r[j] = t[j - 1]
      BY <1>2, <3>1
    <3>. QED
      BY <1>1, <2>2, <3>1, <3>2
  <2>. QED
    BY <2>3, <2>4
<1>9. Arranged(r)
  <2>1. Len(r) - 1 = n /\ Len(r) \in Nat /\ Len(r) >= 1
    BY <1>1, <1>2
  <2>. QED
    BY <1>2, <1>4, <1>5, <1>8, <2>1 DEF Arranged
<1>10. \A i \in 1 .. n + 1 : Fits(g, K, r[i])
  BY <1>1, <1>2, <1>3
<1>11. HeldIn(r) = Holds(s.call) \cup HeldIn(t)
  <2>1. \A i \in 1 .. n : i + 1 \in 1 .. n + 1
    BY <1>1
  <2>2. 1 \in 1 .. n + 1
    BY <1>1
  <2>3. ASSUME NEW x \in HeldIn(r)
        PROVE  x \in Holds(s.call) \cup HeldIn(t)
    <3>1. PICK i \in 1 .. n + 1 : x \in Holds(r[i].call)
      BY <1>2 DEF HeldIn
    <3>. QED
      BY <1>2, <1>3, <3>1 DEF HeldIn, n
  <2>4. ASSUME NEW x \in HeldIn(t)
        PROVE  x \in HeldIn(r)
    <3>1. PICK i \in 1 .. n : x \in Holds(t[i].call)
      BY DEF HeldIn, n
    <3>2. r[i + 1] = t[i] /\ i + 1 \in 1 .. n + 1
      BY <1>2, <2>1
    <3>. QED
      BY <1>2, <3>1, <3>2 DEF HeldIn
  <2>5. Holds(s.call) \subseteq HeldIn(r)
    BY <1>2, <2>2 DEF HeldIn
  <2>. QED
    BY <2>3, <2>4, <2>5
<1>12. ASSUME NEW S, NEW T, T \in Seq(S), s.call \in S, Matches(t, T)
       PROVE  Matches(r, On(s.call, T))
  <2>1. /\ Len(T) \in Nat /\ Len(On(s.call, T)) = Len(T) + 1 /\ On(s.call, T)[1] = s.call
        /\ \A i \in 2 .. Len(T) + 1 : On(s.call, T)[i] = T[i - 1]
    <3>. DEFINE c == s.call
    <3>1. c \in S /\ T \in Seq(S)
      BY <1>12
    <3>. HIDE DEF c
    <3>2. /\ Len(T) \in Nat /\ Len(On(c, T)) = Len(T) + 1 /\ On(c, T)[1] = c
          /\ \A i \in 2 .. Len(T) + 1 : On(c, T)[i] = T[i - 1]
      BY <3>1, OnIs
    <3>. QED
      BY <3>2 DEF c
  <2>2. n <= Len(T) /\ \A i \in 1 .. n : t[i].call = T[i]
    BY <1>12 DEF Matches, n
  <2>3. ASSUME NEW i \in 1 .. n + 1
        PROVE  r[i].call = On(s.call, T)[i]
    <3>1. i \in 2 .. n + 1 => i \in 2 .. Len(T) + 1
      BY <1>1, <2>1, <2>2
    <3>. QED
      BY <1>2, <1>3, <2>1, <2>2, <3>1
  <2>. QED
    BY <1>1, <1>2, <2>1, <2>2, <2>3 DEF Matches
<1>. QED
  BY <1>2, <1>9, <1>10, <1>11, <1>12 DEF Stack, r

(* The call on top goes on as another.                                     *)
LEMMA StackSwap ==
  ASSUME NEW g, NEW K, NEW r, Rest(g, K, r), NEW s \in RecSet,
         s.call.at \in Bases <=> r[1].call.at \in Bases,
         s.out = r[1].out, s.depth = r[1].depth, Fits(g, K, s)
  PROVE  /\ Stack(g, K, On(s, Tail(r))) /\ On(s, Tail(r))[1] = s
         /\ Holds(s.call) \subseteq HeldIn(On(s, Tail(r)))
         /\ HeldIn(r) \ Holds(r[1].call) \subseteq HeldIn(On(s, Tail(r)))
         /\ \A S, T : T \in Seq(S) /\ s.call \in S /\ Matches(r, T)
                        => Matches(On(s, Tail(r)), On(s.call, Tail(T)))
<1>. DEFINE t == On(s, Tail(r))  n == Len(r)
<1>1. /\ r \in Seq(RecSet) /\ n \in Nat /\ n >= 1
      /\ \A i \in 1 .. n - 1 : Linked(r[i], r[i + 1])
      /\ \A i \in 1 .. n :
           /\ r[i].call.at \in Bases <=> i = n
           /\ \A j \in 1 .. i - 1 : r[i].depth + Sc(r[i].call) <= r[j].depth
      /\ \A i \in 2 .. n : Fits(g, K, r[i])
  BY DEF Rest, Arranged
<1>2. /\ t \in Seq(RecSet) /\ Len(t) = n /\ t[1] = s
      /\ \A i \in 2 .. n : t[i] = r[i]
  <2>1. /\ Tail(r) \in Seq(RecSet) /\ Len(Tail(r)) = n - 1
        /\ \A i \in 1 .. n - 1 : Tail(r)[i] = r[i + 1]
    BY <1>1, TailIs
  <2>. DEFINE m == Tail(r)
  <2>2. /\ On(s, m) \in Seq(RecSet) /\ Len(On(s, m)) = Len(m) + 1 /\ On(s, m)[1] = s
        /\ \A i \in 2 .. Len(m) + 1 : On(s, m)[i] = m[i - 1]
    <3>1. m \in Seq(RecSet)
      BY <2>1
    <3>. HIDE DEF m
    <3>. QED
      BY <3>1, OnIs
  <2>. HIDE DEF m, n
  <2>3. Len(m) + 1 = n
    BY <1>1, <2>1 DEF m
  <2>4. ASSUME NEW i \in 2 .. n
        PROVE  On(s, m)[i] = r[i]
    <3>1. i - 1 \in 1 .. n - 1 /\ i - 1 + 1 = i
      BY <1>1
    <3>. QED
      BY <2>1, <2>2, <2>3, <3>1 DEF m
  <2>. QED
    BY <2>2, <2>3, <2>4 DEF m
<1>. HIDE DEF t, n
<1>3. /\ \A i \in 1 .. n : i = 1 \/ i \in 2 .. n
      /\ \A i \in 1 .. n - 1 : i + 1 \in 2 .. n
      /\ 1 \in 1 .. n
  BY <1>1
<1>4. ASSUME NEW i \in 1 .. n - 1
      PROVE  Linked(t[i], t[i + 1])
  <2>1. t[i + 1] = r[i + 1] /\ Linked(r[i], r[i + 1])
    BY <1>1, <1>2, <1>3
  <2>2. i = 1 \/ t[i] = r[i]
    <3>1. i \in 1 .. n
      BY <1>1
    <3>. QED
      BY <1>2, <1>3, <3>1
  <2>. QED
    BY <1>2, <2>1, <2>2 DEF Linked
<1>5. ASSUME NEW i \in 1 .. n
      PROVE  t[i].call.at \in Bases <=> i = n
  BY <1>1, <1>2, <1>3
<1>6. ASSUME NEW i \in 1 .. n, NEW j \in 1 .. i - 1
      PROVE  t[i].depth + Sc(t[i].call) <= t[j].depth
  <2>1. i \in 2 .. n /\ j \in 1 .. n
    BY <1>1
  <2>2. t[i] = r[i] /\ t[j].depth = r[j].depth
    BY <1>2, <1>3, <2>1
  <2>. QED
    BY <1>1, <2>2
<1>7. Arranged(t)
  BY <1>1, <1>2, <1>4, <1>5, <1>6 DEF Arranged
<1>8. \A i \in 1 .. n : Fits(g, K, t[i])
  BY <1>1, <1>2, <1>3
<1>9. Holds(s.call) \subseteq HeldIn(t)
  BY <1>2, <1>3 DEF HeldIn
<1>10. HeldIn(r) \ Holds(r[1].call) \subseteq HeldIn(t)
  <2>. SUFFICES ASSUME NEW x \in HeldIn(r), x \notin Holds(r[1].call)
                PROVE  x \in HeldIn(t)
    OBVIOUS
  <2>1. PICK i \in 1 .. n : x \in Holds(r[i].call)
    BY DEF HeldIn, n
  <2>2. t[i] = r[i]
    BY <1>2, <1>3, <2>1
  <2>. QED
    BY <1>2, <2>1, <2>2 DEF HeldIn
<1>11. ASSUME NEW S, NEW T, T \in Seq(S), s.call \in S, Matches(r, T)
       PROVE  Matches(t, On(s.call, Tail(T)))
  <2>1. n <= Len(T) /\ \A i \in 1 .. n : r[i].call = T[i]
    BY <1>11 DEF Matches, n
  <2>2. Len(T) \in Nat
    BY <1>11, LenProperties
  <2>3. /\ Tail(T) \in Seq(S) /\ Len(Tail(T)) = Len(T) - 1
        /\ \A i \in 1 .. Len(T) - 1 : Tail(T)[i] = T[i + 1]
    <3>1. Len(T) >= 1
      BY <1>1, <2>1, <2>2
    <3>. QED
      BY <1>11, <3>1, TailIs
  <2>. DEFINE m == Tail(T)  c == s.call
  <2>4. /\ Len(On(c, m)) = Len(m) + 1 /\ On(c, m)[1] = c
        /\ \A i \in 2 .. Len(m) + 1 : On(c, m)[i] = m[i - 1]
    <3>1. m \in Seq(S) /\ c \in S
      BY <1>11, <2>3
    <3>. HIDE DEF m, c
    <3>. QED
      BY <3>1, OnIs
  <2>. HIDE DEF m, c
  <2>5. Len(m) + 1 = Len(T)
    BY <2>2, <2>3 DEF m
  <2>6. ASSUME NEW i \in 1 .. n
        PROVE  t[i].call = On(c, m)[i]
    <3>1. CASE i = 1
      BY <1>2, <2>4, <3>1 DEF c
    <3>2. CASE i # 1
      <4>1. i \in 2 .. n /\ i \in 2 .. Len(T) /\ i - 1 \in 1 .. Len(T) - 1 /\ i - 1 + 1 = i
        BY <1>1, <2>1, <2>2, <3>2
      <4>2. On(c, m)[i] = T[i]
        BY <2>3, <2>4, <2>5, <4>1 DEF m
      <4>. QED
        BY <1>2, <2>1, <4>1, <4>2
    <3>. QED
      BY <3>1, <3>2
  <2>. QED
    BY <1>2, <2>1, <2>4, <2>5, <2>6 DEF Matches, m, c
<1>. QED
  BY <1>2, <1>7, <1>8, <1>9, <1>10, <1>11 DEF Stack, t

(* The call on top returns.                                                *)
LEMMA StackDrop ==
  ASSUME NEW g, NEW K, NEW r, Rest(g, K, r), r[1].call.at \notin Bases
  PROVE  /\ Stack(g, K, Tail(r)) /\ Tail(r)[1] = r[2] /\ Linked(r[1], r[2]) /\ Len(r) >= 2
         /\ HeldIn(r) \ Holds(r[1].call) \subseteq HeldIn(Tail(r))
         /\ \A S, T : T \in Seq(S) /\ Matches(r, T)
                        => Matches(Tail(r), Tail(T)) /\ r[2].call = T[2] /\ Len(T) >= 2
<1>. DEFINE t == Tail(r)  n == Len(r)
<1>1. /\ r \in Seq(RecSet) /\ n \in Nat /\ n >= 1
      /\ \A i \in 1 .. n - 1 : Linked(r[i], r[i + 1])
      /\ \A i \in 1 .. n :
           /\ r[i].call.at \in Bases <=> i = n
           /\ \A j \in 1 .. i - 1 : r[i].depth + Sc(r[i].call) <= r[j].depth
      /\ \A i \in 2 .. n : Fits(g, K, r[i])
  BY DEF Rest, Arranged
<1>2. t \in Seq(RecSet) /\ Len(t) = n - 1 /\ \A i \in 1 .. n - 1 : t[i] = r[i + 1]
  BY <1>1, TailIs
<1>. HIDE DEF t, n
<1>3. n >= 2 /\ 1 \in 1 .. n - 1 /\ 1 + 1 = 2
  <2>1. 1 \in 1 .. n
    BY <1>1
  <2>2. n # 1
    BY <1>1, <2>1
  <2>. QED
    BY <1>1, <2>2
<1>4. /\ \A i \in 1 .. n - 1 : i + 1 \in 2 .. n /\ i + 1 \in 1 .. n /\ (i + 1 = n <=> i = n - 1)
      /\ \A i \in 1 .. n - 1 - 1 : i \in 1 .. n - 1 /\ i + 1 \in 1 .. n - 1
      /\ \A i \in 1 .. n - 1 : \A j \in 1 .. i - 1 : j \in 1 .. n - 1 /\ j + 1 \in 1 .. i + 1 - 1
  BY <1>1
<1>5. Arranged(t)
  <2>1. \A i \in 1 .. n - 1 - 1 : Linked(t[i], t[i + 1])
    BY <1>1, <1>2, <1>4
  <2>2. ASSUME NEW i \in 1 .. n - 1
        PROVE  /\ t[i].call.at \in Bases <=> i = n - 1
               /\ \A j \in 1 .. i - 1 : t[i].depth + Sc(t[i].call) <= t[j].depth
    <3>1. t[i] = r[i + 1] /\ i + 1 \in 1 .. n /\ (i + 1 = n <=> i = n - 1)
      BY <1>2, <1>4
    <3>2. ASSUME NEW j \in 1 .. i - 1
          PROVE  t[i].depth + Sc(t[i].call) <= t[j].depth
      <4>1. j \in 1 .. n - 1 /\ j + 1 \in 1 .. i + 1 - 1
        BY <1>4
      <4>2. t[j] = r[j + 1]
        BY <1>2, <4>1
      <4>. QED
        BY <1>1, <3>1, <4>1, <4>2
    <3>. QED
      BY <1>1, <3>1, <3>2
  <2>3. n - 1 \in Nat /\ n - 1 >= 1
    BY <1>1, <1>3
  <2>. QED
    BY <1>2, <2>1, <2>2, <2>3 DEF Arranged
<1>6. \A i \in 1 .. n - 1 : Fits(g, K, t[i])
  BY <1>1, <1>2, <1>4
<1>7. HeldIn(r) \ Holds(r[1].call) \subseteq HeldIn(t)
  <2>. SUFFICES ASSUME NEW x \in HeldIn(r), x \notin Holds(r[1].call)
                PROVE  x \in HeldIn(t)
    OBVIOUS
  <2>1. PICK i \in 1 .. n : x \in Holds(r[i].call)
    BY DEF HeldIn, n
  <2>2. i - 1 \in 1 .. n - 1 /\ i - 1 + 1 = i
    BY <1>1, <2>1
  <2>3. t[i - 1] = r[i]
    BY <1>2, <2>2
  <2>. QED
    BY <1>2, <2>1, <2>2, <2>3 DEF HeldIn
<1>8. ASSUME NEW S, NEW T, T \in Seq(S), Matches(r, T)
      PROVE  Matches(t, Tail(T)) /\ r[2].call = T[2] /\ Len(T) >= 2
  <2>1. n <= Len(T) /\ \A i \in 1 .. n : r[i].call = T[i]
    BY <1>8 DEF Matches, n
  <2>2. Len(T) \in Nat /\ Len(T) >= 1
    BY <1>1, <1>8, <2>1, LenProperties
  <2>3. /\ Len(Tail(T)) = Len(T) - 1
        /\ \A i \in 1 .. Len(T) - 1 : Tail(T)[i] = T[i + 1]
    BY <1>8, <2>2, TailIs
  <2>4. \A i \in 1 .. n - 1 : i \in 1 .. Len(T) - 1
    BY <1>1, <2>1, <2>2
  <2>5. \A i \in 1 .. n - 1 : t[i].call = Tail(T)[i]
    BY <1>2, <1>4, <2>1, <2>3, <2>4
  <2>6. n - 1 <= Len(T) - 1 /\ Len(T) >= 2
    BY <1>1, <1>3, <2>1, <2>2
  <2>7. 2 \in 1 .. n
    BY <1>1, <1>3
  <2>. QED
    BY <1>2, <2>1, <2>3, <2>5, <2>6, <2>7 DEF Matches
<1>9. t[1] = r[2] /\ Linked(r[1], r[2])
  BY <1>1, <1>2, <1>3
<1>. QED
  BY <1>2, <1>3, <1>5, <1>6, <1>7, <1>8, <1>9 DEF Stack, t, n

(* g goes on from f: what H says of f is so of g.                          *)
Onto(f, H, g, K) ==
  /\ H \subseteq K /\ Extends(f, g) /\ g.type = f.type
  /\ \A s \in H : s[1] < Len(f.code) => ByteAt(g, s[1]) = ByteAt(f, s[1])

(* The constant of a name stays one.                                       *)
LEMMA NameStays ==
  ASSUME NEW f, NEW g, Typed(f), Typed(g), Extends(f, g), NEW k, IsName(f, k)
  PROVE  IsName(g, k)
<1>1. k \in 0 .. Len(f.consts) - 1 /\ Len(f.consts) <= Len(g.consts)
      /\ Len(f.consts) \in Nat /\ Len(g.consts) \in Nat
  BY DEF IsName, HasConstant, Extends, Typed
<1>2. k \in 0 .. Len(g.consts) - 1 /\ k + 1 \in 1 .. Len(f.consts)
  BY <1>1
<1>3. g.consts[k + 1] = f.consts[k + 1]
  BY <1>2 DEF Extends
<1>. QED
  BY <1>2, <1>3 DEF IsName, HasConstant, ConstantAt

(* A function goes on from itself.                                         *)
LEMMA OntoSelf ==
  ASSUME NEW f, Typed(f), NEW H
  PROVE  Onto(f, H, f, H)
BY DEF Onto, Extends, Typed

(* It goes on twice.                                                       *)
LEMMA OntoTrans ==
  ASSUME NEW f, NEW g, NEW h, NEW H, NEW K, NEW L, Typed(f), Typed(g), Typed(h),
         Onto(f, H, g, K), Onto(g, K, h, L), \A s \in H : s[1] \in Int
  PROVE  Onto(f, H, h, L)
<1>1. /\ Len(f.code) \in Nat /\ Len(g.code) \in Nat /\ Len(h.code) \in Nat
      /\ Len(f.consts) \in Nat /\ Len(g.consts) \in Nat /\ Len(h.consts) \in Nat
      /\ Len(f.code) <= Len(g.code) /\ Len(g.code) <= Len(h.code)
      /\ Len(f.consts) <= Len(g.consts) /\ Len(g.consts) <= Len(h.consts)
  BY DEF Typed, Onto, Extends
<1>2. Extends(f, h)
  <2>1. \A k \in 1 .. Len(f.consts) : k \in 1 .. Len(g.consts)
    BY <1>1
  <2>2. \A k \in 1 .. Len(f.consts) : h.consts[k] = f.consts[k]
    BY <2>1 DEF Onto, Extends
  <2>3. Len(f.code) <= Len(h.code) /\ Len(f.consts) <= Len(h.consts)
    BY <1>1
  <2>. QED
    BY <2>2, <2>3 DEF Extends
<1>3. ASSUME NEW s \in H, s[1] < Len(f.code)
      PROVE  ByteAt(h, s[1]) = ByteAt(f, s[1])
  <2>1. s \in K /\ s[1] < Len(g.code)
    BY <1>1, <1>3 DEF Onto
  <2>. QED
    BY <1>3, <2>1 DEF Onto
<1>. QED
  BY <1>2, <1>3 DEF Onto

(* A jump that waits still does.                                           *)
LEMMA HoleStays ==
  ASSUME NEW f, NEW g, NEW H, NEW K, Typed(f), Typed(g), Onto(f, H, g, K), NEW j \in Int, NEW h,
         Hole(f, H, j, h)
  PROVE  Hole(g, K, j, h)
<1>. DEFINE i == j - 1  s == <<i, h>>
<1>1. s \in H /\ i < Len(f.code) /\ OpAt(f, i) \in {"JMP", "JMP_FALSE"} /\ i \in Int
  BY DEF Hole
<1>2. s[1] = i
  OBVIOUS
<1>. HIDE DEF i, s
<1>3. s \in K /\ ByteAt(g, i) = ByteAt(f, i)
  BY <1>1, <1>2 DEF Onto
<1>4. i < Len(g.code)
  BY <1>1 DEF Onto, Extends, Typed
<1>5. OpAt(g, i) = OpAt(f, i)
  BY <1>3 DEF OpAt
<1>. QED
  BY <1>1, <1>3, <1>4, <1>5 DEF Hole, i, s

(* The places in the code that a call holds are where they were.           *)
LEMMA MarksStay ==
  ASSUME NEW f, NEW g, NEW H, NEW K, Typed(f), Typed(g), Onto(f, H, g, K),
         NEW c \in Calls, NEW u \in Nat, FitsMarks(f, H, c, u)
  PROVE  FitsMarks(g, K, c, u)
<1>1. /\ H \subseteq K /\ Len(f.code) <= Len(g.code) /\ Len(f.code) \in Nat /\ Len(g.code) \in Nat
  BY DEF Onto, Extends, Typed
<1>2. /\ c.at \in {"if_else", "if_end", "for_step"} => c.jump \in Int
      /\ c.at \in {"loop_end", "for_increment", "for_step"} => c.exit \in Int
      /\ c.at \in {"while_body", "for_exit", "loop_end", "for_increment", "for_step"} => c.start \in Int
      /\ c.at = "for_step" => c.increment \in Int
  BY DEF Calls, PlainCalls, PrefixCalls, InFunction
<1>3. \A j \in Int : \A h : Hole(f, H, j, h) => Hole(g, K, j, h)
  BY HoleStays
<1>4. \A k \in Int : k <= Len(f.code) => k <= Len(g.code)
  BY <1>1
<1>5. CASE c.at = "if_else"
  BY <1>2, <1>3, <1>5 DEF FitsMarks
<1>6. CASE c.at = "if_end"
  BY <1>2, <1>3, <1>6 DEF FitsMarks
<1>7. CASE c.at \in {"while_body", "for_exit"}
  BY <1>1, <1>2, <1>4, <1>7 DEF FitsMarks
<1>8. CASE c.at \in {"loop_end", "for_increment"}
  BY <1>1, <1>2, <1>3, <1>4, <1>8 DEF FitsMarks
<1>9. CASE c.at = "for_step"
  BY <1>1, <1>2, <1>3, <1>4, <1>9 DEF FitsMarks
<1>. QED
  BY <1>5, <1>6, <1>7, <1>8, <1>9 DEF FitsMarks

(* A call in progress below has what it had.                               *)
LEMMA FitsStays ==
  ASSUME NEW f, NEW g, NEW H, NEW K, Typed(f), Typed(g), Onto(f, H, g, K), Level(f, g),
         NEW s \in RecSet, Fits(f, H, s)
  PROVE  Fits(g, K, s)
<1>. DEFINE c == s.call  u == s.in  w == s.out  d == s.depth
<1>1. c \in Calls /\ u \in Nat
  BY DEF RecSet
<1>2. /\ FitsExpression(f, c, u, w) /\ FitsFinish(f, c, u, w) /\ FitsStatement(f, c, u, w)
      /\ FitsMarks(f, H, c, u) /\ FitsScope(f, c, w, d)
  BY DEF Fits
<1>. HIDE DEF c, u, w, d
<1>3. Slots(g) = Slots(f) /\ g.locals = f.locals /\ g.depth = f.depth /\ g.type = f.type
  BY DEF Slots, Level, Onto
<1>4. \A k : IsName(f, k) => IsName(g, k)
  BY NameStays DEF Onto
<1>5. FitsExpression(g, c, u, w)
  BY <1>2, <1>3 DEF FitsExpression
<1>6. FitsFinish(g, c, u, w)
  BY <1>2, <1>3, <1>4 DEF FitsFinish
<1>7. FitsStatement(g, c, u, w)
  BY <1>2, <1>3, <1>4 DEF FitsStatement
<1>8. FitsMarks(g, K, c, u)
  BY <1>1, <1>2, MarksStay
<1>9. FitsScope(g, c, w, d)
  BY <1>2, <1>3 DEF FitsScope, LocalsTo
<1>. QED
  BY <1>5, <1>6, <1>7, <1>8, <1>9 DEF Fits, c, u, w, d

(* The scopes may change while no call waits for a value.                  *)
LEMMA FitsScoped ==
  ASSUME NEW f, NEW g, NEW H, NEW K, Typed(f), Typed(g), Onto(f, H, g, K),
         NEW s \in RecSet, Fits(f, H, s), s.call.at \notin ExprCalls \cup Takers,
         s.call.at \in Scoped => LocalsTo(g, s.out, s.depth)
  PROVE  Fits(g, K, s)
<1>. DEFINE c == s.call  u == s.in  w == s.out  d == s.depth
<1>1. c \in Calls /\ u \in Nat
  BY DEF RecSet
<1>2. /\ FitsExpression(f, c, u, w) /\ FitsFinish(f, c, u, w) /\ FitsStatement(f, c, u, w)
      /\ FitsMarks(f, H, c, u) /\ FitsScope(f, c, w, d)
  BY DEF Fits
<1>. HIDE DEF c, u, w, d
<1>3. c.at \notin ExprCalls \cup Takers /\ (c.at \in Scoped => LocalsTo(g, w, d))
  BY DEF c, w, d
<1>4. FitsExpression(g, c, u, w)
  BY <1>3 DEF FitsExpression, ExprCalls, Immediate
<1>5. FitsFinish(g, c, u, w)
  BY <1>3 DEF FitsFinish, ExprCalls
<1>6. FitsStatement(g, c, u, w)
  BY <1>2, <1>3 DEF FitsStatement, Takers
<1>7. FitsMarks(g, K, c, u)
  BY <1>1, <1>2, MarksStay
<1>8. FitsScope(g, c, w, d)
  BY <1>2, <1>3 DEF FitsScope, Onto
<1>. QED
  BY <1>4, <1>5, <1>6, <1>7, <1>8 DEF Fits, c, u, w, d
-----------------------------------------------------------------------------
(* Once an expression waits for nothing, nor does what is below.           *)
LEMMA BelowIsCalm ==
  ASSUME CompilerInv, TextInv, todo # << >>, Top.at \notin ExprCalls
  PROVE  \A i \in 2 .. Len(todo) : todo[i].at \notin ExprCalls \cup Takers
<1>1. Len(todo) \in Nat /\ Len(todo) >= 1 /\ Top = todo[1]
  BY TopReads
<1>2. SUFFICES ASSUME NEW i \in 2 .. Len(todo)
               PROVE  todo[i].at \notin ExprCalls \cup Takers
  OBVIOUS
<1>3. todo[i].at \notin Takers
  <2>1. i \in 1 .. Len(todo) /\ 1 \in 1 .. i - 1
    BY <1>1
  <2>. QED
    BY <1>1, <2>1 DEF TextInv, StackOK
<1>4. todo[i].at \notin ExprCalls
  <2>. DEFINE h == Len(todo) + 1 - i  L == Len(todo)
  <2>1. h \in 1 .. L /\ L \in h + 1 .. L /\ L + 1 - h = i /\ L + 1 - L = 1
    BY <1>1
  <2>. HIDE DEF h
  <2>2. CallAt(h) = todo[i] /\ CallAt(L) = todo[1]
    BY <2>1 DEF CallAt
  <2>. QED
    BY <1>1, <2>1, <2>2 DEF CompilerInv, TodoOK
<1>. QED
  BY <1>3, <1>4

(* The record of the call on top.                                          *)
LEMMA TopRec ==
  ASSUME NEW f, NEW H, NEW O, NEW e, NEW r, Typing(f, H, O, e, r), Matches(r, todo), todo # << >>
  PROVE  r[1].call = Top /\ r[1].in \in Nat /\ r[1].out \in Nat /\ r[1].depth \in Nat
<1>1. Arranged(r)
  BY DEF Typing, Stack
<1>2. r \in Seq(RecSet) /\ Len(r) \in Nat /\ Len(r) >= 1
  BY <1>1 DEF Arranged
<1>3. 1 \in 1 .. Len(r) /\ r[1] \in RecSet
  BY <1>2, ElementOfSeq
<1>4. r[1].call = todo[1] /\ todo[1] = Top
  BY <1>3 DEF Matches, Top
<1>. QED
  BY <1>3, <1>4 DEF RecSet

(* The records, each of a call that fits.                                  *)
LEMMA RecsAre ==
  ASSUME NEW f, NEW H, NEW O, NEW e, NEW r, Typing(f, H, O, e, r)
  PROVE  /\ Typed(f) /\ Arranged(r)
         /\ \A i \in 1 .. Len(r) : r[i] \in RecSet /\ Fits(f, H, r[i])
         /\ \A i \in 2 .. Len(r) : i \in 1 .. Len(r)
<1>1. Typed(f) /\ Arranged(r) /\ \A i \in 1 .. Len(r) : Fits(f, H, r[i])
  BY DEF Typing, Stack
<1>2. r \in Seq(RecSet) /\ Len(r) \in Nat
  BY <1>1 DEF Arranged
<1>3. \A i \in 1 .. Len(r) : r[i] \in RecSet
  BY <1>2, ElementOfSeq
<1>4. \A i \in 2 .. Len(r) : i \in 1 .. Len(r)
  BY <1>2
<1>. QED
  BY <1>1, <1>3, <1>4

(* The records of the calls below, in scopes no deeper.                    *)
LEMMA BelowRecs ==
  ASSUME NEW f, NEW H, NEW O, NEW e, NEW r, Typing(f, H, O, e, r), Matches(r, todo), todo # << >>
  PROVE  \A i \in 2 .. Len(r) : /\ r[i].depth + Sc(r[i].call) <= r[1].depth
                                /\ i \in 2 .. Len(todo) /\ r[i].call = todo[i]
<1>1. Arranged(r)
  BY DEF Typing, Stack
<1>2. Len(r) \in Nat
  BY <1>1 DEF Arranged
<1>3. Len(r) <= Len(todo)
  BY DEF Matches
<1>4. SUFFICES ASSUME NEW i \in 2 .. Len(r)
               PROVE  /\ r[i].depth + Sc(r[i].call) <= r[1].depth
                      /\ i \in 2 .. Len(todo) /\ r[i].call = todo[i]
  OBVIOUS
<1>5. i \in 1 .. Len(r) /\ 1 \in 1 .. i - 1
  BY <1>2
<1>6. i \in 2 .. Len(todo)
  BY <1>2, <1>3
<1>. QED
  BY <1>1, <1>5, <1>6 DEF Arranged, Matches

(* The calls below fit the function that goes on.                          *)
LEMMA RestSame ==
  ASSUME NEW f, NEW H, NEW O, NEW e, NEW r, Typing(f, H, O, e, r), Matches(r, todo), todo # << >>,
         NEW g, NEW K, Typed(g), Onto(f, H, g, K), Level(f, g)
  PROVE  Rest(g, K, r) /\ LocalsTo(g, 1, 0)
<1>1. /\ Typed(f) /\ Arranged(r)
      /\ \A i \in 1 .. Len(r) : r[i] \in RecSet /\ Fits(f, H, r[i])
      /\ \A i \in 2 .. Len(r) : i \in 1 .. Len(r)
  BY RecsAre
<1>2. \A i \in 2 .. Len(r) : Fits(g, K, r[i])
  BY <1>1, FitsStays
<1>. QED
  BY <1>1, <1>2 DEF Rest, Typing, LocalsTo, Level

(* They do when its scopes change further in.                              *)
LEMMA RestScoped ==
  ASSUME CompilerInv, TextInv, Top.at \notin ExprCalls,
         NEW f, NEW H, NEW O, NEW e, NEW r, Typing(f, H, O, e, r), Matches(r, todo), todo # << >>,
         NEW g, NEW K, Typed(g), Onto(f, H, g, K),
         \A n, x \in Nat : (LocalsTo(f, n, x) /\ x < r[1].depth) => LocalsTo(g, n, x)
  PROVE  Rest(g, K, r)
<1>0. r[1].depth \in Nat
  BY TopRec
<1>1. /\ Typed(f) /\ Arranged(r)
      /\ \A i \in 1 .. Len(r) : r[i] \in RecSet /\ Fits(f, H, r[i])
      /\ \A i \in 2 .. Len(r) : i \in 1 .. Len(r)
  BY RecsAre
<1>3. \A i \in 2 .. Len(r) : /\ r[i].depth + Sc(r[i].call) <= r[1].depth
                              /\ i \in 2 .. Len(todo) /\ r[i].call = todo[i]
  BY BelowRecs
<1>2. ASSUME NEW i \in 2 .. Len(r)
      PROVE  Fits(g, K, r[i])
  <2>1. r[i].call.at \notin ExprCalls \cup Takers
    BY <1>3, BelowIsCalm
  <2>2. ASSUME r[i].call.at \in Scoped
        PROVE  LocalsTo(g, r[i].out, r[i].depth)
    <3>1. r[i].out \in Nat /\ r[i].depth \in Nat
      BY <1>1 DEF RecSet
    <3>2. LocalsTo(f, r[i].out, r[i].depth)
      BY <1>1, <2>2 DEF Fits, FitsScope
    <3>3. Sc(r[i].call) = 1
      BY <2>2 DEF Sc
    <3>4. r[i].depth < r[1].depth
      BY <1>0, <1>3, <3>1, <3>3
    <3>. QED
      BY <3>1, <3>2, <3>4
  <2>. QED
    BY <1>1, <2>1, <2>2, FitsScoped
<1>. QED
  BY <1>1, <1>2 DEF Rest
-----------------------------------------------------------------------------
(* The call on top goes on.                                                *)

Going(f, H, O, e, r, g, K, Q, x) ==
  /\ Typing(f, H, O, e, r) /\ Matches(r, todo) /\ todo \in Seq(Calls) /\ todo # << >>
  /\ Typed(g) /\ Cert(g, K, Q, x) /\ LocalsTo(g, 1, 0) /\ Rest(g, K, r)

(* The jumps that wait are those of the new calls, or were there.          *)
Held(Q, O, N) == \A j \in Q : j + 1 \in N \/ (j \in O /\ j + 1 \notin Holds(Top))

(* The call on top returns.                                                *)
LEMMA TypedZero ==
  ASSUME CompilerInv, TextInv,
         NEW f, NEW H, NEW O, NEW e, NEW r, NEW g, NEW K, NEW Q, NEW x,
         Going(f, H, O, e, r, g, K, Q, x), Top.at \notin Bases,
         Gives(Top) \/ Top.at \in Bodied => x = r[1].out,
         ~ Gives(Top) => x = Len(g.locals), g.depth = r[1].depth,
         Held(Q, O, {})
  PROVE  TypedBy(g, Tail(todo))
<1>1. /\ Typing(f, H, O, e, r) /\ Matches(r, todo) /\ todo \in Seq(Calls) /\ todo # << >>
      /\ Typed(g) /\ Cert(g, K, Q, x) /\ LocalsTo(g, 1, 0) /\ Rest(g, K, r)
  BY DEF Going
<1>2. r[1].call = Top
  BY <1>1, TopRec
<1>. DEFINE t == Tail(r)
<1>3. /\ Stack(g, K, t) /\ t[1] = r[2] /\ Linked(r[1], r[2]) /\ Len(r) >= 2
      /\ HeldIn(r) \ Holds(Top) \subseteq HeldIn(t)
      /\ Matches(t, Tail(todo)) /\ r[2].call = todo[2] /\ Len(todo) >= 2
  BY <1>1, <1>2, StackDrop
<1>. HIDE DEF t
<1>4. Over(Top, todo[2])
  <2>1. Len(todo) \in Nat /\ Top = todo[1]
    BY <1>1, TopReads
  <2>2. 1 \in 1 .. Len(todo) - 1 /\ 1 + 1 = 2
    BY <1>3, <2>1
  <2>. QED
    BY <2>1, <2>2 DEF TextInv, StackOK
<1>5. TopOK(g, x, t[1])
  <2>1. todo[2].at \notin Flexible => x = r[2].in
    <3>1. todo[2].at \notin Flexible => todo[2].at \in Takers \cup Branches
      BY <1>4 DEF Over, Waiting, Flexible, Bases, InFunction, Branches
    <3>. QED
      BY <1>3, <1>4, <3>1 DEF Over, Linked
  <2>2. todo[2].at \notin ExprCalls \cup Takers => x = Len(g.locals)
    BY <1>4 DEF Over
  <2>3. g.depth = r[2].depth + Sc(r[2].call)
    BY <1>3 DEF Linked
  <2>. QED
    BY <1>3, <2>1, <2>2, <2>3 DEF TopOK
<1>6. \A j \in Q : j + 1 \in HeldIn(t)
  BY <1>1, <1>3 DEF Held, Typing
<1>7. Typing(g, K, Q, x, t)
  BY <1>1, <1>3, <1>5, <1>6 DEF Typing
<1>. QED
  BY <1>3, <1>7 DEF TypedBy

(* It goes on as one.                                                      *)
LEMMA TypedOne ==
  ASSUME NEW f, NEW H, NEW O, NEW e, NEW r, NEW g, NEW K, NEW Q, NEW x,
         Going(f, H, O, e, r, g, K, Q, x), NEW c \in Calls, NEW u \in Nat,
         NEW s, s = Rec(c, u, r[1].out, r[1].depth), Fits(g, K, s), TopOK(g, x, s),
         c.at \in Bases <=> Top.at \in Bases, Held(Q, O, Holds(c))
  PROVE  TypedBy(g, <<c>> \o Tail(todo))
<1>1. /\ Typing(f, H, O, e, r) /\ Matches(r, todo) /\ todo \in Seq(Calls) /\ todo # << >>
      /\ Typed(g) /\ Cert(g, K, Q, x) /\ LocalsTo(g, 1, 0) /\ Rest(g, K, r)
  BY DEF Going
<1>2. r[1].call = Top /\ r[1].out \in Nat /\ r[1].depth \in Nat
  BY <1>1, TopRec
<1>3. s \in RecSet /\ s.call = c /\ s.out = r[1].out /\ s.depth = r[1].depth
  BY <1>2 DEF Rec, RecSet
<1>. DEFINE t == On(s, Tail(r))  T == On(c, Tail(todo))
<1>4. /\ Stack(g, K, t) /\ t[1] = s /\ Holds(c) \subseteq HeldIn(t)
      /\ HeldIn(r) \ Holds(Top) \subseteq HeldIn(t) /\ Matches(t, T)
  BY <1>1, <1>2, <1>3, StackSwap
<1>. HIDE DEF t
<1>5. \A j \in Q : j + 1 \in HeldIn(t)
  BY <1>1, <1>4 DEF Held, Typing
<1>6. Typing(g, K, Q, x, t)
  BY <1>1, <1>4, <1>5 DEF Typing
<1>7. T = <<c>> \o Tail(todo)
  BY DEF On
<1>. HIDE DEF T
<1>8. TypedBy(g, T)
  BY <1>4, <1>6 DEF TypedBy
<1>. QED
  BY <1>7, <1>8

(* It makes one call, and goes on as another.                              *)
LEMMA TypedTwo ==
  ASSUME NEW f, NEW H, NEW O, NEW e, NEW r, NEW g, NEW K, NEW Q, NEW x,
         Going(f, H, O, e, r, g, K, Q, x),
         NEW c \in Calls, NEW u \in Nat, NEW w \in Nat,
         NEW a \in Calls, NEW v \in Nat,
         NEW s, s = Rec(a, v, r[1].out, r[1].depth), Fits(g, K, s),
         NEW p, p = Rec(c, u, w, r[1].depth + Sc(a)), Fits(g, K, p), TopOK(g, x, p),
         a.at \notin Flexible => w = v, c.at \notin Bases,
         a.at \in Bases <=> Top.at \in Bases, Held(Q, O, Holds(a) \cup Holds(c))
  PROVE  TypedBy(g, <<c, a>> \o Tail(todo))
<1>1. /\ Typing(f, H, O, e, r) /\ Matches(r, todo) /\ todo \in Seq(Calls) /\ todo # << >>
      /\ Typed(g) /\ Cert(g, K, Q, x) /\ LocalsTo(g, 1, 0) /\ Rest(g, K, r)
  BY DEF Going
<1>2. r[1].call = Top /\ r[1].out \in Nat /\ r[1].depth \in Nat
  BY <1>1, TopRec
<1>3. s \in RecSet /\ s.call = a /\ s.in = v /\ s.out = r[1].out /\ s.depth = r[1].depth
  BY <1>2 DEF Rec, RecSet
<1>4. Sc(a) \in Nat
  BY DEF Sc
<1>5. p \in RecSet /\ p.call = c /\ Linked(p, s)
  <2>1. r[1].depth + Sc(a) \in Nat
    BY <1>2, <1>4
  <2>. DEFINE y == r[1].depth + Sc(a)
  <2>. HIDE DEF y
  <2>2. y \in Nat /\ p = Rec(c, u, w, y)
    BY <2>1 DEF y
  <2>3. p \in RecSet /\ p.call = c /\ p.out = w /\ p.depth = y
    BY <2>2 DEF Rec, RecSet
  <2>. QED
    BY <1>3, <2>3 DEF Linked, y
<1>. DEFINE t == On(s, Tail(r))  T == On(a, Tail(todo))
<1>6. /\ Stack(g, K, t) /\ t[1] = s /\ Holds(a) \subseteq HeldIn(t)
      /\ HeldIn(r) \ Holds(Top) \subseteq HeldIn(t) /\ Matches(t, T)
  BY <1>1, <1>2, <1>3, StackSwap
<1>7. Tail(todo) \in Seq(Calls)
  BY <1>1, HeadTailProperties
<1>8. T \in Seq(Calls)
  BY <1>7, OnIs
<1>. HIDE DEF t, T
<1>. DEFINE n == On(p, t)  N == On(c, T)
<1>9. /\ Stack(g, K, n) /\ n[1] = p /\ HeldIn(n) = Holds(c) \cup HeldIn(t)
      /\ Matches(n, N)
  BY <1>5, <1>6, <1>8, StackPush
<1>10. N = <<c, a>> \o Tail(todo)
  <2>. DEFINE z == Tail(todo)
  <2>1. z \in Seq(Calls) /\ N = On(c, On(a, z))
    BY <1>7 DEF T
  <2>. HIDE DEF z, N
  <2>2. <<c, a>> \o z = On(c, On(a, z))
    BY <2>1, TwoOn
  <2>. QED
    BY <2>1, <2>2 DEF z
<1>. HIDE DEF n, N
<1>11. \A j \in Q : j + 1 \in HeldIn(n)
  BY <1>1, <1>6, <1>9 DEF Held, Typing
<1>12. Typing(g, K, Q, x, n)
  BY <1>1, <1>9, <1>11 DEF Typing
<1>13. TypedBy(g, N)
  BY <1>9, <1>12 DEF TypedBy
<1>. QED
  BY <1>10, <1>13

(* It makes two, and goes on as a third.                                   *)
LEMMA TypedThree ==
  ASSUME NEW f, NEW H, NEW O, NEW e, NEW r, NEW g, NEW K, NEW Q, NEW x,
         Going(f, H, O, e, r, g, K, Q, x),
         NEW b \in Calls, NEW k \in Nat, NEW l \in Nat,
         NEW c \in Calls, NEW u \in Nat, NEW w \in Nat,
         NEW a \in Calls, NEW v \in Nat,
         NEW s, s = Rec(a, v, r[1].out, r[1].depth), Fits(g, K, s),
         NEW p, p = Rec(c, u, w, r[1].depth + Sc(a)), Fits(g, K, p),
         NEW q, q = Rec(b, k, l, r[1].depth + Sc(a) + Sc(c)), Fits(g, K, q), TopOK(g, x, q),
         a.at \notin Flexible => w = v, c.at \notin Flexible => l = u,
         c.at \notin Bases, b.at \notin Bases,
         a.at \in Bases <=> Top.at \in Bases,
         Held(Q, O, Holds(a) \cup Holds(c) \cup Holds(b))
  PROVE  TypedBy(g, <<b, c, a>> \o Tail(todo))
<1>1. /\ Typing(f, H, O, e, r) /\ Matches(r, todo) /\ todo \in Seq(Calls) /\ todo # << >>
      /\ Typed(g) /\ Cert(g, K, Q, x) /\ LocalsTo(g, 1, 0) /\ Rest(g, K, r)
  BY DEF Going
<1>2. r[1].call = Top /\ r[1].out \in Nat /\ r[1].depth \in Nat
  BY <1>1, TopRec
<1>3. s \in RecSet /\ s.call = a /\ s.in = v /\ s.out = r[1].out /\ s.depth = r[1].depth
  BY <1>2 DEF Rec, RecSet
<1>4. Sc(a) \in Nat /\ Sc(c) \in Nat
  BY DEF Sc
<1>5. p \in RecSet /\ p.call = c /\ p.in = u /\ Linked(p, s) /\ p.depth = r[1].depth + Sc(a)
  <2>. DEFINE y == r[1].depth + Sc(a)
  <2>1. y \in Nat
    BY <1>2, <1>4
  <2>. HIDE DEF y
  <2>2. y \in Nat /\ p = Rec(c, u, w, y)
    BY <2>1 DEF y
  <2>3. p \in RecSet /\ p.call = c /\ p.in = u /\ p.out = w /\ p.depth = y
    BY <2>2 DEF Rec, RecSet
  <2>. QED
    BY <1>3, <2>3 DEF Linked, y
<1>6. q \in RecSet /\ q.call = b /\ Linked(q, p)
  <2>. DEFINE y == r[1].depth + Sc(a) + Sc(c)
  <2>1. y \in Nat
    BY <1>2, <1>4
  <2>. HIDE DEF y
  <2>2. y \in Nat /\ q = Rec(b, k, l, y)
    BY <2>1 DEF y
  <2>3. q \in RecSet /\ q.call = b /\ q.out = l /\ q.depth = y
    BY <2>2 DEF Rec, RecSet
  <2>. QED
    BY <1>5, <2>3 DEF Linked, y
<1>. DEFINE t == On(s, Tail(r))  T == On(a, Tail(todo))
<1>7. /\ Stack(g, K, t) /\ t[1] = s /\ Holds(a) \subseteq HeldIn(t)
      /\ HeldIn(r) \ Holds(Top) \subseteq HeldIn(t) /\ Matches(t, T)
  BY <1>1, <1>2, <1>3, StackSwap
<1>8. Tail(todo) \in Seq(Calls)
  BY <1>1, HeadTailProperties
<1>9. T \in Seq(Calls)
  BY <1>8, OnIs
<1>. HIDE DEF t, T
<1>. DEFINE n == On(p, t)  N == On(c, T)
<1>10. /\ Stack(g, K, n) /\ n[1] = p /\ HeldIn(n) = Holds(c) \cup HeldIn(t)
       /\ Matches(n, N)
  BY <1>5, <1>7, <1>9, StackPush
<1>11. N \in Seq(Calls)
  BY <1>9, OnIs
<1>. HIDE DEF n, N
<1>. DEFINE m == On(q, n)  M == On(b, N)
<1>12. /\ Stack(g, K, m) /\ m[1] = q /\ HeldIn(m) = Holds(b) \cup HeldIn(n)
       /\ Matches(m, M)
  BY <1>6, <1>10, <1>11, StackPush
<1>13. M = <<b, c, a>> \o Tail(todo)
  <2>. DEFINE z == Tail(todo)
  <2>1. z \in Seq(Calls) /\ M = On(b, On(c, On(a, z)))
    BY <1>8 DEF T, N
  <2>. HIDE DEF z, M
  <2>2. <<b, c, a>> \o z = On(b, On(c, On(a, z)))
    BY <2>1, ThreeOn
  <2>. QED
    BY <2>1, <2>2 DEF z
<1>. HIDE DEF m, M
<1>14. \A j \in Q : j + 1 \in HeldIn(m)
  BY <1>1, <1>7, <1>10, <1>12 DEF Held, Typing
<1>15. Typing(g, K, Q, x, m)
  BY <1>1, <1>12, <1>14 DEF Typing
<1>16. TypedBy(g, M)
  BY <1>12, <1>15 DEF TypedBy
<1>. QED
  BY <1>13, <1>16

(* Parser steps: the functions declared stay, errors too.                  *)
Mild(p, q) == Tame(p, q) /\ (p.error => q.error)

(* An error is never taken back.                                           *)
LEMMA ErrorsStay ==
  ASSUME NEW p, Fine(p), text \in Texts
  PROVE  /\ Advance(p).error = p.error /\ ErrorAt(p).error
         /\ \A type : p.error => Consume(p, type).error
<1>1. PICK S : p \in ParserSet(S)
  BY DEF Fine, Sound
<1>2. Advance(p).error = p.error
  BY <1>1 DEF Advance, ParserSet
<1>3. ErrorAt(p).error /\ IsParser(p)
  BY FineIsParser, ErrorAtIs
<1>. QED
  BY <1>2, <1>3 DEF Consume

(* Tokens read.                                                            *)
LEMMA ReadMild ==
  ASSUME NEW p, Fine(p), text \in Texts
  PROVE  /\ Mild(p, Advance(p)) /\ Mild(p, ErrorAt(p)) /\ Mild(p, p)
         /\ \A type : Mild(p, Consume(p, type))
<1>1. Tame(p, p)
  BY TameSame
<1>. QED
  BY <1>1, ReadIs, ErrorsStay DEF Mild

(* One after the other.                                                    *)
LEMMA MildTrans ==
  ASSUME NEW p, NEW q, NEW r, Mild(p, q), Mild(q, r)
  PROVE  Mild(p, r)
BY TameTrans DEF Mild

(* The function being compiled is replaced, with the functions it          *)
(* declares.                                                               *)
LEMMA MildWith ==
  ASSUME NEW S, NEW p, Sound(p, S), NEW f \in FnSet(S),
         Functions(f.consts) = Functions(Fn(p).consts)
  PROVE  Mild(p, WithFn(p, f)) /\ Fn(WithFn(p, f)) = f
BY TameWith DEF Mild

(* Code appended.                                                          *)
LEMMA EmitMild ==
  ASSUME NEW p, Fine(p), NEW b \in Seq(Bytes)
  PROVE  Mild(p, Emit(p, b))
BY EmitIs DEF Mild

(* An instruction.                                                         *)
LEMMA EmitOpMild ==
  ASSUME NEW p, Fine(p), NEW op \in Emitted
  PROVE  Mild(p, EmitOp(p, op))
<1>1. <<Opcode[op]>> \in Seq(Bytes)
  <2>1. Opcode[op] \in Bytes
    BY OpcodeIsByte
  <2>. QED
    BY <2>1
<1>. QED
  BY <1>1, EmitMild DEF EmitOp

(* A jump.                                                                 *)
LEMMA EmitJumpMild ==
  ASSUME NEW p, Fine(p), NEW op \in Emitted
  PROVE  Mild(p, EmitJump(p, op))
<1>1. <<Opcode[op], 255, 255>> \in Seq(Bytes)
  <2>1. Opcode[op] \in Bytes /\ 255 \in Bytes
    BY OpcodeIsByte DEF Bytes
  <2>. QED
    BY <2>1
<1>. QED
  BY ZenonT(60), <1>1, EmitMild DEF EmitJump

(* A constant.                                                             *)
LEMMA AddConstantMild ==
  ASSUME NEW p, Fine(p), text \in Texts, NEW v, ~ IsFunc(v)
  PROVE  Mild(p, AddConstant(p, v))
<1>1. Tame(p, AddConstant(p, v))
  BY AddConstantIs
<1>2. Still(p, AddConstant(p, v))
  BY FineIsParser, HelpersStill
<1>. QED
  BY <1>1, <1>2 DEF Mild, Still

(* The instruction of a constant.                                          *)
LEMMA EmitConstantMild ==
  ASSUME NEW p, Fine(p), text \in Texts, NEW v, ~ IsFunc(v)
  PROVE  Mild(p, EmitConstant(p, v))
<1>. DEFINE q == AddConstant(p, v)  b == <<Opcode["CONSTANT"], ConstantId(p)>>
<1>1. Mild(p, q)
  BY AddConstantMild
<1>2. b \in Seq(Bytes)
  <2>1. Opcode["CONSTANT"] \in Bytes /\ ConstantId(p) \in Bytes
    BY OpcodeIsByte, HelpersKeep DEF Emitted
  <2>. QED
    BY <2>1
<1>. HIDE DEF q, b
<1>3. Mild(q, Emit(q, b))
  BY <1>1, <1>2, EmitMild DEF Mild, Tame
<1>. QED
  BY <1>1, <1>3, MildTrans DEF EmitConstant, q, b

(* A jump back.                                                            *)
LEMMA EmitLoopMild ==
  ASSUME NEW p, Fine(p), text \in Texts, NEW start \in Nat
  PROVE  Mild(p, EmitLoop(p, start))
<1>. DEFINE s == EmitOp(p, "LOOP")  n == Count(s) - start + 2
            r == IF n > JumpMax THEN ErrorAt(s) ELSE s
<1>1. Mild(p, s) /\ Fine(s)
  BY EmitOpMild DEF Emitted, Mild, Tame
<1>2. EmitLoop(p, start) = Emit(r, TwoBytes(n))
  BY DEF EmitLoop
<1>. HIDE DEF s
<1>3. n \in Int
  BY <1>1, FineFn
<1>4. TwoBytes(n) \in Seq(Bytes)
  BY <1>3, TwoBytesAreBytes
<1>. HIDE DEF n
<1>5. Mild(p, r) /\ Fine(r)
  BY <1>1, ReadMild, MildTrans DEF Mild, Tame
<1>. HIDE DEF r
<1>6. Mild(r, Emit(r, TwoBytes(n)))
  BY <1>4, <1>5, EmitMild
<1>. QED
  BY <1>2, <1>5, <1>6, MildTrans

(* The target of a jump.                                                   *)
LEMMA PatchMild ==
  ASSUME NEW p, Fine(p), text \in Texts, NEW j, Open(Fn(p), j)
  PROVE  Mild(p, PatchJump(p, j))
<1>1. Tame(p, PatchJump(p, j))
  BY PatchIs
<1>2. Still(p, PatchJump(p, j))
  BY FineIsParser, HelpersStill
<1>. QED
  BY <1>1, <1>2 DEF Mild, Still
-----------------------------------------------------------------------------
(* The same, with what is known of the code.                               *)
Goes(p, H, q, K) ==
  /\ Mild(p, q) /\ Typed(Fn(p)) /\ Typed(Fn(q))
  /\ Onto(Fn(p), H, Fn(q), K) /\ Level(Fn(p), Fn(q))

(* Nothing is done.                                                        *)
LEMMA GoesSelf ==
  ASSUME NEW p, Fine(p), text \in Texts, NEW H
  PROVE  Goes(p, H, p, H)
<1>1. Mild(p, p) /\ Typed(Fn(p))
  BY ReadMild, FineParts
<1>2. Onto(Fn(p), H, Fn(p), H)
  BY <1>1, OntoSelf
<1>. QED
  BY <1>1, <1>2 DEF Goes, Level

(* One after the other.                                                    *)
LEMMA GoesTrans ==
  ASSUME NEW p, NEW q, NEW r, NEW H, NEW K, NEW L, Goes(p, H, q, K), Goes(q, K, r, L),
         \A s \in H : s[1] \in Int
  PROVE  Goes(p, H, r, L)
<1>1. Mild(p, r)
  BY MildTrans DEF Goes
<1>2. Onto(Fn(p), H, Fn(r), L)
  BY OntoTrans DEF Goes
<1>. QED
  BY <1>1, <1>2 DEF Goes, Level

(* The certificate is of offsets, the end of the code among them.          *)
LEMMA CertInts ==
  ASSUME NEW f, NEW H, NEW O, NEW e, Cert(f, H, O, e), Len(f.code) \in Nat
  PROVE  /\ \A s \in H : s[1] \in Int
         /\ e \in Nat /\ e # 0 /\ <<Len(f.code), e>> \in H
<1>1. H \subseteq (0 .. Len(f.code)) \X (Nat \ {0}) /\ <<Len(f.code), e>> \in H
  BY DEF Cert
<1>2. \A s \in H : s[1] \in 0 .. Len(f.code)
  BY <1>1
<1>3. \A a, b : <<a, b>> \in (0 .. Len(f.code)) \X (Nat \ {0}) => b \in Nat \ {0}
  OBVIOUS
<1>. QED
  BY <1>1, <1>2, <1>3

(* Tokens read leave the code alone.                                       *)
LEMMA ReadGoes ==
  ASSUME NEW p, Fine(p), text \in Texts, NEW q, Mild(p, q), q.fns = p.fns, NEW H
  PROVE  Goes(p, H, q, H) /\ Fn(q) = Fn(p)
<1>1. Fn(q) = Fn(p)
  BY DEF Fn
<1>2. Goes(p, H, p, H)
  BY GoesSelf
<1>. QED
  BY <1>1, <1>2 DEF Goes

(* Code appended leaves what was there alone.                              *)
LEMMA AppendOnto ==
  ASSUME NEW f, NEW g, NEW b, Appends(f, g, b), NEW H, NEW K, NEW O, NEW e, Cert(f, H, O, e),
         H \subseteq K
  PROVE  Onto(f, H, g, K)
<1>1. \A i \in 0 .. Len(f.code) - 1 : ByteAt(g, i) = ByteAt(f, i)
  BY AppendedBytes
<1>2. H \subseteq (0 .. Len(f.code)) \X (Nat \ {0}) /\ Len(f.code) \in Nat
  BY DEF Cert, Appends, Typed
<1>3. \A s \in H : s[1] < Len(f.code) => s[1] \in 0 .. Len(f.code) - 1
  BY <1>2
<1>. QED
  BY <1>1, <1>3 DEF Onto, Appends

(* An instruction without operand.                                         *)
LEMMA OpGoes ==
  ASSUME NEW p, Fine(p), text \in Texts, NEW op \in OneByteOps, NEW q, q = EmitOp(p, op),
         NEW H, NEW O, NEW e \in Nat, NEW x \in Nat, x # 0, Cert(Fn(p), H, O, e),
         OneSuits(Fn(p), op, e, x)
  PROVE  q.error = p.error /\ \E K : Goes(p, H, q, K) /\ Cert(Fn(q), K, O, x)
<1>1. op \in Emitted
  BY DEF OneByteOps, Emitted, IBinaryOps, FBinaryOps
<1>2. <<Opcode[op]>> \in Seq(Bytes)
  <2>1. Opcode[op] \in Bytes
    BY <1>1, OpcodeIsByte
  <2>. QED
    BY <2>1
<1>3. /\ Tame(p, q) /\ Fine(q) /\ q.error = p.error
      /\ Appends(Fn(p), Fn(q), <<Opcode[op]>>) /\ Level(Fn(p), Fn(q))
  BY <1>2, EmitIs DEF EmitOp
<1>. DEFINE f == Fn(p)  g == Fn(q)
<1>4. Appends(f, g, <<Opcode[op]>>) /\ Cert(f, H, O, e) /\ f = Fn(p) /\ g = Fn(q)
  BY <1>3
<1>5. OneSuits(f, op, e, x)
  OBVIOUS
<1>. HIDE DEF f, g
<1>6. PICK K : H \subseteq K /\ Cert(g, K, O, x)
  BY <1>4, <1>5, AppendOneByte
<1>7. Onto(f, H, g, K)
  BY <1>4, <1>6, AppendOnto
<1>8. Typed(f) /\ Typed(g)
  BY <1>4 DEF Appends
<1>. QED
  BY <1>3, <1>4, <1>6, <1>7, <1>8 DEF Goes, Mild

(* An instruction with an operand.                                         *)
LEMMA OperandGoes ==
  ASSUME NEW p, Fine(p), text \in Texts, NEW op \in TwoByteOps, NEW a \in Bytes,
         NEW q, q = Emit(p, WithOne(op, a)),
         NEW H, NEW O, NEW e \in Nat, NEW x \in Nat, x # 0, Cert(Fn(p), H, O, e),
         TwoSuits(Fn(p), op, a, e, x)
  PROVE  q.error = p.error /\ \E K : Goes(p, H, q, K) /\ Cert(Fn(q), K, O, x)
<1>1. op \in Emitted
  BY DEF TwoByteOps, Emitted
<1>2. WithOne(op, a) \in Seq(Bytes)
  <2>1. Opcode[op] \in Bytes
    BY <1>1, OpcodeIsByte
  <2>. QED
    BY <2>1 DEF WithOne
<1>3. /\ Tame(p, q) /\ Fine(q) /\ q.error = p.error
      /\ Appends(Fn(p), Fn(q), WithOne(op, a)) /\ Level(Fn(p), Fn(q))
      /\ Fn(q).consts = Fn(p).consts
  BY <1>2, EmitIs
<1>. DEFINE f == Fn(p)  g == Fn(q)
<1>4. Appends(f, g, WithOne(op, a)) /\ Cert(f, H, O, e) /\ f = Fn(p) /\ g = Fn(q)
  BY <1>3
<1>5. /\ HasConstant(f, a) => HasConstant(g, a)
      /\ IsName(f, a) => IsName(g, a)
  BY <1>3 DEF HasConstant, IsName, ConstantAt
<1>6. TwoSuits(g, op, a, e, x)
  BY <1>5 DEF TwoSuits
<1>. HIDE DEF f, g
<1>7. a \in Nat
  BY DEF Bytes
<1>8. PICK K : H \subseteq K /\ Cert(g, K, O, x)
  BY <1>4, <1>6, <1>7, AppendTwoBytes
<1>9. Onto(f, H, g, K)
  BY <1>4, <1>8, AppendOnto
<1>10. Typed(f) /\ Typed(g)
  BY <1>4 DEF Appends
<1>. QED
  BY <1>3, <1>4, <1>8, <1>9, <1>10 DEF Goes, Mild

(* A constant more.                                                        *)
LEMMA ConstantGoes ==
  ASSUME NEW p, Fine(p), text \in Texts, NEW v, ~ IsFunc(v), NEW q, q = AddConstant(p, v),
         NEW H, NEW O, NEW e, Cert(Fn(p), H, O, e)
  PROVE  /\ Goes(p, H, q, H) /\ Cert(Fn(q), H, O, e)
         /\ ~ q.error => HasConstant(Fn(q), ConstantId(p)) /\ ConstantAt(Fn(q), ConstantId(p)) = v
<1>1. /\ Tame(p, q) /\ Fine(q) /\ Level(Fn(p), Fn(q))
      /\ Typed(Fn(p)) /\ Typed(Fn(q)) /\ Extends(Fn(p), Fn(q))
      /\ Fn(q).code = Fn(p).code /\ Fn(q).type = Fn(p).type /\ Fn(q).arity = Fn(p).arity
      /\ ~ q.error => HasConstant(Fn(q), ConstantId(p)) /\ ConstantAt(Fn(q), ConstantId(p)) = v
  BY AddConstantIs
<1>2. Mild(p, q)
  BY AddConstantMild
<1>3. Cert(Fn(q), H, O, e)
  BY <1>1, CertMore
<1>4. Onto(Fn(p), H, Fn(q), H)
  BY <1>1 DEF Onto, ByteAt
<1>. QED
  BY <1>1, <1>2, <1>3, <1>4 DEF Goes

(* A jump that waits.                                                      *)
Jumps(p, H, q, K, O, e, x) ==
  /\ Goes(p, H, q, K) /\ Cert(Fn(q), K, O \cup {JumpOf(q) - 1}, x)
  /\ Hole(Fn(q), K, JumpOf(q), e)

(* Its target is not known: the certificate has a hole for it.             *)
LEMMA JumpGoes ==
  ASSUME NEW p, Fine(p), text \in Texts, NEW op \in {"JMP", "JMP_FALSE"},
         NEW q, q = EmitJump(p, op),
         NEW H, NEW O, NEW e \in Nat, NEW x \in Nat, x # 0, Cert(Fn(p), H, O, e),
         op = "JMP_FALSE" => e >= 2 /\ x = e
  PROVE  /\ q.error = p.error /\ JumpOf(q) \in Nat /\ JumpOf(q) = Count(p) + 1
         /\ \E K : Jumps(p, H, q, K, O, e, x)
<1>1. op \in Emitted
  BY DEF Emitted
<1>2. WithTwo(op, 255, 255) \in Seq(Bytes) /\ q = Emit(p, WithTwo(op, 255, 255))
  <2>1. Opcode[op] \in Bytes /\ 255 \in Bytes
    BY <1>1, OpcodeIsByte DEF Bytes
  <2>. QED
    BY <2>1 DEF WithTwo, EmitJump
<1>3. /\ Tame(p, q) /\ Fine(q) /\ q.error = p.error
      /\ Appends(Fn(p), Fn(q), WithTwo(op, 255, 255)) /\ Level(Fn(p), Fn(q))
  BY <1>2, EmitIs
<1>. DEFINE f == Fn(p)  g == Fn(q)
<1>4. Appends(f, g, WithTwo(op, 255, 255)) /\ Cert(f, H, O, e) /\ f = Fn(p) /\ g = Fn(q)
  BY <1>3
<1>5. JumpOf(q) = Count(p) + 1 /\ Count(q) = Count(p) + 3 /\ Count(p) \in Nat
  BY JumpsKeep, FineFn
<1>. HIDE DEF f, g
<1>. DEFINE Q == O \cup {Len(f.code)}
<1>0. Q = O \cup {Len(f.code)}
  OBVIOUS
<1>. HIDE DEF Q
<1>6. PICK K : JumpCert(f, H, e, g, K, Q, op, x)
  BY <1>0, <1>4, AppendJump
<1>11. /\ H \subseteq K /\ Cert(g, K, Q, x)
       /\ <<Len(f.code), e>> \in K /\ OpAt(g, Len(f.code)) = op
  BY <1>6 DEF JumpCert
<1>7. Onto(f, H, g, K)
  BY <1>4, <1>11, AppendOnto
<1>8. Typed(f) /\ Typed(g)
  BY <1>4 DEF Appends
<1>9. JumpOf(q) - 1 = Len(f.code) /\ Len(f.code) < Len(g.code)
  BY <1>4, <1>5 DEF Count
<1>10. Hole(g, K, JumpOf(q), e)
  BY <1>9, <1>11 DEF Hole
<1>12. Cert(g, K, O \cup {JumpOf(q) - 1}, x)
  BY <1>0, <1>9, <1>11
<1>13. Goes(p, H, q, K)
  BY <1>3, <1>4, <1>7, <1>8 DEF Goes, Mild
<1>14. Jumps(p, H, q, K, O, e, x)
  BY <1>4, <1>10, <1>12, <1>13 DEF Jumps
<1>. QED
  BY <1>3, <1>5, <1>14

(* A jump back.                                                            *)
LEMMA LoopGoes ==
  ASSUME NEW p, Fine(p), text \in Texts, NEW start \in Nat, start <= Count(p),
         NEW q, q = EmitLoop(p, start), ~ q.error,
         NEW H, NEW O, NEW e \in Nat, NEW x \in Nat, x # 0, Cert(Fn(p), H, O, e),
         <<start, e>> \in H
  PROVE  \E K : Goes(p, H, q, K) /\ Cert(Fn(q), K, O, x)
<1>1. /\ Tame(p, q) /\ Fine(q) /\ Level(Fn(p), Fn(q))
      /\ \E y \in Nat, z \in Nat : /\ Appends(Fn(p), Fn(q), <<Opcode["LOOP"], y, z>>)
                                   /\ Spans(y, z, Len(Fn(p).code) + 3 - start)
  BY EmitLoopIs
<1>2. PICK y \in Nat, z \in Nat : /\ Appends(Fn(p), Fn(q), <<Opcode["LOOP"], y, z>>)
                                  /\ Spans(y, z, Len(Fn(p).code) + 3 - start)
  BY <1>1
<1>. DEFINE f == Fn(p)  g == Fn(q)
<1>3. /\ Appends(f, g, <<Opcode["LOOP"], y, z>>) /\ Spans(y, z, Len(f.code) + 3 - start)
      /\ Cert(f, H, O, e) /\ f = Fn(p) /\ g = Fn(q)
  BY <1>2
<1>. HIDE DEF f, g
<1>4. PICK K : H \subseteq K /\ Cert(g, K, O, x)
  BY ZenonT(60), <1>3, AppendLoop
<1>5. Onto(f, H, g, K)
  BY <1>3, <1>4, AppendOnto
<1>6. Typed(f) /\ Typed(g)
  BY <1>3 DEF Appends
<1>7. Mild(p, q)
  BY EmitLoopMild
<1>. QED
  BY <1>1, <1>3, <1>4, <1>5, <1>6, <1>7 DEF Goes

(* The target of a jump that waits.                                        *)
LEMMA PatchGoes ==
  ASSUME NEW p, Fine(p), text \in Texts, NEW j, Open(Fn(p), j), NEW q, q = PatchJump(p, j),
         ~ q.error, NEW H, NEW O, NEW e, Cert(Fn(p), H, O, e), Hole(Fn(p), H, j, e)
  PROVE  Goes(p, H, q, H) /\ Cert(Fn(q), H, O \ {j - 1}, e)
<1>1. /\ Tame(p, q) /\ Fine(q) /\ Level(Fn(p), Fn(q))
      /\ Typed(Fn(p)) /\ Typed(Fn(q))
      /\ Fn(q).consts = Fn(p).consts /\ Fn(q).type = Fn(p).type /\ Fn(q).arity = Fn(p).arity
      /\ Len(Fn(q).code) = Len(Fn(p).code)
      /\ \A k \in 0 .. Len(Fn(p).code) - 1 :
           k \notin {j, j + 1} => ByteAt(Fn(q), k) = ByteAt(Fn(p), k)
      /\ Short(Fn(q), j - 1) = Len(Fn(p).code) - j - 2
  BY PatchIs
<1>. DEFINE f == Fn(p)  g == Fn(q)  i == j - 1
<1>2. /\ Typed(f) /\ Typed(g) /\ g.consts = f.consts /\ g.type = f.type /\ g.arity = f.arity
      /\ Len(g.code) = Len(f.code) /\ f = Fn(p) /\ g = Fn(q) /\ Cert(f, H, O, e)
      /\ \A k \in 0 .. Len(f.code) - 1 : k \notin {j, j + 1} => ByteAt(g, k) = ByteAt(f, k)
      /\ Short(g, i) = Len(f.code) - j - 2
  BY <1>1
<1>3. <<i, e>> \in H /\ i < Len(f.code) /\ OpAt(f, i) \in {"JMP", "JMP_FALSE"}
  BY DEF Hole
<1>4. j \in Nat /\ Len(f.code) \in Nat
  BY <1>2 DEF Open, Typed
<1>. HIDE DEF f, g
<1>5. i \in Int /\ j = i + 1 /\ j + 1 = i + 2 /\ Len(f.code) - j - 2 = Len(f.code) - i - 3
  BY <1>4
<1>. HIDE DEF i
<1>6. /\ \A k \in 0 .. Len(f.code) - 1 : k \notin {i + 1, i + 2} => ByteAt(g, k) = ByteAt(f, k)
      /\ Short(g, i) = Len(f.code) - i - 3
  BY <1>2, <1>5
<1>7. Cert(g, H, O \ {i}, e)
  BY <1>2, <1>3, <1>6, PatchOne
<1>8. \A s \in H : s[1] < Len(f.code) => ByteAt(g, s[1]) = ByteAt(f, s[1])
  <2>. SUFFICES ASSUME NEW s \in H, s[1] < Len(f.code)
                PROVE  ByteAt(g, s[1]) = ByteAt(f, s[1])
    OBVIOUS
  <2>1. H \subseteq (0 .. Len(f.code)) \X (Nat \ {0})
    BY <1>2 DEF Cert
  <2>2. s[1] \in 0 .. Len(f.code) - 1
    BY <1>4, <2>1
  <2>. DEFINE t == <<i, e>>
  <2>3. t \in H /\ t[1] = i /\ t[2] = e
    BY <1>3
  <2>. HIDE DEF t
  <2>4. Sits(f, H, O, i, e)
    BY <1>2, <1>3, <2>3 DEF Cert
  <2>5. s[1] > i => s[1] >= i + 3
    <3>1. OpAt(f, i) \in SimpleOps
      BY <1>3 DEF SimpleOps
    <3>2. InstructionLength(OpAt(f, i)) = 3
      BY <1>3, <3>1, LengthIs
    <3>. QED
      BY <2>4, <3>2 DEF Sits
  <2>6. s[1] \notin {i + 1, i + 2}
    BY <1>5, <2>2, <2>5
  <2>. QED
    BY <1>6, <2>2, <2>6
<1>9. Onto(f, H, g, H)
  <2>1. Extends(f, g)
    BY <1>2, <1>4 DEF Extends, Typed
  <2>. QED
    BY <1>2, <1>8, <2>1 DEF Onto
<1>10. Mild(p, q)
  BY PatchMild
<1>. QED
  BY <1>1, <1>2, <1>7, <1>9, <1>10 DEF Goes, i

(* Nothing has gone wrong, and the function being compiled has no other.   *)
Live(p) == ~ p.error /\ Plain /\ Functions(Fn(p).consts) = {}

(* r is of the calls in progress.                                          *)
Begun(H, O, e, r) == Typing(Fn(parser), H, O, e, r) /\ Matches(r, todo)

(* It was so before.                                                       *)
LEMMA LiveBefore ==
  ASSUME NEW p, NEW q, Mild(p, q), Live(q)
  PROVE  Live(p)
BY DEF Live, Mild, Tame

(* What is known of the call on top.                                       *)
LEMMA BegunCert ==
  ASSUME CompilerInv, todo # << >>, NEW H, NEW O, NEW e, NEW r, Begun(H, O, e, r)
  PROVE  /\ Fine(parser) /\ text \in Texts /\ Typed(Fn(parser))
         /\ Cert(Fn(parser), H, O, e) /\ e \in Nat /\ e # 0
         /\ Count(parser) \in Nat /\ <<Count(parser), e>> \in H /\ \A s \in H : s[1] \in Int
<1>1. Fine(parser) /\ text \in Texts
  BY TopIs
<1>2. Typed(Fn(parser)) /\ Cert(Fn(parser), H, O, e)
  BY DEF Begun, Typing
<1>3. Len(Fn(parser).code) \in Nat
  BY <1>2 DEF Typed
<1>. QED
  BY <1>1, <1>2, <1>3, CertInts DEF Count

(* The record of the call on top, and the height it began at.              *)
LEMMA BegunTop ==
  ASSUME CompilerInv, todo # << >>, NEW H, NEW O, NEW e, NEW r, Begun(H, O, e, r)
  PROVE  /\ r[1].call = Top /\ r[1].in \in Nat /\ r[1].out \in Nat /\ r[1].depth \in Nat
         /\ Top.at \notin Flexible => e = r[1].in
         /\ Top.at \notin ExprCalls \cup Takers => e = Len(Fn(parser).locals)
         /\ Fn(parser).depth = r[1].depth + Sc(Top)
<1>1. r[1].call = Top /\ r[1].in \in Nat /\ r[1].out \in Nat /\ r[1].depth \in Nat
  BY TopRec DEF Begun
<1>2. TopOK(Fn(parser), e, r[1])
  BY DEF Begun, Typing
<1>. QED
  BY <1>1, <1>2 DEF TopOK

(* What the call on top knows.                                             *)
LEMMA BegunFits ==
  ASSUME CompilerInv, todo # << >>, NEW H, NEW O, NEW e, NEW r, Begun(H, O, e, r)
  PROVE  LET f == Fn(parser)  u == r[1].in  w == r[1].out IN
         /\ FitsExpression(f, Top, u, w) /\ FitsFinish(f, Top, u, w)
         /\ FitsStatement(f, Top, u, w) /\ FitsMarks(f, H, Top, u)
         /\ FitsScope(f, Top, w, r[1].depth)
<1>1. r[1].call = Top
  BY BegunTop
<1>2. 1 \in 1 .. Len(r) /\ \A i \in 1 .. Len(r) : Fits(Fn(parser), H, r[i])
  BY DEF Begun, Typing, Stack, Arranged
<1>. QED
  BY <1>1, <1>2 DEF Fits

(* Every local has a slot but the last, perhaps.                           *)
LEMMA SlotsAre ==
  ASSUME NEW p, Fine(p), LocalsTo(Fn(p), 1, 0)
  PROVE  /\ Len(Fn(p).locals) \in Nat /\ Slots(Fn(p)) \in Nat
         /\ 1 <= Slots(Fn(p)) /\ Slots(Fn(p)) <= Len(Fn(p).locals)
         /\ Settled(Fn(p)) => Slots(Fn(p)) = Len(Fn(p).locals)
<1>1. Len(Fn(p).locals) \in Nat
  BY FineFn
<1>2. Len(Fn(p).locals) >= 1 /\ Fn(p).locals[1].depth \in 0 .. 0
  <2>1. 1 \in 1 .. Len(Fn(p).locals) /\ 1 \in 1 .. 1
    BY DEF LocalsTo
  <2>. QED
    BY <1>1, <2>1 DEF LocalsTo
<1>3. Fn(p).locals[1].depth # -1
  BY <1>2
<1>4. Len(Fn(p).locals) = 1 => Fn(p).locals[Len(Fn(p).locals)].depth # -1
  BY <1>3
<1>5. Settled(Fn(p)) => Fn(p).locals[Len(Fn(p).locals)].depth # -1
  <2>1. Len(Fn(p).locals) \in 1 .. Len(Fn(p).locals)
    BY <1>1, <1>2
  <2>. QED
    BY <2>1 DEF Settled
<1>. QED
  BY <1>1, <1>2, <1>4, <1>5 DEF Slots

(* It does wait only while its initializer is compiled.                    *)
LEMMA BegunSlots ==
  ASSUME CompilerInv, todo # << >>, NEW H, NEW O, NEW e, NEW r, Begun(H, O, e, r)
  PROVE  /\ LocalsTo(Fn(parser), 1, 0)
         /\ Len(Fn(parser).locals) \in Nat /\ Slots(Fn(parser)) \in Nat
         /\ 1 <= Slots(Fn(parser)) /\ Slots(Fn(parser)) <= Len(Fn(parser).locals)
         /\ Top.at \notin ExprCalls \cup {"var_defined"} =>
              Slots(Fn(parser)) = Len(Fn(parser).locals) /\ Settled(Fn(parser))
<1>1. LocalsTo(Fn(parser), 1, 0)
  BY DEF Begun, Typing
<1>2. Fine(parser) /\ (Top.at \notin ExprCalls \cup {"var_defined"} => Settled(Fn(parser)))
  BY TopIs
<1>. QED
  BY <1>1, <1>2, SlotsAre
-----------------------------------------------------------------------------
(* The parts of Fits that matter for a call.                               *)
LEMMA FitsExpr ==
  ASSUME NEW f, NEW H, NEW c, NEW u, NEW w, NEW d, c.at \in ExprCalls, c.at # "finish",
         FitsExpression(f, c, u, w)
  PROVE  Fits(f, H, Rec(c, u, w, d))
<1>1. FitsFinish(f, c, u, w)
  BY DEF FitsFinish
<1>2. FitsStatement(f, c, u, w)
  BY DEF FitsStatement, ExprCalls, Immediate, PrefixCalls
<1>3. FitsMarks(f, H, c, u)
  BY DEF FitsMarks, ExprCalls, Immediate, PrefixCalls
<1>4. FitsScope(f, c, w, d)
  BY DEF FitsScope, ExprCalls, Immediate, PrefixCalls, Scoped, InFunction
<1>. QED
  BY <1>1, <1>2, <1>3, <1>4 DEF Fits, Rec

(* Those of the last calls of a parse function.                            *)
LEMMA FitsFinishes ==
  ASSUME NEW f, NEW H, NEW c, NEW u, NEW w, NEW d, c.at = "finish", FitsFinish(f, c, u, w)
  PROVE  Fits(f, H, Rec(c, u, w, d))
<1>1. FitsExpression(f, c, u, w)
  BY DEF FitsExpression, PrefixCalls
<1>2. FitsStatement(f, c, u, w)
  BY DEF FitsStatement
<1>3. FitsMarks(f, H, c, u)
  BY DEF FitsMarks
<1>4. FitsScope(f, c, w, d)
  BY DEF FitsScope, Scoped, InFunction
<1>. QED
  BY <1>1, <1>2, <1>3, <1>4 DEF Fits, Rec

(* Those of a statement.                                                   *)
LEMMA FitsOther ==
  ASSUME NEW f, NEW H, NEW c, NEW u, NEW w, NEW d, c.at \notin ExprCalls,
         FitsStatement(f, c, u, w), FitsMarks(f, H, c, u), FitsScope(f, c, w, d)
  PROVE  Fits(f, H, Rec(c, u, w, d))
<1>1. FitsExpression(f, c, u, w)
  BY DEF FitsExpression, ExprCalls, Immediate
<1>2. FitsFinish(f, c, u, w)
  BY DEF FitsFinish, ExprCalls
<1>. QED
  BY <1>1, <1>2 DEF Fits, Rec
-----------------------------------------------------------------------------
(* The call on top goes on, with the scopes as they were.                  *)
LEMMA StaysGoing ==
  ASSUME CompilerInv, todo # << >>, NEW H, NEW O, NEW e, NEW r, Begun(H, O, e, r),
         NEW q, NEW K, Goes(parser, H, q, K), NEW Q, NEW x, Cert(Fn(q), K, Q, x)
  PROVE  Going(Fn(parser), H, O, e, r, Fn(q), K, Q, x)
<1>1. todo \in Seq(Calls)
  BY DEF CompilerInv, TodoOK
<1>2. /\ Typing(Fn(parser), H, O, e, r) /\ Matches(r, todo)
      /\ Typed(Fn(q)) /\ Onto(Fn(parser), H, Fn(q), K) /\ Level(Fn(parser), Fn(q))
  BY DEF Begun, Goes
<1>3. Rest(Fn(q), K, r) /\ LocalsTo(Fn(q), 1, 0)
  BY <1>2, RestSame
<1>. QED
  BY <1>1, <1>2, <1>3 DEF Going

(* It returns.                                                             *)
LEMMA EndZero ==
  ASSUME CompilerInv, TextInv, todo # << >>, NEW H, NEW O, NEW e, NEW r, Begun(H, O, e, r),
         NEW q, NEW K, Goes(parser, H, q, K), NEW Q, NEW x, Cert(Fn(q), K, Q, x),
         Top.at \notin Bases \cup Scoped,
         Gives(Top) \/ Top.at \in Bodied => x = r[1].out,
         ~ Gives(Top) => x = Len(Fn(parser).locals), Held(Q, O, {})
  PROVE  TypedBy(Fn(q), << >> \o Tail(todo))
<1>1. Going(Fn(parser), H, O, e, r, Fn(q), K, Q, x)
  BY StaysGoing
<1>2. Fn(q).locals = Fn(parser).locals /\ Fn(q).depth = Fn(parser).depth
  BY DEF Goes, Level
<1>3. Fn(parser).depth = r[1].depth
  <2>1. Fn(parser).depth = r[1].depth + Sc(Top) /\ r[1].depth \in Nat
    BY BegunTop
  <2>. QED
    BY <2>1 DEF Sc
<1>4. TypedBy(Fn(q), Tail(todo))
  <2>1. ~ Gives(Top) => x = Len(Fn(q).locals)
    BY <1>2
  <2>2. Fn(q).depth = r[1].depth /\ Top.at \notin Bases
    BY <1>2, <1>3
  <2>. QED
    BY <1>1, <2>1, <2>2, TypedZero
<1>5. << >> \o Tail(todo) = Tail(todo)
  <2>1. Tail(todo) \in Seq(Calls)
    BY HeadTailProperties DEF CompilerInv, TodoOK
  <2>. QED
    BY <2>1, ConcatEmptySeq
<1>. QED
  BY <1>4, <1>5

(* what a new call on top needs of the stack *)
OnTop(c, u, x, n) ==
  /\ c.at \notin Flexible => x = u
  /\ c.at \notin ExprCalls \cup Takers => x = n

(* It goes on as one call.                                                 *)
LEMMA EndOne ==
  ASSUME CompilerInv, todo # << >>, NEW H, NEW O, NEW e, NEW r, Begun(H, O, e, r),
         NEW q, NEW K, Goes(parser, H, q, K), NEW Q, NEW x, Cert(Fn(q), K, Q, x),
         NEW c \in Calls, NEW u \in Nat, Fits(Fn(q), K, Rec(c, u, r[1].out, r[1].depth)),
         OnTop(c, u, x, Len(Fn(parser).locals)), Sc(c) = Sc(Top),
         c.at \in Bases <=> Top.at \in Bases, Held(Q, O, Holds(c))
  PROVE  TypedBy(Fn(q), <<c>> \o Tail(todo))
<1>. DEFINE s == Rec(c, u, r[1].out, r[1].depth)
<1>1. Going(Fn(parser), H, O, e, r, Fn(q), K, Q, x)
  BY StaysGoing
<1>2. Fn(q).locals = Fn(parser).locals /\ Fn(q).depth = Fn(parser).depth
  BY DEF Goes, Level
<1>3. Fn(parser).depth = r[1].depth + Sc(c)
  BY BegunTop
<1>4. s.call = c /\ s.in = u /\ s.out = r[1].out /\ s.depth = r[1].depth
  BY DEF Rec
<1>5. s = Rec(c, u, r[1].out, r[1].depth) /\ Fits(Fn(q), K, s)
  OBVIOUS
<1>. HIDE DEF s
<1>6. TopOK(Fn(q), x, s)
  BY <1>2, <1>3, <1>4 DEF TopOK, OnTop
<1>. QED
  BY <1>1, <1>5, <1>6, TypedOne

(* It makes a call, and goes on as another.                                *)
LEMMA EndTwo ==
  ASSUME CompilerInv, todo # << >>, NEW H, NEW O, NEW e, NEW r, Begun(H, O, e, r),
         NEW q, NEW K, Goes(parser, H, q, K), NEW Q, NEW x, Cert(Fn(q), K, Q, x),
         NEW c \in Calls, NEW u \in Nat, NEW w \in Nat, NEW a \in Calls, NEW v \in Nat,
         Fits(Fn(q), K, Rec(a, v, r[1].out, r[1].depth)),
         Fits(Fn(q), K, Rec(c, u, w, r[1].depth + Sc(a))),
         OnTop(c, u, x, Len(Fn(parser).locals)), a.at \notin Flexible => w = v,
         c.at \notin Bases \cup Scoped, Sc(a) = Sc(Top),
         a.at \in Bases <=> Top.at \in Bases, Held(Q, O, Holds(a) \cup Holds(c))
  PROVE  TypedBy(Fn(q), <<c, a>> \o Tail(todo))
<1>. DEFINE s == Rec(a, v, r[1].out, r[1].depth)  p == Rec(c, u, w, r[1].depth + Sc(a))
<1>1. Going(Fn(parser), H, O, e, r, Fn(q), K, Q, x)
  BY StaysGoing
<1>2. Fn(q).locals = Fn(parser).locals /\ Fn(q).depth = Fn(parser).depth
  BY DEF Goes, Level
<1>3. Fn(parser).depth = r[1].depth + Sc(a) /\ Sc(c) = 0 /\ r[1].depth + Sc(a) \in Nat
  <2>1. Fn(parser).depth = r[1].depth + Sc(Top) /\ r[1].depth \in Nat
    BY BegunTop
  <2>. QED
    BY <2>1 DEF Sc
<1>4. p.call = c /\ p.in = u /\ p.depth = r[1].depth + Sc(a)
  BY DEF Rec
<1>5. /\ s = Rec(a, v, r[1].out, r[1].depth) /\ Fits(Fn(q), K, s)
      /\ p = Rec(c, u, w, r[1].depth + Sc(a)) /\ Fits(Fn(q), K, p)
  OBVIOUS
<1>. HIDE DEF s, p
<1>6. TopOK(Fn(q), x, p)
  <2>1. Fn(q).depth = p.depth + Sc(c)
    BY <1>2, <1>3, <1>4
  <2>. QED
    BY <1>2, <1>4, <2>1 DEF TopOK, OnTop
<1>7. c.at \notin Bases
  OBVIOUS
<1>. QED
  BY <1>1, <1>5, <1>6, <1>7, TypedTwo

(* The functions of D are balanced unless they declare others, and those   *)
(* that they declare are in D too.                                         *)
Good(D) ==
  \A g \in D : Functions(g.consts) \subseteq D /\ (Functions(g.consts) = {} => Balanced(g, FALSE))

(* The heights are there while a text is compiled, and what they are for   *)
(* when it is: the script is balanced at the end, and so is each function  *)
(* by then.                                                                *)
BalanceInv ==
  /\ ~ parser.error /\ Plain => \E D : Good(D) /\ Made(parser) \subseteq D
  /\ todo # << >> /\ Live(parser) => TypedBy(Fn(parser), todo)
  /\ todo = << >> /\ Live(parser) => Balanced(Compiled, TRUE)

(* The next state, by the parser and the calls there.                      *)
LEMMA BalanceAfter ==
  ASSUME NEW q, NEW t, text' = text, parser' = q, todo' = t,
         ~ q.error /\ Plain => \E D : Good(D) /\ Made(q) \subseteq D,
         t # << >> /\ Live(q) => TypedBy(Fn(q), t),
         t = << >> /\ Live(q) => Balanced(Function(Fn(q).arity, Fn(q).code, Fn(q).consts), TRUE)
  PROVE  BalanceInv'
<1>1. Plain <=> Plain'
  BY DEF Conditional, Minuends, Plain
<1>2. Live(parser)' <=> Live(q)
  BY <1>1 DEF Live, Fn
<1>3. (~ parser.error /\ Plain => \E D : Good(D) /\ Made(parser) \subseteq D)'
  BY <1>1 DEF Made
<1>4. (todo # << >> /\ Live(parser) => TypedBy(Fn(parser), todo))'
  BY <1>2 DEF Fn
<1>5. (todo = << >> /\ Live(parser) => Balanced(Compiled, TRUE))'
  BY <1>2 DEF Fn, Compiled
<1>. QED
  BY <1>3, <1>4, <1>5 DEF BalanceInv

(* There is a call to be compiled for.                                     *)
LEMMA TypedNotEmpty ==
  ASSUME NEW f, NEW t, TypedBy(f, t)
  PROVE  t # << >>
<1>1. PICK H, O, e, r : Typing(f, H, O, e, r) /\ Matches(r, t)
  BY DEF TypedBy
<1>2. Len(r) >= 1 /\ Len(r) \in Nat /\ Len(r) <= Len(t)
  BY <1>1 DEF Typing, Stack, Arranged, Matches
<1>3. SUFFICES ASSUME t = << >> PROVE FALSE
  OBVIOUS
<1>4. Len(<< >>) = 0
  BY EmptySeq
<1>. QED
  BY <1>2, <1>3, <1>4

(* The call on top goes on.                                                *)
LEMMA BalanceNext ==
  ASSUME CompilerInv, BalanceInv, todo # << >>, NEW q, NEW calls, Then(q, calls),
         ~ q.error /\ Plain => Mild(parser, q),
         Live(q) => TypedBy(Fn(q), calls \o Tail(todo))
  PROVE  BalanceInv'
<1>. DEFINE t == calls \o Tail(todo)
<1>1. text' = text /\ parser' = q /\ todo' = t
  BY DEF Then
<1>2. ~ q.error /\ Plain => \E D : Good(D) /\ Made(q) \subseteq D
  BY DEF Mild, Tame, BalanceInv
<1>3. Live(q) => TypedBy(Fn(q), t) /\ t # << >>
  BY TypedNotEmpty
<1>. HIDE DEF t
<1>. QED
  BY <1>1, <1>2, <1>3, BalanceAfter

(* What is known when it began.                                            *)
LEMMA Begins ==
  ASSUME BalanceInv, todo # << >>, NEW q, Mild(parser, q), Live(q)
  PROVE  Live(parser) /\ \E H, O, e, r : Begun(H, O, e, r)
<1>1. Live(parser)
  BY LiveBefore
<1>. QED
  BY <1>1 DEF BalanceInv, TypedBy, Begun
-----------------------------------------------------------------------------
(* The parser between two helpers of an action.                            *)
Now(H, q, K, Q, x) ==
  /\ Fine(q) /\ text \in Texts /\ x \in Nat /\ x # 0
  /\ Goes(parser, H, q, K) /\ Cert(Fn(q), K, Q, x) /\ \A s \in H : s[1] \in Int

(* So the action begins.                                                   *)
LEMMA NowBegins ==
  ASSUME CompilerInv, todo # << >>, NEW H, NEW O, NEW e, NEW r, Begun(H, O, e, r)
  PROVE  Now(H, parser, H, O, e)
<1>1. /\ Fine(parser) /\ text \in Texts /\ Cert(Fn(parser), H, O, e) /\ e \in Nat /\ e # 0
      /\ \A s \in H : s[1] \in Int
  BY BegunCert
<1>2. Goes(parser, H, parser, H)
  BY <1>1, GoesSelf
<1>. QED
  BY <1>1, <1>2 DEF Now

(* What stays.                                                             *)
LEMMA NowIs ==
  ASSUME NEW H, NEW q, NEW K, NEW Q, NEW x, Now(H, q, K, Q, x)
  PROVE  /\ Fine(q) /\ text \in Texts /\ Mild(parser, q) /\ Goes(parser, H, q, K)
         /\ Cert(Fn(q), K, Q, x) /\ x \in Nat /\ x # 0
         /\ Typed(Fn(q)) /\ Level(Fn(parser), Fn(q)) /\ Onto(Fn(parser), H, Fn(q), K)
         /\ Fn(q).locals = Fn(parser).locals /\ Fn(q).depth = Fn(parser).depth
         /\ Slots(Fn(q)) = Slots(Fn(parser)) /\ Fn(q).type = Fn(parser).type
         /\ Count(q) \in Nat /\ <<Count(q), x>> \in K /\ \A s \in K : s[1] \in Int
<1>1. /\ Fine(q) /\ text \in Texts /\ Goes(parser, H, q, K) /\ Cert(Fn(q), K, Q, x)
      /\ x \in Nat /\ x # 0
  BY DEF Now
<1>2. /\ Mild(parser, q) /\ Typed(Fn(q)) /\ Level(Fn(parser), Fn(q))
      /\ Onto(Fn(parser), H, Fn(q), K)
  BY <1>1 DEF Goes
<1>3. /\ Fn(q).locals = Fn(parser).locals /\ Fn(q).depth = Fn(parser).depth
      /\ Fn(q).type = Fn(parser).type /\ Len(Fn(q).code) \in Nat
  BY <1>2 DEF Level, Onto, Typed
<1>4. Slots(Fn(q)) = Slots(Fn(parser))
  BY <1>3 DEF Slots
<1>5. Count(q) \in Nat /\ <<Count(q), x>> \in K /\ \A s \in K : s[1] \in Int
  BY <1>1, <1>3, CertInts DEF Count
<1>. QED
  BY <1>1, <1>2, <1>3, <1>4, <1>5

(* One helper more.                                                        *)
LEMMA NowStep ==
  ASSUME NEW H, NEW p, NEW K, NEW Q, NEW x, Now(H, p, K, Q, x),
         NEW q, NEW L, Goes(p, K, q, L), NEW R, NEW y, Cert(Fn(q), L, R, y)
  PROVE  Now(H, q, L, R, y)
<1>1. Goes(parser, H, p, K) /\ text \in Texts /\ \A s \in H : s[1] \in Int
  BY DEF Now
<1>2. Goes(parser, H, q, L)
  BY <1>1, GoesTrans
<1>3. Fine(q) /\ Len(Fn(q).code) \in Nat
  BY DEF Goes, Mild, Tame, Typed
<1>4. y \in Nat /\ y # 0
  BY <1>3, CertInts
<1>. QED
  BY <1>1, <1>2, <1>3, <1>4 DEF Now

(* Tokens read.                                                            *)
LEMMA NowReads ==
  ASSUME NEW H, NEW p, NEW K, NEW Q, NEW x, Now(H, p, K, Q, x), NEW q, Mild(p, q), q.fns = p.fns
  PROVE  Now(H, q, K, Q, x) /\ Fn(q) = Fn(p)
<1>1. Fine(p) /\ text \in Texts /\ Cert(Fn(p), K, Q, x)
  BY DEF Now
<1>2. Goes(p, K, q, K) /\ Fn(q) = Fn(p)
  BY <1>1, ReadGoes
<1>3. Cert(Fn(q), K, Q, x)
  BY <1>1, <1>2
<1>. QED
  BY <1>2, <1>3, NowStep

(* An instruction without operand.                                         *)
LEMMA NowOp ==
  ASSUME NEW H, NEW p, NEW K, NEW Q, NEW x, Now(H, p, K, Q, x),
         NEW op \in OneByteOps, NEW q, q = EmitOp(p, op), NEW y \in Nat, y # 0,
         OneSuits(Fn(p), op, x, y)
  PROVE  \E L : Now(H, q, L, Q, y) /\ Goes(p, K, q, L)
<1>1. Fine(p) /\ text \in Texts /\ Cert(Fn(p), K, Q, x) /\ x \in Nat
  BY DEF Now
<1>2. PICK L : Goes(p, K, q, L) /\ Cert(Fn(q), L, Q, y)
  BY <1>1, OpGoes
<1>. QED
  BY <1>2, NowStep

(* An instruction with an operand.                                         *)
LEMMA NowOperand ==
  ASSUME NEW H, NEW p, NEW K, NEW Q, NEW x, Now(H, p, K, Q, x),
         NEW op \in TwoByteOps, NEW a \in Bytes, NEW q, q = Emit(p, WithOne(op, a)),
         NEW y \in Nat, y # 0, TwoSuits(Fn(p), op, a, x, y)
  PROVE  \E L : Now(H, q, L, Q, y) /\ Goes(p, K, q, L)
<1>1. Fine(p) /\ text \in Texts /\ Cert(Fn(p), K, Q, x) /\ x \in Nat
  BY DEF Now
<1>2. PICK L : Goes(p, K, q, L) /\ Cert(Fn(q), L, Q, y)
  BY <1>1, OperandGoes
<1>. QED
  BY <1>2, NowStep

(* A constant.                                                             *)
LEMMA NowConstant ==
  ASSUME NEW H, NEW p, NEW K, NEW Q, NEW x, Now(H, p, K, Q, x),
         NEW v, ~ IsFunc(v), NEW q, q = AddConstant(p, v)
  PROVE  /\ Now(H, q, K, Q, x)
         /\ ~ q.error => HasConstant(Fn(q), ConstantId(p)) /\ ConstantAt(Fn(q), ConstantId(p)) = v
<1>1. Fine(p) /\ text \in Texts /\ Cert(Fn(p), K, Q, x)
  BY DEF Now
<1>2. /\ Goes(p, K, q, K) /\ Cert(Fn(q), K, Q, x)
      /\ ~ q.error => HasConstant(Fn(q), ConstantId(p)) /\ ConstantAt(Fn(q), ConstantId(p)) = v
  BY <1>1, ConstantGoes
<1>. QED
  BY <1>2, NowStep

(* q is p with a jump more, which waits for its target at height x.        *)
Leapt(H, p, K, Q, q, L, R, x, y) ==
  /\ R = Q \cup {JumpOf(q) - 1} /\ Now(H, q, L, R, y) /\ Goes(p, K, q, L)
  /\ Hole(Fn(q), L, JumpOf(q), x)

(* A jump whose target waits.                                              *)
LEMMA NowJump ==
  ASSUME NEW H, NEW p, NEW K, NEW Q, NEW x, Now(H, p, K, Q, x),
         NEW op \in {"JMP", "JMP_FALSE"}, NEW q, q = EmitJump(p, op), NEW y \in Nat, y # 0,
         op = "JMP_FALSE" => x >= 2 /\ y = x
  PROVE  /\ JumpOf(q) \in Nat /\ JumpOf(q) = Count(p) + 1
         /\ \E L, R : Leapt(H, p, K, Q, q, L, R, x, y)
<1>1. Fine(p) /\ text \in Texts /\ Cert(Fn(p), K, Q, x) /\ x \in Nat
  BY DEF Now
<1>2. /\ JumpOf(q) \in Nat /\ JumpOf(q) = Count(p) + 1
      /\ \E L : Jumps(p, K, q, L, Q, x, y)
  <2>1. op = "JMP_FALSE" => x >= 2 /\ y = x
    OBVIOUS
  <2>. QED
    BY <1>1, <2>1, JumpGoes
<1>3. PICK L : Jumps(p, K, q, L, Q, x, y)
  BY <1>2
<1>. DEFINE R == Q \cup {JumpOf(q) - 1}
<1>7. R = Q \cup {JumpOf(q) - 1}
  OBVIOUS
<1>6. Goes(p, K, q, L) /\ Cert(Fn(q), L, R, y) /\ Hole(Fn(q), L, JumpOf(q), x)
  BY <1>3 DEF Jumps
<1>. HIDE DEF R
<1>4. Now(H, q, L, R, y)
  BY <1>6, NowStep
<1>5. Leapt(H, p, K, Q, q, L, R, x, y)
  BY <1>4, <1>6, <1>7 DEF Leapt
<1>. QED
  BY <1>2, <1>5

(* A jump back, to where the height was the same.                          *)
LEMMA NowLoop ==
  ASSUME NEW H, NEW p, NEW K, NEW Q, NEW x, Now(H, p, K, Q, x),
         NEW start \in Nat, start <= Count(p), <<start, x>> \in K,
         NEW q, q = EmitLoop(p, start), ~ q.error, NEW y \in Nat, y # 0
  PROVE  \E L : Now(H, q, L, Q, y) /\ Goes(p, K, q, L)
<1>1. Fine(p) /\ text \in Texts /\ Cert(Fn(p), K, Q, x) /\ x \in Nat
  BY DEF Now
<1>2. PICK L : Goes(p, K, q, L) /\ Cert(Fn(q), L, Q, y)
  BY <1>1, LoopGoes
<1>. QED
  BY <1>2, NowStep

(* The target of a jump is where the height is the same.                   *)
LEMMA NowPatch ==
  ASSUME NEW H, NEW p, NEW K, NEW Q, NEW x, Now(H, p, K, Q, x),
         NEW j, Open(Fn(p), j), Hole(Fn(p), K, j, x),
         NEW q, q = PatchJump(p, j), ~ q.error, NEW R, R = Q \ {j - 1}
  PROVE  Now(H, q, K, R, x) /\ Goes(p, K, q, K)
<1>1. Fine(p) /\ text \in Texts /\ Cert(Fn(p), K, Q, x)
  BY DEF Now
<1>2. Goes(p, K, q, K) /\ Cert(Fn(q), K, R, x)
  BY <1>1, PatchGoes
<1>3. Now(H, q, K, R, x)
  BY <1>2, NowStep
<1>. QED
  BY <1>2, <1>3

(* So the action ends: the call on top has returned.                       *)
LEMMA NowZero ==
  ASSUME CompilerInv, TextInv, todo # << >>, NEW H, NEW O, NEW e, NEW r, Begun(H, O, e, r),
         NEW q, NEW K, NEW Q, NEW x, Now(H, q, K, Q, x),
         Top.at \notin Bases \cup Scoped,
         Gives(Top) \/ Top.at \in Bodied => x = r[1].out,
         ~ Gives(Top) => x = Len(Fn(parser).locals), Held(Q, O, {})
  PROVE  TypedBy(Fn(q), << >> \o Tail(todo))
<1>1. Goes(parser, H, q, K) /\ Cert(Fn(q), K, Q, x)
  BY DEF Now
<1>. QED
  BY <1>1, EndZero

(* It goes on as one call.                                                 *)
LEMMA NowOne ==
  ASSUME CompilerInv, todo # << >>, NEW H, NEW O, NEW e, NEW r, Begun(H, O, e, r),
         NEW q, NEW K, NEW Q, NEW x, Now(H, q, K, Q, x),
         NEW c \in Calls, NEW u \in Nat, Fits(Fn(q), K, Rec(c, u, r[1].out, r[1].depth)),
         OnTop(c, u, x, Len(Fn(parser).locals)), Sc(c) = Sc(Top),
         c.at \in Bases <=> Top.at \in Bases, Held(Q, O, Holds(c))
  PROVE  TypedBy(Fn(q), <<c>> \o Tail(todo))
<1>1. Goes(parser, H, q, K) /\ Cert(Fn(q), K, Q, x)
  BY DEF Now
<1>. QED
  BY <1>1, EndOne

(* It has made a call, and goes on as another.                             *)
LEMMA NowTwo ==
  ASSUME CompilerInv, todo # << >>, NEW H, NEW O, NEW e, NEW r, Begun(H, O, e, r),
         NEW q, NEW K, NEW Q, NEW x, Now(H, q, K, Q, x),
         NEW c \in Calls, NEW u \in Nat, NEW w \in Nat, NEW a \in Calls, NEW v \in Nat,
         Fits(Fn(q), K, Rec(a, v, r[1].out, r[1].depth)),
         Fits(Fn(q), K, Rec(c, u, w, r[1].depth + Sc(a))),
         OnTop(c, u, x, Len(Fn(parser).locals)), a.at \notin Flexible => w = v,
         c.at \notin Bases \cup Scoped, Sc(a) = Sc(Top),
         a.at \in Bases <=> Top.at \in Bases, Held(Q, O, Holds(a) \cup Holds(c))
  PROVE  TypedBy(Fn(q), <<c, a>> \o Tail(todo))
<1>1. Goes(parser, H, q, K) /\ Cert(Fn(q), K, Q, x)
  BY DEF Now
<1>. QED
  BY <1>1, EndTwo

(* The jumps that wait still do, by another call.                          *)
LEMMA HeldSame ==
  ASSUME CompilerInv, todo # << >>, NEW O, NEW N, Top.at \notin Holders
  PROVE  Held(O, O, N)
<1>1. Top \in Calls
  BY TopIs
<1>2. Holds(Top) = {}
  BY <1>1, HoldsNothing DEF Holders
<1>. QED
  BY <1>2 DEF Held

(* So they do by what the call on top goes on as.                          *)
LEMMA HeldOn ==
  ASSUME NEW O, NEW N, Holds(Top) \subseteq N
  PROVE  Held(O, O, N)
BY DEF Held

(* The calls of expressions are none of the others.                        *)
LEMMA OutsideExpr ==
  /\ Bases \cap ExprCalls = {} /\ Scoped \cap ExprCalls = {} /\ Flexible \cap ExprCalls = {}
  /\ Bases \cap Scoped = {} /\ "precedence" \in ExprCalls
BY DEF Bases, InFunction, ExprCalls, Immediate, PrefixCalls, Scoped, Flexible

(* An expression leaves a value on what it finds.                          *)
LEMMA ExprFits ==
  ASSUME NEW f, NEW H, NEW prec \in Nat, NEW u \in Nat, u >= Slots(f), NEW d
  PROVE  Fits(f, H, Rec(Precedence(prec), u, u + 1, d))
<1>. DEFINE c == Precedence(prec)
<1>1. c.at = "precedence" /\ c.at \in ExprCalls
  BY CallForms, OutsideExpr
<1>. HIDE DEF c
<1>2. FitsExpression(f, c, u, u + 1)
  BY <1>1 DEF FitsExpression
<1>3. Fits(f, H, Rec(c, u, u + 1, d))
  BY <1>1, <1>2, FitsExpr
<1>. QED
  BY <1>3 DEF c

(* An expression, and then a call for its value.                           *)
LEMMA NowExpression ==
  ASSUME CompilerInv, todo # << >>, NEW H, NEW O, NEW e, NEW r, Begun(H, O, e, r),
         NEW q, NEW K, NEW Q, NEW x, Now(H, q, K, Q, x), x >= Slots(Fn(parser)),
         NEW prec \in Nat, NEW a \in Calls, NEW v, v = x + 1,
         Fits(Fn(q), K, Rec(a, v, r[1].out, r[1].depth)), Sc(a) = Sc(Top),
         a.at \notin Bases, Top.at \notin Bases, Held(Q, O, Holds(a))
  PROVE  TypedBy(Fn(q), <<Precedence(prec), a>> \o Tail(todo))
<1>. DEFINE c == Precedence(prec)  d == r[1].depth + Sc(a)
<1>1. /\ x \in Nat /\ Slots(Fn(q)) = Slots(Fn(parser)) /\ v \in Nat
  <2>1. x \in Nat /\ Slots(Fn(q)) = Slots(Fn(parser))
    BY NowIs
  <2>. QED
    BY <2>1
<1>2. c \in Calls /\ c.at = "precedence"
  BY CallForms
<1>3. Fits(Fn(q), K, Rec(c, x, v, d))
  BY <1>1, ExprFits
<1>. HIDE DEF c
<1>4. c.at \notin Bases \cup Scoped /\ OnTop(c, x, x, Len(Fn(parser).locals))
  BY <1>2, OutsideExpr DEF OnTop
<1>5. Holds(c) = {}
  BY <1>2, HoldsNothing
<1>6. Held(Q, O, Holds(a) \cup Holds(c))
  BY <1>5
<1>7. Fits(Fn(q), K, Rec(c, x, v, r[1].depth + Sc(a)))
  BY <1>3
<1>. HIDE DEF d
<1>8. TypedBy(Fn(q), <<c, a>> \o Tail(todo))
  BY <1>1, <1>2, <1>4, <1>6, <1>7, NowTwo
<1>. QED
  BY <1>8 DEF c
-----------------------------------------------------------------------------
(* Statements.                                                             *)

(* expression_statement: a value, which OP_POP takes.                      *)
LEMMA ExpressionStatementBalances ==
  ASSUME CompilerInv, TextInv, BalanceInv, ExpressionStatement
  PROVE  BalanceInv'
<1>. DEFINE a == Finish("SEMICOLON", <<Opcode["POP"]>>)
<1>1. todo # << >> /\ Top.at = "expression_statement" /\ Then(parser, <<Expression, a>>)
  BY DEF ExpressionStatement, At
<1>2. Fine(parser) /\ text \in Texts /\ Mild(parser, parser)
  BY <1>1, TopIs, ReadMild
<1>3. <<Opcode["POP"]>> \in Seq(Bytes)
  BY OpcodeIsByte DEF Emitted
<1>4. a \in Calls /\ a.at = "finish" /\ a.token = "SEMICOLON" /\ a.code = <<Opcode["POP"]>>
  BY <1>3, CallForms DEF Finish
<1>. HIDE DEF a
<1>5. ASSUME Live(parser) PROVE TypedBy(Fn(parser), <<Expression, a>> \o Tail(todo))
  <2>1. PICK H, O, e, r : Begun(H, O, e, r)
    BY <1>1, <1>2, <1>5, Begins
  <2>. DEFINE f == Fn(parser)  n == Len(f.locals)
  <2>2. Now(H, parser, H, O, e)
    BY <1>1, <2>1, NowBegins
  <2>3. /\ n \in Nat /\ Slots(f) = n /\ e = r[1].in /\ e = n
    BY <1>1, <2>1, BegunSlots, BegunTop DEF ExprCalls, Immediate, PrefixCalls, Takers,
       Flexible, Bases, InFunction
  <2>4. r[1].out = n
    BY <1>1, <2>1, <2>3, BegunFits DEF FitsStatement
  <2>5. FitsFinish(f, a, e + 1, r[1].out)
    BY <1>4, <2>3, <2>4 DEF FitsFinish
  <2>6. Fits(f, H, Rec(a, e + 1, r[1].out, r[1].depth))
    BY <1>4, <2>5, FitsFinishes
  <2>7. Sc(a) = Sc(Top) /\ a.at \notin Bases /\ Top.at \notin Bases /\ Top.at \notin Holders
    BY <1>1, <1>4 DEF Sc, Scoped, Bases, InFunction, Holders
  <2>8. Held(O, O, Holds(a))
    BY <1>1, <2>7, HeldSame
  <2>9. PREC_ASSIGN \in Nat
    BY DEF PREC_ASSIGN
  <2>. HIDE DEF f, n
  <2>10. e >= Slots(f)
    BY <2>3
  <2>. QED
    BY <1>1, <1>4, <2>1, <2>2, <2>6, <2>7, <2>8, <2>9, <2>10, NowExpression DEF Expression, f
<1>. QED
  BY <1>1, <1>2, <1>5, BalanceNext

(* A call of an expression is on top.                                      *)
LEMMA ExprTop ==
  ASSUME CompilerInv, todo # << >>, NEW H, NEW O, NEW e, NEW r, Begun(H, O, e, r),
         Top.at \in ExprCalls
  PROVE  /\ Top.at \notin Bases \cup Scoped /\ Top.at \notin Bases /\ Sc(Top) = 0 /\ e = r[1].in
         /\ e \in Nat /\ r[1].out \in Nat /\ Top.at \notin Holders
         /\ \A N : Held(O, O, N)
<1>1. Top.at \notin Bases \cup Scoped \cup Flexible
  BY OutsideExpr
<1>2. Sc(Top) = 0
  BY <1>1 DEF Sc
<1>3. Top.at \notin Holders
  BY DEF Holders, ExprCalls, Immediate, PrefixCalls
<1>4. \A N : Held(O, O, N)
  BY <1>3, HeldSame
<1>5. e = r[1].in /\ e \in Nat /\ r[1].out \in Nat
  BY <1>1, BegunTop
<1>. QED
  BY <1>1, <1>2, <1>3, <1>4, <1>5

(* An expression's call that returns.                                      *)
LEMMA ExprZero ==
  ASSUME CompilerInv, TextInv, todo # << >>, NEW H, NEW O, NEW e, NEW r, Begun(H, O, e, r),
         Top.at \in ExprCalls, Top.at # "finish",
         NEW q, NEW K, Now(H, q, K, O, r[1].out)
  PROVE  TypedBy(Fn(q), << >> \o Tail(todo))
<1>1. Top.at \notin Bases \cup Scoped /\ Held(O, O, {})
  BY ExprTop
<1>2. Gives(Top)
  BY DEF Gives
<1>. QED
  BY <1>1, <1>2, NowZero

(* What is left of one is an expression's call.                            *)
LEMMA ExprOne ==
  ASSUME CompilerInv, todo # << >>, NEW H, NEW O, NEW e, NEW r, Begun(H, O, e, r),
         Top.at \in ExprCalls, NEW q, NEW K, NEW x, Now(H, q, K, O, x),
         NEW c \in Calls, c.at \in ExprCalls, Fits(Fn(q), K, Rec(c, x, r[1].out, r[1].depth))
  PROVE  TypedBy(Fn(q), <<c>> \o Tail(todo))
<1>1. Top.at \notin Bases /\ Sc(Top) = 0 /\ Held(O, O, Holds(c)) /\ x \in Nat
  BY ExprTop, NowIs
<1>2. c.at \notin Bases \cup Scoped \cup Flexible
  BY OutsideExpr
<1>3. Sc(c) = 0 /\ OnTop(c, x, x, Len(Fn(parser).locals))
  BY <1>2 DEF Sc, OnTop
<1>. QED
  BY <1>1, <1>2, <1>3, NowOne

(* It makes a call of an expression, and goes on as one.                   *)
LEMMA ExprTwo ==
  ASSUME CompilerInv, todo # << >>, NEW H, NEW O, NEW e, NEW r, Begun(H, O, e, r),
         Top.at \in ExprCalls, NEW q, NEW K, NEW x, Now(H, q, K, O, x),
         NEW c \in Calls, c.at \in ExprCalls, NEW a \in Calls, a.at \in ExprCalls, NEW v \in Nat,
         Fits(Fn(q), K, Rec(a, v, r[1].out, r[1].depth)),
         Fits(Fn(q), K, Rec(c, x, v, r[1].depth))
  PROVE  TypedBy(Fn(q), <<c, a>> \o Tail(todo))
<1>1. /\ Top.at \notin Bases /\ Sc(Top) = 0 /\ Held(O, O, Holds(a) \cup Holds(c)) /\ x \in Nat
      /\ r[1].depth \in Nat
  BY ExprTop, NowIs, BegunTop
<1>2. c.at \notin Bases \cup Scoped \cup Flexible /\ a.at \notin Bases \cup Scoped \cup Flexible
  BY OutsideExpr
<1>3. Sc(a) = 0 /\ OnTop(c, x, x, Len(Fn(parser).locals)) /\ r[1].depth + Sc(a) = r[1].depth
  BY <1>1, <1>2 DEF Sc, OnTop
<1>4. Fits(Fn(q), K, Rec(c, x, v, r[1].depth + Sc(a)))
  BY <1>3
<1>5. Sc(a) = Sc(Top) /\ (a.at \in Bases <=> Top.at \in Bases) /\ c.at \notin Bases \cup Scoped
  BY <1>1, <1>2, <1>3
<1>. QED
  BY <1>1, <1>3, <1>4, <1>5, NowTwo

(* It makes an expression, and goes on as one.                             *)
LEMMA ExprThen ==
  ASSUME CompilerInv, todo # << >>, NEW H, NEW O, NEW e, NEW r, Begun(H, O, e, r),
         Top.at \in ExprCalls, NEW q, NEW K, NEW x, Now(H, q, K, O, x), x >= Slots(Fn(parser)),
         NEW prec \in Nat, NEW a \in Calls, a.at \in ExprCalls, NEW v, v = x + 1,
         Fits(Fn(q), K, Rec(a, v, r[1].out, r[1].depth))
  PROVE  TypedBy(Fn(q), <<Precedence(prec), a>> \o Tail(todo))
<1>1. Top.at \notin Bases /\ Sc(Top) = 0 /\ Held(O, O, Holds(a))
  BY ExprTop
<1>2. a.at \notin Bases \cup Scoped
  BY OutsideExpr
<1>3. Sc(a) = Sc(Top) /\ a.at \notin Bases
  BY <1>1, <1>2 DEF Sc
<1>. QED
  BY <1>1, <1>3, NowExpression
-----------------------------------------------------------------------------

(* Nothing emitted is nothing done.                                        *)
LEMMA NoCode ==
  ASSUME NEW p, Fine(p), NEW q, q = Emit(p, << >>)
  PROVE  q.fns = p.fns
<1>1. PICK S : Sound(p, S)
  BY DEF Fine
<1>2. /\ p.fns \in Seq(FnSet(S)) /\ Len(p.fns) \in 1 .. Len(p.fns) /\ Fn(p) = p.fns[Len(p.fns)]
      /\ Fn(p) \in FnSet(S) /\ Fn(p).code \in Seq(Bytes)
  BY <1>1, FnIs
<1>3. Fn(p).code \o << >> = Fn(p).code
  BY <1>2, ConcatEmptySeq
<1>4. [Fn(p) EXCEPT !.code = Fn(p).code \o << >>] = Fn(p)
  BY <1>2, <1>3 DEF FnSet
<1>5. q = WithFn(p, Fn(p))
  BY <1>4 DEF Emit
<1>6. p \in ParserSet(S)
  BY <1>1 DEF Sound
<1>7. q.fns = [p.fns EXCEPT ![Len(p.fns)] = Fn(p)]
  BY <1>5, <1>6 DEF WithFn, ParserSet
<1>. QED
  BY <1>2, <1>7

(* What is left of an expression once its operand is there.                *)
LEMMA FinishGoes ==
  ASSUME CompilerInv, todo # << >>, NEW H, NEW O, NEW e, NEW r, Begun(H, O, e, r),
         Top.at = "finish", NEW p, Now(H, p, H, O, e), Fn(p) = Fn(parser),
         NEW q, q = Emit(p, Top.code)
  PROVE  \E K : Now(H, q, K, O, r[1].out)
<1>. DEFINE f == Fn(parser)  u == r[1].in  w == r[1].out  c == Top
<1>1. /\ e = u /\ u \in Nat /\ w \in Nat /\ Fine(p)
      /\ Slots(f) \in Nat /\ Slots(f) >= 1 /\ Slots(f) <= Len(f.locals) /\ Len(f.locals) \in Nat
  <2>1. Top.at \in ExprCalls
    BY DEF ExprCalls
  <2>2. e = u /\ u \in Nat /\ w \in Nat
    BY <2>1, ExprTop
  <2>3. Fine(p)
    BY NowIs
  <2>. QED
    BY <2>2, <2>3, BegunSlots
<1>2. FitsFinish(f, c, u, w)
  BY BegunFits
<1>3. c \in Calls /\ c.code \in Seq(Bytes)
  BY TopIs DEF Calls, PlainCalls, PrefixCalls, InFunction
<1>. HIDE DEF c, u, w
<1>. USE DEF f
<1>4. \/ u = w + 1 /\ w >= 1 /\ c.code = <<Opcode["POP"]>>
      \/ u = w + 1 /\ w >= 1 /\ c.code = <<Opcode["RETURN"]>> /\ f.type # "SCRIPT"
      \/ w = u /\ c.code = << >>
      \/ w = u /\ u >= 2 /\ c.code = <<Opcode["NOT"]>>
      \/ w = u /\ u >= 2 /\ \E a \in Nat : a < u /\ c.code = <<Opcode["SET_LOCAL"], a>>
      \/ w = u /\ u >= 2 /\ \E a \in Nat : IsName(f, a) /\ c.code = <<Opcode["SET_GLOBAL"], a>>
  BY <1>1, <1>2 DEF FitsFinish, c
<1>5. CASE u = w + 1 /\ w >= 1 /\ c.code = <<Opcode["POP"]>>
  <2>1. q = EmitOp(p, "POP") /\ "POP" \in OneByteOps /\ OneSuits(Fn(p), "POP", e, w) /\ w # 0
    BY <1>1, <1>5 DEF EmitOp, c, OneByteOps, OneSuits, u
  <2>. QED
    BY <1>1, <2>1, NowOp DEF w
<1>6. CASE u = w + 1 /\ w >= 1 /\ c.code = <<Opcode["RETURN"]>> /\ f.type # "SCRIPT"
  <2>1. q = EmitOp(p, "RETURN") /\ "RETURN" \in OneByteOps /\ OneSuits(Fn(p), "RETURN", e, w) /\ w # 0
    BY <1>1, <1>6 DEF EmitOp, c, OneByteOps, OneSuits, u
  <2>. QED
    BY <1>1, <2>1, NowOp DEF w
<1>7. CASE w = u /\ c.code = << >>
  <2>1. q = Emit(p, << >>)
    BY <1>7 DEF c
  <2>2. q.fns = p.fns /\ << >> \in Seq(Bytes)
    BY <1>1, <2>1, NoCode, EmptySeq
  <2>3. Mild(p, q)
    BY <1>1, <2>1, <2>2, EmitMild
  <2>4. Now(H, q, H, O, e)
    BY <2>2, <2>3, NowReads
  <2>. QED
    BY <1>1, <1>7, <2>4 DEF w, u
<1>8. CASE w = u /\ u >= 2 /\ c.code = <<Opcode["NOT"]>>
  <2>1. q = EmitOp(p, "NOT") /\ "NOT" \in OneByteOps /\ OneSuits(Fn(p), "NOT", e, w) /\ w # 0
    BY <1>1, <1>8 DEF EmitOp, c, OneByteOps, OneSuits, u
  <2>. QED
    BY <1>1, <2>1, NowOp DEF w
<1>9. CASE w = u /\ u >= 2 /\ \E a \in Nat : a < u /\ c.code = <<Opcode["SET_LOCAL"], a>>
  <2>1. PICK a \in Nat : a < u /\ c.code = WithOne("SET_LOCAL", a)
    BY <1>9 DEF WithOne
  <2>2. a \in Bytes
    BY <1>3, <2>1 DEF WithOne
  <2>3. /\ q = Emit(p, WithOne("SET_LOCAL", a)) /\ "SET_LOCAL" \in TwoByteOps
        /\ TwoSuits(Fn(p), "SET_LOCAL", a, e, w) /\ w # 0
    BY <1>1, <1>9, <2>1 DEF c, TwoByteOps, TwoSuits, u
  <2>. QED
    BY <1>1, <2>2, <2>3, NowOperand DEF w
<1>10. CASE w = u /\ u >= 2 /\ \E a \in Nat : IsName(f, a) /\ c.code = <<Opcode["SET_GLOBAL"], a>>
  <2>1. PICK a \in Nat : IsName(f, a) /\ c.code = WithOne("SET_GLOBAL", a)
    BY <1>10 DEF WithOne
  <2>2. a \in Bytes
    BY <1>3, <2>1 DEF WithOne
  <2>3. /\ q = Emit(p, WithOne("SET_GLOBAL", a)) /\ "SET_GLOBAL" \in TwoByteOps
        /\ TwoSuits(Fn(p), "SET_GLOBAL", a, e, w) /\ w # 0
    BY <1>1, <1>10, <2>1 DEF c, TwoByteOps, TwoSuits, u
  <2>. QED
    BY <1>1, <2>2, <2>3, NowOperand DEF w
<1>. QED
  BY <1>4, <1>5, <1>6, <1>7, <1>8, <1>9, <1>10

(* The last instruction of a parse function is on what its expression      *)
(* leaves.                                                                 *)
LEMMA FinishCallBalances ==
  ASSUME CompilerInv, TextInv, BalanceInv, FinishCall
  PROVE  BalanceInv'
<1>. DEFINE p == IF Top.token = None THEN parser ELSE Consume(parser, Top.token)
            q == Emit(p, Top.code)
<1>1. todo # << >> /\ Top.at = "finish" /\ Then(q, << >>)
  BY DEF FinishCall, At, Return
<1>2. Fine(parser) /\ text \in Texts /\ Top \in Calls
  BY <1>1, TopIs
<1>3. Top.code \in Seq(Bytes)
  BY <1>1, <1>2 DEF Calls, PlainCalls, PrefixCalls, InFunction
<1>4. Mild(parser, p) /\ Fine(p) /\ p.fns = parser.fns
  <2>1. Mild(parser, p) /\ p.fns = parser.fns
    BY <1>2, ReadMild, ReadIs
  <2>. QED
    BY <2>1 DEF Mild, Tame
<1>. HIDE DEF p
<1>5. Mild(p, q) /\ Mild(parser, q)
  BY <1>3, <1>4, EmitMild, MildTrans
<1>0. q = Emit(p, Top.code)
  OBVIOUS
<1>. HIDE DEF q
<1>6. ASSUME Live(q) PROVE TypedBy(Fn(q), << >> \o Tail(todo))
  <2>1. PICK H, O, e, r : Begun(H, O, e, r)
    BY <1>1, <1>5, <1>6, Begins
  <2>2. Now(H, parser, H, O, e)
    BY <1>1, <2>1, NowBegins
  <2>3. Now(H, p, H, O, e) /\ Fn(p) = Fn(parser)
    BY <1>4, <2>2, NowReads
  <2>4. PICK K : Now(H, q, K, O, r[1].out)
    BY <1>0, <1>1, <2>1, <2>3, FinishGoes
  <2>5. Top.at \in ExprCalls
    BY <1>1 DEF ExprCalls
  <2>6. Top.at \notin Bases \cup Scoped /\ Held(O, O, {})
    BY <1>1, <2>1, <2>5, ExprTop
  <2>7. ~ Gives(Top) => r[1].out = Len(Fn(parser).locals)
    BY <1>1, <2>1, <2>5, BegunFits DEF Gives, FitsFinish
  <2>. QED
    BY <1>1, <2>1, <2>4, <2>6, <2>7, NowZero
<1>. QED
  BY <1>1, <1>5, <1>6, BalanceNext

(* precedence calls the function of the token: it leaves one value.        *)
LEMMA PrefixRuleBalances ==
  ASSUME CompilerInv, TextInv, BalanceInv, PrefixRule
  PROVE  BalanceInv'
<1>. DEFINE q == Advance(parser)  prefix == GetRule(q.previous.type).prefix
            a == [at |-> prefix, canAssign |-> Top.prec <= PREC_ASSIGN]
            b == [Top EXCEPT !.at = "infix"]
<1>1. /\ todo # << >> /\ Top.at = "precedence"
      /\ IF prefix = None THEN Return(ErrorAt(q)) ELSE Then(q, <<a, b>>)
  BY DEF PrefixRule, At
<1>2. Fine(parser) /\ text \in Texts /\ Mild(parser, q) /\ q.fns = parser.fns /\ Top \in Calls
  BY <1>1, TopIs, ReadMild, ReadIs
<1>3. Top.at \in ExprCalls
  BY <1>1 DEF ExprCalls
<1>4. CASE prefix = None
  <2>1. Fine(q)
    BY <1>2 DEF Mild, Tame
  <2>2. Mild(q, ErrorAt(q)) /\ ErrorAt(q).error
    BY <1>2, <2>1, ReadMild, ErrorsStay
  <2>3. Mild(parser, ErrorAt(q)) /\ Then(ErrorAt(q), << >>) /\ ~ Live(ErrorAt(q))
    BY <1>1, <1>2, <1>4, <2>2, MildTrans DEF Return, Live
  <2>. QED
    BY <1>1, <2>3, BalanceNext
<1>5. CASE prefix # None
  <2>1. b \in Calls /\ b.at = "infix"
    <3>1. Top \in [at : {"precedence", "infix"}, prec : Nat]
      BY <1>1, <1>2 DEF Calls, PlainCalls, PrefixCalls, InFunction
    <3>2. b \in [at : {"precedence", "infix"}, prec : Nat] /\ b.at = "infix"
      BY <3>1
    <3>. QED
      BY <3>2 DEF Calls
  <2>2. a \in Calls /\ a.at \in PrefixCalls
    <3>1. prefix \in PrefixCalls
      BY <1>5, RuleIs
    <3>2. a \in [at : PrefixCalls, canAssign : BOOLEAN] /\ a.at \in PrefixCalls
      BY <3>1
    <3>. QED
      BY <3>2 DEF Calls
  <2>3. Then(q, <<a, b>>)
    BY <1>1, <1>5
  <2>. HIDE DEF a, b, q
  <2>4. a.at \in ExprCalls /\ a.at # "finish" /\ b.at \in ExprCalls
    BY <2>1, <2>2 DEF ExprCalls, Immediate, PrefixCalls
  <2>5. ASSUME Live(q) PROVE TypedBy(Fn(q), <<a, b>> \o Tail(todo))
    <3>1. PICK H, O, e, r : Begun(H, O, e, r)
      BY <1>1, <1>2, <2>5, Begins
    <3>2. Now(H, parser, H, O, e)
      BY <1>1, <3>1, NowBegins
    <3>3. Now(H, q, H, O, e) /\ Fn(q) = Fn(parser)
      BY <1>2, <3>2, NowReads
    <3>. DEFINE f == Fn(parser)  w == r[1].out
    <3>4. e \in Nat /\ w \in Nat /\ e = r[1].in
      BY <1>1, <1>3, <3>1, ExprTop
    <3>5. e >= Slots(f) /\ w = e + 1 /\ Slots(f) \in Nat
      BY <1>1, <3>1, <3>4, BegunFits, BegunSlots DEF FitsExpression
    <3>6. FitsExpression(f, a, e, w)
      BY <2>2, <3>5 DEF FitsExpression, PrefixCalls
    <3>7. FitsExpression(f, b, w, w)
      BY <2>1, <3>4, <3>5 DEF FitsExpression, PrefixCalls
    <3>8. Fits(Fn(q), H, Rec(a, e, w, r[1].depth))
      BY <2>4, <3>3, <3>6, FitsExpr
    <3>9. Fits(Fn(q), H, Rec(b, w, w, r[1].depth))
      BY <2>1, <2>4, <3>3, <3>7, FitsExpr
    <3>. HIDE DEF f
    <3>. QED
      BY <1>1, <1>3, <2>1, <2>2, <2>4, <3>1, <3>3, <3>4, <3>8, <3>9, ExprTwo
  <2>. QED
    BY <1>1, <1>2, <2>3, <2>5, BalanceNext
<1>. QED
  BY <1>4, <1>5

(* It goes on while operators follow: each takes the value and leaves one. *)
LEMMA InfixRuleBalances ==
  ASSUME CompilerInv, TextInv, BalanceInv, InfixRule
  PROVE  BalanceInv'
<1>. DEFINE rule == GetRule(parser.current.type)  q == Advance(parser)  a == Do(rule.infix)
            p == IF Top.prec <= PREC_ASSIGN /\ Check(parser, "ASSIGN") THEN ErrorAt(q) ELSE parser
<1>1. /\ todo # << >> /\ Top.at = "infix"
      /\ IF Top.prec < rule.precedence THEN Then(q, <<a, Top>>) ELSE Return(p)
  BY DEF InfixRule, At
<1>2. /\ Fine(parser) /\ text \in Texts /\ Mild(parser, q) /\ Top \in Calls /\ Fine(q)
      /\ q.fns = parser.fns /\ Mild(parser, parser)
  <2>1. Fine(parser) /\ text \in Texts /\ Mild(parser, q) /\ Top \in Calls /\ Mild(parser, parser)
        /\ q.fns = parser.fns
    BY <1>1, TopIs, ReadMild, ReadIs
  <2>. QED
    BY <2>1 DEF Mild, Tame
<1>3. Top.at \in ExprCalls /\ Top.at # "finish"
  BY <1>1 DEF ExprCalls
<1>4. CASE Top.prec < rule.precedence
  <2>1. a \in Calls /\ a.at \in {"binary", "call"}
    <3>1. Top \in [at : {"precedence", "infix"}, prec : Nat]
      BY <1>1, <1>2 DEF Calls, PlainCalls, PrefixCalls, InFunction
    <3>2. rule.precedence # 0 /\ rule.infix \in {"binary", "call"}
      BY <1>4, <3>1, RuleIs
    <3>. QED
      BY <3>2, CallForms DEF PlainCalls
  <2>2. Then(q, <<a, Top>>)
    BY <1>1, <1>4
  <2>. HIDE DEF a, q
  <2>3. a.at \in ExprCalls /\ a.at # "finish"
    BY <2>1 DEF ExprCalls, Immediate
  <2>4. ASSUME Live(q) PROVE TypedBy(Fn(q), <<a, Top>> \o Tail(todo))
    <3>1. PICK H, O, e, r : Begun(H, O, e, r)
      BY <1>1, <1>2, <2>4, Begins
    <3>2. Now(H, parser, H, O, e)
      BY <1>1, <3>1, NowBegins
    <3>3. Now(H, q, H, O, e) /\ Fn(q) = Fn(parser)
      BY <1>2, <3>2, NowReads
    <3>. DEFINE f == Fn(parser)  w == r[1].out
    <3>4. e \in Nat /\ w \in Nat /\ e = r[1].in
      BY <1>1, <1>3, <3>1, ExprTop
    <3>5. e > Slots(f) /\ w = e /\ Slots(f) \in Nat /\ FitsExpression(f, Top, w, w)
      BY <1>1, <3>1, <3>4, BegunFits, BegunSlots DEF FitsExpression
    <3>6. FitsExpression(f, a, w, w)
      BY <2>1, <3>5 DEF FitsExpression, PrefixCalls
    <3>8. Fits(Fn(q), H, Rec(a, e, w, r[1].depth))
      BY <2>3, <3>3, <3>5, <3>6, FitsExpr
    <3>9. Fits(Fn(q), H, Rec(Top, w, w, r[1].depth))
      BY <1>3, <3>3, <3>5, FitsExpr
    <3>. HIDE DEF f
    <3>. QED
      BY <1>1, <1>2, <1>3, <2>1, <2>3, <3>1, <3>3, <3>4, <3>8, <3>9, ExprTwo
  <2>. QED
    BY <1>1, <1>2, <2>2, <2>4, BalanceNext
<1>5. CASE ~ (Top.prec < rule.precedence)
  <2>1. Then(p, << >>) /\ (p = ErrorAt(q) \/ p = parser)
    BY <1>1, <1>5 DEF Return
  <2>. HIDE DEF p, q
  <2>2. Mild(q, ErrorAt(q)) /\ ErrorAt(q).error
    BY <1>2, ReadMild, ErrorsStay
  <2>3. Mild(parser, ErrorAt(q)) /\ ~ Live(ErrorAt(q))
    BY <1>2, <2>2, MildTrans DEF Live
  <2>4. Mild(parser, p) /\ (Live(p) => p = parser)
    BY <1>2, <2>1, <2>3
  <2>5. ASSUME Live(p) PROVE TypedBy(Fn(p), << >> \o Tail(todo))
    <3>1. PICK H, O, e, r : Begun(H, O, e, r)
      BY <1>1, <2>4, <2>5, Begins
    <3>2. Now(H, parser, H, O, e)
      BY <1>1, <3>1, NowBegins
    <3>3. e = r[1].in /\ r[1].out = e
      BY <1>1, <1>3, <3>1, ExprTop, BegunFits DEF FitsExpression
    <3>. QED
      BY <1>1, <1>3, <2>4, <2>5, <3>1, <3>2, <3>3, ExprZero
  <2>. QED
    BY <1>1, <2>1, <2>4, <2>5, BalanceNext
<1>. QED
  BY <1>4, <1>5

(* No token of a plain text is one of the gaps.                            *)
LEMMA PlainReads ==
  ASSUME TextInv, Plain
  PROVE  parser.previous.type \notin Gaps
BY DEF TextInv, ReadOK, Plain, Gaps, EOF, NoToken, Token

(* number and string leave their constant.                                 *)
LEMMA ConstantBalances ==
  ASSUME CompilerInv, TextInv, BalanceInv, Constant
  PROVE  BalanceInv'
<1>. DEFINE v == Literal[parser.previous.text]  p == AddConstant(parser, v)
            q == EmitConstant(parser, v)
<1>1. todo # << >> /\ Top.at \in {"number", "string"} /\ Then(q, << >>)
  BY DEF Constant, At, Return
<1>2. Fine(parser) /\ text \in Texts /\ Still(parser, q) /\ parser.previous \in Tokens
  BY <1>1, TopIs, TopReads, HelpersStill, FineFn
<1>3. ASSUME ~ q.error, Plain
      PROVE  ~ IsFunc(v)
  <2>1. ~ parser.error
    BY <1>2, <1>3 DEF Still
  <2>2. Settles(Top, parser)
    BY <1>1, <1>3, <2>1, TopReads
  <2>3. GetRule(parser.previous.type).prefix \in {"number", "string"}
    BY <1>1, <2>2 DEF Settles, PrefixCalls
  <2>4. parser.previous.type \in {"NUMBER", "INT", "STRING"}
    BY <2>3 DEF GetRule, Rule, Prefix, Binary, None
  <2>. QED
    BY <1>2, <2>4, LiteralAssumption
<1>. HIDE DEF v
<1>4. ~ q.error /\ Plain => Mild(parser, q) /\ Mild(parser, p) /\ Mild(p, q)
  <2>1. SUFFICES ASSUME ~ IsFunc(v)
                 PROVE  Mild(parser, q) /\ Mild(parser, p) /\ Mild(p, q)
    BY <1>3
  <2>2. Mild(parser, q) /\ Mild(parser, p)
    BY <1>2, <2>1, EmitConstantMild, AddConstantMild
  <2>3. Fine(p) /\ <<Opcode["CONSTANT"], ConstantId(parser)>> \in Seq(Bytes)
    BY <1>2, <2>2, OpcodeIsByte, HelpersKeep DEF Mild, Tame, Emitted
  <2>4. q = Emit(p, <<Opcode["CONSTANT"], ConstantId(parser)>>)
    BY DEF EmitConstant
  <2>. HIDE DEF p, q
  <2>5. Mild(p, q)
    BY <2>3, <2>4, EmitMild
  <2>. QED
    BY <2>2, <2>5
<1>5. ASSUME Live(q) PROVE TypedBy(Fn(q), << >> \o Tail(todo))
  <2>1. Mild(parser, q) /\ Mild(p, q) /\ ~ IsFunc(v) /\ ~ p.error
    BY <1>3, <1>4, <1>5 DEF Live, Mild
  <2>2. PICK H, O, e, r : Begun(H, O, e, r)
    BY <1>1, <1>5, <2>1, Begins
  <2>3. Now(H, parser, H, O, e)
    BY <1>1, <2>2, NowBegins
  <2>4. Now(H, p, H, O, e) /\ HasConstant(Fn(p), ConstantId(parser))
    BY <2>1, <2>3, NowConstant
  <2>5. e \in Nat /\ e = r[1].in /\ r[1].out = e + 1 /\ Top.at \in ExprCalls /\ Top.at # "finish"
    <3>1. Top.at \in ExprCalls /\ Top.at # "finish" /\ Top.at \in PrefixCalls
      BY <1>1 DEF ExprCalls, Immediate, PrefixCalls
    <3>. QED
      BY <1>1, <2>2, <3>1, ExprTop, BegunFits DEF FitsExpression
  <2>6. ConstantId(parser) \in Bytes
    BY <1>2, HelpersKeep
  <2>7. q = Emit(p, WithOne("CONSTANT", ConstantId(parser))) /\ "CONSTANT" \in TwoByteOps
    BY DEF EmitConstant, WithOne, TwoByteOps
  <2>. DEFINE a == ConstantId(parser)
  <2>. HIDE DEF p, q, a
  <2>8. TwoSuits(Fn(p), "CONSTANT", a, e, r[1].out)
    BY <2>4, <2>5 DEF TwoSuits, a
  <2>9. q = Emit(p, WithOne("CONSTANT", a)) /\ a \in Bytes
    BY <2>6, <2>7 DEF a
  <2>10. r[1].out \in Nat /\ r[1].out # 0
    BY <2>5
  <2>11. PICK K : Now(H, q, K, O, r[1].out)
    BY <2>4, <2>7, <2>8, <2>9, <2>10, NowOperand
  <2>. QED
    BY <1>1, <2>2, <2>5, <2>11, ExprZero
<1>. HIDE DEF q
<1>. QED
  BY <1>1, <1>4, <1>5, BalanceNext

(* literal leaves nil; true and false emit nothing, and are gaps.          *)
LEMMA LiteralValueBalances ==
  ASSUME CompilerInv, TextInv, BalanceInv, LiteralValue
  PROVE  BalanceInv'
<1>. DEFINE op == parser.previous.type  q == EmitOp(parser, op)
<1>1. todo # << >> /\ Top.at = "literal" /\ Then(q, << >>)
  BY DEF LiteralValue, At, Return
<1>2. Fine(parser) /\ op \in {"TRUE", "FALSE"}
  BY <1>1, TopIs DEF CompilerInv, TodoOK, At
<1>3. Mild(parser, q)
  BY <1>2, EmitOpMild DEF Emitted
<1>4. ~ Plain
  BY <1>2, PlainReads DEF Gaps
<1>. QED
  BY <1>1, <1>3, <1>4, BalanceNext DEF Live

(* grouping leaves what its expression does.                               *)
LEMMA GroupingBalances ==
  ASSUME CompilerInv, TextInv, BalanceInv, Grouping
  PROVE  BalanceInv'
<1>. DEFINE a == Finish("R_PAREN", << >>)
<1>1. todo # << >> /\ Top.at = "grouping" /\ Then(parser, <<Expression, a>>)
  BY DEF Grouping, At
<1>2. Fine(parser) /\ text \in Texts /\ Mild(parser, parser)
  BY <1>1, TopIs, ReadMild
<1>3. a \in Calls /\ a.at = "finish" /\ a.token = "R_PAREN" /\ a.code = << >>
  BY CodesAre, CallForms DEF Finish
<1>. HIDE DEF a
<1>4. a.at \in ExprCalls /\ Top.at \in ExprCalls
  BY <1>1, <1>3 DEF ExprCalls, Immediate, PrefixCalls
<1>5. ASSUME Live(parser) PROVE TypedBy(Fn(parser), <<Expression, a>> \o Tail(todo))
  <2>1. PICK H, O, e, r : Begun(H, O, e, r)
    BY <1>1, <1>2, <1>5, Begins
  <2>2. Now(H, parser, H, O, e)
    BY <1>1, <2>1, NowBegins
  <2>. DEFINE f == Fn(parser)  w == r[1].out
  <2>3. /\ e \in Nat /\ e = r[1].in /\ w = e + 1 /\ e >= Slots(f) /\ Slots(f) \in Nat
    BY <1>1, <1>4, <2>1, ExprTop, BegunFits, BegunSlots DEF FitsExpression, PrefixCalls
  <2>4. FitsFinish(f, a, w, w)
    BY <1>3, <2>3 DEF FitsFinish
  <2>5. Fits(f, H, Rec(a, w, w, r[1].depth))
    BY <1>3, <2>4, FitsFinishes
  <2>6. PREC_ASSIGN \in Nat
    BY DEF PREC_ASSIGN
  <2>. HIDE DEF f
  <2>. QED
    BY <1>1, <1>3, <1>4, <2>1, <2>2, <2>3, <2>5, <2>6, ExprThen DEF Expression, f
<1>. QED
  BY <1>1, <1>2, <1>5, BalanceNext

(* unary's operand is negated in place; a minus emits nothing, and is not  *)
(* in a plain text.                                                        *)
LEMMA UnaryBalances ==
  ASSUME CompilerInv, TextInv, BalanceInv, Unary
  PROVE  BalanceInv'
<1>. DEFINE op == IF parser.previous.type = "EXCL" THEN "NOT" ELSE "NEGATE"
            a == Finish(None, <<Opcode[op]>>)
<1>1. todo # << >> /\ Top.at = "unary" /\ Then(parser, <<Precedence(PREC_UNARY), a>>)
  BY DEF Unary, At
<1>2. Fine(parser) /\ text \in Texts /\ Mild(parser, parser)
  BY <1>1, TopIs, ReadMild
<1>3. a \in Calls /\ a.at = "finish" /\ a.token = None /\ a.code = <<Opcode[op]>>
  <2>1. op \in Emitted
    BY DEF Emitted
  <2>2. <<Opcode[op]>> \in Seq(Bytes)
    BY <2>1, CodesAre
  <2>. HIDE DEF op
  <2>. QED
    BY <2>2, CallForms DEF Finish
<1>. HIDE DEF a
<1>4. a.at \in ExprCalls /\ Top.at \in ExprCalls
  BY <1>1, <1>3 DEF ExprCalls, Immediate, PrefixCalls
<1>5. ASSUME Live(parser) PROVE TypedBy(Fn(parser), <<Precedence(PREC_UNARY), a>> \o Tail(todo))
  <2>1. PICK H, O, e, r : Begun(H, O, e, r)
    BY <1>1, <1>2, <1>5, Begins
  <2>2. Now(H, parser, H, O, e)
    BY <1>1, <2>1, NowBegins
  <2>. DEFINE f == Fn(parser)  w == r[1].out
  <2>3. /\ e \in Nat /\ e = r[1].in /\ w = e + 1 /\ e >= Slots(f) /\ Slots(f) \in Nat
    BY <1>1, <1>4, <2>1, ExprTop, BegunFits, BegunSlots DEF FitsExpression, PrefixCalls
  <2>4. op = "NOT"
    <3>1. Settles(Top, parser)
      BY <1>1, <1>5, TopReads DEF Live
    <3>2. parser.previous.type = "EXCL"
      BY <1>1, <3>1, OpensAre DEF Settles, PrefixCalls
    <3>. QED
      BY <3>2
  <2>8. a.code = <<Opcode["NOT"]>> /\ a.token # "SEMICOLON"
    BY <1>3, <2>4 DEF None
  <2>5. FitsFinish(f, a, w, w)
    BY <2>3, <2>8 DEF FitsFinish
  <2>6. Fits(f, H, Rec(a, w, w, r[1].depth))
    BY <1>3, <2>5, FitsFinishes
  <2>7. PREC_UNARY \in Nat
    BY DEF PREC_UNARY
  <2>. HIDE DEF f
  <2>. QED
    BY <1>1, <1>3, <1>4, <2>1, <2>2, <2>3, <2>6, <2>7, ExprThen DEF f
<1>. QED
  BY <1>1, <1>2, <1>5, BalanceNext

(* binary's second operand is on its first.                                *)
LEMMA BinaryRightBalances ==
  ASSUME CompilerInv, TextInv, BalanceInv, BinaryRight
  PROVE  BalanceInv'
<1>. DEFINE a == [at |-> "binary_end", type |-> parser.previous.type,
                  left |-> parser.preprevious.type]
            prec == GetRule(parser.previous.type).precedence + 1
<1>1. todo # << >> /\ Top.at = "binary" /\ Then(parser, <<Precedence(prec), a>>)
  BY DEF BinaryRight, At
<1>2. Fine(parser) /\ text \in Texts /\ Mild(parser, parser)
  BY <1>1, TopIs, ReadMild
<1>3. /\ a \in Calls /\ a.at = "binary_end" /\ prec \in Nat /\ a.type \in BinaryTypes
      /\ a.type = parser.previous.type
  <2>1. parser.previous.type \in BinaryTypes
    BY <1>1 DEF CompilerInv, TodoOK, At
  <2>2. parser.preprevious \in Tokens
    BY <1>2 DEF Fine, Sound, ParserSet
  <2>3. a \in [at : {"binary_end"}, type : BinaryTypes, left : {t.type : t \in Tokens}]
    BY <2>1, <2>2
  <2>. QED
    BY <2>1, <2>3, RuleIs DEF Calls
<1>. HIDE DEF a, prec
<1>4. a.at \in ExprCalls /\ Top.at \in ExprCalls /\ a.at # "finish"
  BY <1>1, <1>3 DEF ExprCalls, Immediate, PrefixCalls
<1>5. ASSUME Live(parser) PROVE TypedBy(Fn(parser), <<Precedence(prec), a>> \o Tail(todo))
  <2>1. PICK H, O, e, r : Begun(H, O, e, r)
    BY <1>1, <1>2, <1>5, Begins
  <2>2. Now(H, parser, H, O, e)
    BY <1>1, <2>1, NowBegins
  <2>. DEFINE f == Fn(parser)  w == r[1].out
  <2>3. /\ e \in Nat /\ e = r[1].in /\ w = e /\ e > Slots(f) /\ Slots(f) \in Nat
    BY <1>1, <1>4, <2>1, ExprTop, BegunFits, BegunSlots DEF FitsExpression
  <2>4. a.type \in {"PLUS", "MINUS", "STAR", "SLASH"}
    BY <1>3, <1>5, PlainReads DEF Live, Gaps, BinaryTypes
  <2>5. FitsExpression(f, a, e + 1, w)
    BY <1>3, <2>3, <2>4 DEF FitsExpression, PrefixCalls
  <2>6. Fits(f, H, Rec(a, e + 1, w, r[1].depth))
    BY <1>4, <2>5, FitsExpr
  <2>7. e >= Slots(f)
    BY <2>3
  <2>. HIDE DEF f
  <2>. QED
    BY <1>1, <1>3, <1>4, <2>1, <2>2, <2>6, <2>7, ExprThen DEF f
<1>. QED
  BY <1>1, <1>2, <1>5, BalanceNext

(* Its instruction takes both and leaves one.                              *)
LEMMA BinaryEndBalances ==
  ASSUME CompilerInv, TextInv, BalanceInv, BinaryEnd
  PROVE  BalanceInv'
<1>. DEFINE floating == "NUMBER" \in {parser.previous.type, Top.left}
            op == BinaryOp(Top.type, floating)  q == EmitOp(parser, op)
<1>1. todo # << >> /\ Top.at = "binary_end" /\ Then(q, << >>)
  BY DEF BinaryEnd, At, Return
<1>2. Fine(parser) /\ text \in Texts /\ Top \in Calls
  BY <1>1, TopIs
<1>3. Top.type \in BinaryTypes
  BY <1>1, <1>2 DEF Calls, PlainCalls, PrefixCalls, InFunction
<1>4. op \in Emitted
  BY <1>3 DEF BinaryOp, BinaryTypes, Emitted
<1>5. Top.type \in {"PLUS", "MINUS", "STAR", "SLASH"} => op \in IBinaryOps \cup FBinaryOps
  BY DEF BinaryOp, IBinaryOps, FBinaryOps
<1>. HIDE DEF op
<1>6. Mild(parser, q)
  BY <1>2, <1>4, EmitOpMild
<1>0. q = EmitOp(parser, op)
  OBVIOUS
<1>. HIDE DEF q
<1>7. Top.at \in ExprCalls /\ Top.at # "finish"
  BY <1>1 DEF ExprCalls
<1>8. ASSUME Live(q) PROVE TypedBy(Fn(q), << >> \o Tail(todo))
  <2>1. PICK H, O, e, r : Begun(H, O, e, r)
    BY <1>1, <1>6, <1>8, Begins
  <2>2. Now(H, parser, H, O, e)
    BY <1>1, <2>1, NowBegins
  <2>. DEFINE f == Fn(parser)  w == r[1].out
  <2>3. /\ e \in Nat /\ w \in Nat /\ e = w + 1 /\ w >= 2
        /\ Top.type \in {"PLUS", "MINUS", "STAR", "SLASH"}
    BY <1>1, <1>7, <2>1, ExprTop, BegunFits, BegunSlots DEF FitsExpression
  <2>4. OneSuits(f, op, e, w) /\ op \in OneByteOps /\ w # 0
    BY <1>5, <2>3 DEF OneSuits, OneByteOps
  <2>5. PICK K : Now(H, q, K, O, w)
    BY <1>0, <2>2, <2>3, <2>4, NowOp DEF f
  <2>. QED
    BY <1>1, <1>7, <2>1, <2>5, ExprZero
<1>. QED
  BY <1>1, <1>6, <1>8, BalanceNext

(* The instruction of a call, with the arguments that are there.           *)
LEMMA CallEndsMild ==
  ASSUME NEW p, Fine(p), text \in Texts, NEW n \in Bytes
  PROVE  Mild(p, CallEnds(p, n))
<1>. DEFINE c == Consume(p, "R_PAREN")
<1>1. Mild(p, c)
  BY ReadMild
<1>2. Fine(c) /\ <<Opcode["CALL"], n>> \in Seq(Bytes)
  BY <1>1, CodesAre DEF Mild, Tame, Emitted
<1>. HIDE DEF c
<1>3. Mild(c, Emit(c, <<Opcode["CALL"], n>>))
  BY <1>2, EmitMild
<1>4. CallEnds(p, n) = Emit(c, <<Opcode["CALL"], n>>)
  BY DEF CallEnds, c
<1>. QED
  BY <1>1, <1>3, <1>4, MildTrans

(* It takes them and the function, and leaves the result.                  *)
LEMMA NowCallEnds ==
  ASSUME NEW H, NEW p, NEW K, NEW Q, NEW x, Now(H, p, K, Q, x), NEW n \in Bytes, NEW y \in Nat,
         x = y + n, y >= 2, NEW q, q = CallEnds(p, n)
  PROVE  \E L : Now(H, q, L, Q, y)
<1>. DEFINE c == Consume(p, "R_PAREN")
<1>1. Fine(p) /\ text \in Texts /\ x \in Nat /\ n \in Nat
  BY DEF Now, Bytes
<1>2. Mild(p, c) /\ c.fns = p.fns
  BY <1>1, ReadMild, ReadIs
<1>3. q = Emit(c, WithOne("CALL", n))
  BY DEF CallEnds, WithOne
<1>. HIDE DEF c
<1>4. Now(H, c, K, Q, x)
  BY <1>2, NowReads
<1>5. TwoSuits(Fn(c), "CALL", n, x, y) /\ "CALL" \in TwoByteOps /\ y # 0
  BY <1>1 DEF TwoSuits, TwoByteOps
<1>. QED
  BY <1>3, <1>4, <1>5, NowOperand

(* call without arguments leaves the result in place of the function.      *)
LEMMA CallBalances ==
  ASSUME CompilerInv, TextInv, BalanceInv, Call
  PROVE  BalanceInv'
<1>. DEFINE q == CallEnds(parser, 0)  a == [at |-> "arguments", count |-> 0]
<1>1. /\ todo # << >> /\ Top.at = "call" /\ (Then(q, << >>) \/ Then(parser, <<Expression, a>>))
  BY DEF Call, At, Return
<1>2. Fine(parser) /\ text \in Texts /\ Mild(parser, parser) /\ 0 \in Bytes
  BY <1>1, TopIs, ReadMild DEF Bytes
<1>3. Mild(parser, q)
  BY <1>2, CallEndsMild
<1>4. a \in Calls /\ a.at = "arguments" /\ a.count = 0
  <2>1. a \in [at : {"arguments"}, count : 0 .. ByteMax]
    BY ByteAssumption
  <2>. QED
    BY <2>1 DEF Calls
<1>0. q = CallEnds(parser, 0)
  OBVIOUS
<1>. HIDE DEF a, q
<1>5. Top.at \in ExprCalls /\ Top.at # "finish" /\ a.at \in ExprCalls /\ a.at # "finish"
  BY <1>1, <1>4 DEF ExprCalls, Immediate
<1>6. ASSUME Live(parser)
      PROVE  \E H, O, e, r : /\ Begun(H, O, e, r) /\ Now(H, parser, H, O, e)
                             /\ e \in Nat /\ r[1].out = e /\ e > Slots(Fn(parser))
                             /\ Slots(Fn(parser)) \in Nat /\ Slots(Fn(parser)) >= 1
  <2>1. PICK H, O, e, r : Begun(H, O, e, r)
    BY <1>1, <1>2, <1>6, Begins
  <2>2. Now(H, parser, H, O, e)
    BY <1>1, <2>1, NowBegins
  <2>3. /\ e \in Nat /\ r[1].out = e /\ e > Slots(Fn(parser))
        /\ Slots(Fn(parser)) \in Nat /\ Slots(Fn(parser)) >= 1
    BY <1>1, <1>5, <2>1, ExprTop, BegunFits, BegunSlots DEF FitsExpression
  <2>. QED
    BY <2>1, <2>2, <2>3
<1>7. CASE Then(q, << >>)
  <2>1. ASSUME Live(q) PROVE TypedBy(Fn(q), << >> \o Tail(todo))
    <3>1. Live(parser)
      BY <1>3, <2>1, LiveBefore
    <3>2. PICK H, O, e, r : /\ Begun(H, O, e, r) /\ Now(H, parser, H, O, e)
                            /\ e \in Nat /\ r[1].out = e /\ e > Slots(Fn(parser))
                            /\ Slots(Fn(parser)) \in Nat /\ Slots(Fn(parser)) >= 1
      BY <1>6, <3>1
    <3>3. e = e + 0 /\ e >= 2
      BY <3>2
    <3>4. PICK K : Now(H, q, K, O, e)
      BY <1>0, <1>2, <3>2, <3>3, NowCallEnds
    <3>5. Now(H, q, K, O, r[1].out)
      BY <3>2, <3>4
    <3>. QED
      BY <1>1, <1>5, <3>2, <3>5, ExprZero
  <2>. QED
    BY <1>1, <1>3, <1>7, <2>1, BalanceNext
<1>8. CASE Then(parser, <<Expression, a>>)
  <2>1. ASSUME Live(parser) PROVE TypedBy(Fn(parser), <<Expression, a>> \o Tail(todo))
    <3>1. PICK H, O, e, r : /\ Begun(H, O, e, r) /\ Now(H, parser, H, O, e)
                            /\ e \in Nat /\ r[1].out = e /\ e > Slots(Fn(parser))
                            /\ Slots(Fn(parser)) \in Nat /\ Slots(Fn(parser)) >= 1
      BY <1>6, <2>1
    <3>. DEFINE f == Fn(parser)
    <3>2. FitsExpression(f, a, e + 1, r[1].out)
      BY <1>4, <3>1 DEF FitsExpression, PrefixCalls
    <3>3. Fits(f, H, Rec(a, e + 1, r[1].out, r[1].depth))
      BY <1>5, <3>2, FitsExpr
    <3>4. PREC_ASSIGN \in Nat /\ e >= Slots(f)
      BY <3>1 DEF PREC_ASSIGN
    <3>. HIDE DEF f
    <3>. QED
      BY <1>1, <1>4, <1>5, <3>1, <3>3, <3>4, ExprThen DEF Expression, f
  <2>. QED
    BY <1>1, <1>2, <1>8, <2>1, BalanceNext
<1>. QED
  BY <1>1, <1>7, <1>8

(* argument_list counts the arguments, which OP_CALL takes.                *)
LEMMA ArgumentsBalances ==
  ASSUME CompilerInv, TextInv, BalanceInv, Arguments
  PROVE  BalanceInv'
<1>. DEFINE q == IF Top.count = ByteMax THEN ErrorAt(parser) ELSE parser
            count == (Top.count + 1) % (ByteMax + 1)
            a == [Top EXCEPT !.count = count]
            t == CallEnds(q, count)  p == Advance(q)
<1>1. /\ todo # << >> /\ Top.at = "arguments" /\ (Then(t, << >>) \/ Then(p, <<Expression, a>>))
  BY DEF Arguments, At, Return
<1>2. Fine(parser) /\ text \in Texts /\ Top \in Calls
  BY <1>1, TopIs
<1>3. Top \in [at : {"arguments"}, count : 0 .. ByteMax] /\ Top.count \in Nat /\ ByteMax \in Nat
      /\ ByteMax <= 255 /\ Top.count <= ByteMax
  <2>1. Top \in [at : {"arguments"}, count : 0 .. ByteMax]
    BY <1>1, <1>2 DEF Calls, PlainCalls, PrefixCalls, InFunction
  <2>2. Top.count \in 0 .. ByteMax
    BY <2>1
  <2>3. ByteMax \in Nat /\ ByteMax <= 255
    BY ByteAssumption
  <2>. QED
    BY <2>1, <2>2, <2>3
<1>4. /\ count \in 0 .. ByteMax /\ count \in Bytes
      /\ Top.count # ByteMax => count = Top.count + 1
  <2>2. \A n \in Nat, m \in Nat : /\ (n + 1) % (m + 1) \in 0 .. m
                                  /\ n < m => (n + 1) % (m + 1) = n + 1
    OBVIOUS
  <2>3. count \in 0 .. ByteMax
    BY <1>3, <2>2
  <2>4. Top.count # ByteMax => count = Top.count + 1
    <3>1. ASSUME Top.count # ByteMax PROVE Top.count < ByteMax
      BY <1>3, <3>1
    <3>. QED
      BY <1>3, <2>2, <3>1
  <2>5. count \in Bytes
    BY <1>3, <2>3 DEF Bytes
  <2>. HIDE DEF count
  <2>. QED
    BY <2>3, <2>4, <2>5
<1>. HIDE DEF count
<1>5. a \in Calls /\ a.at = "arguments" /\ a.count = count
  <2>1. a \in [at : {"arguments"}, count : 0 .. ByteMax] /\ a.at = "arguments" /\ a.count = count
    BY <1>3, <1>4
  <2>. QED
    BY <2>1 DEF Calls
<1>. HIDE DEF a
<1>6. Mild(parser, q) /\ q.fns = parser.fns /\ (~ q.error => Top.count # ByteMax)
  <2>1. /\ Mild(parser, ErrorAt(parser)) /\ Mild(parser, parser) /\ ErrorAt(parser).error
        /\ ErrorAt(parser).fns = parser.fns
    BY <1>2, ReadMild, ErrorsStay, ReadIs
  <2>. QED
    BY <2>1
<1>7. Fine(q)
  BY <1>6 DEF Mild, Tame
<1>. HIDE DEF q
<1>8. /\ Mild(q, t) /\ Mild(parser, t) /\ Mild(q, p) /\ Mild(parser, p) /\ p.fns = q.fns
  BY <1>2, <1>4, <1>6, <1>7, CallEndsMild, ReadMild, MildTrans, ReadIs
<1>0. t = CallEnds(q, count)
  OBVIOUS
<1>. HIDE DEF t, p
<1>9. Top.at \in ExprCalls /\ Top.at # "finish" /\ a.at \in ExprCalls /\ a.at # "finish"
  BY <1>1, <1>5 DEF ExprCalls
<1>10. ASSUME Live(q)
       PROVE  \E H, O, e, r : /\ Begun(H, O, e, r) /\ Now(H, q, H, O, e) /\ e \in Nat
                              /\ r[1].out \in Nat /\ r[1].out > Slots(Fn(parser))
                              /\ e = r[1].out + count /\ count = Top.count + 1 /\ count \in Nat
                              /\ Slots(Fn(parser)) \in Nat /\ Slots(Fn(parser)) >= 1
  <2>1. PICK H, O, e, r : Begun(H, O, e, r)
    BY <1>1, <1>6, <1>10, Begins
  <2>2. Now(H, parser, H, O, e)
    BY <1>1, <2>1, NowBegins
  <2>3. Now(H, q, H, O, e)
    BY <1>6, <2>2, NowReads
  <2>4. count = Top.count + 1 /\ count \in Nat
    BY <1>3, <1>4, <1>6, <1>10 DEF Live
  <2>5. /\ e \in Nat /\ r[1].out \in Nat /\ e = r[1].in /\ r[1].out > Slots(Fn(parser))
        /\ Slots(Fn(parser)) \in Nat /\ Slots(Fn(parser)) >= 1
        /\ r[1].in = r[1].out + Top.count + 1
    BY <1>1, <1>9, <2>1, ExprTop, BegunFits, BegunSlots DEF FitsExpression
  <2>6. e = r[1].out + count
    BY <1>3, <2>4, <2>5
  <2>. QED
    BY <2>1, <2>3, <2>4, <2>5, <2>6
<1>11. CASE Then(t, << >>)
  <2>1. ASSUME Live(t) PROVE TypedBy(Fn(t), << >> \o Tail(todo))
    <3>1. Live(q)
      BY <1>8, <2>1, LiveBefore
    <3>2. PICK H, O, e, r : /\ Begun(H, O, e, r) /\ Now(H, q, H, O, e) /\ e \in Nat
                            /\ r[1].out \in Nat /\ r[1].out > Slots(Fn(parser))
                            /\ e = r[1].out + count /\ count = Top.count + 1 /\ count \in Nat
                            /\ Slots(Fn(parser)) \in Nat /\ Slots(Fn(parser)) >= 1
      BY <1>10, <3>1
    <3>3. r[1].out >= 2
      BY <3>2
    <3>4. PICK K : Now(H, t, K, O, r[1].out)
      BY <1>0, <1>4, <3>2, <3>3, NowCallEnds
    <3>. QED
      BY <1>1, <1>9, <3>2, <3>4, ExprZero
  <2>. QED
    BY <1>1, <1>8, <1>11, <2>1, BalanceNext
<1>12. CASE Then(p, <<Expression, a>>)
  <2>1. ASSUME Live(p) PROVE TypedBy(Fn(p), <<Expression, a>> \o Tail(todo))
    <3>1. Live(q)
      BY <1>8, <2>1, LiveBefore
    <3>2. PICK H, O, e, r : /\ Begun(H, O, e, r) /\ Now(H, q, H, O, e) /\ e \in Nat
                            /\ r[1].out \in Nat /\ r[1].out > Slots(Fn(parser))
                            /\ e = r[1].out + count /\ count = Top.count + 1 /\ count \in Nat
                            /\ Slots(Fn(parser)) \in Nat /\ Slots(Fn(parser)) >= 1
      BY <1>10, <3>1
    <3>3. Now(H, p, H, O, e)
      BY <1>8, <3>2, NowReads
    <3>4. Slots(Fn(p)) = Slots(Fn(parser))
      BY <3>3, NowIs
    <3>5. FitsExpression(Fn(p), a, e + 1, r[1].out)
      BY <1>5, <3>2, <3>4 DEF FitsExpression, PrefixCalls
    <3>6. Fits(Fn(p), H, Rec(a, e + 1, r[1].out, r[1].depth))
      BY <1>9, <3>5, FitsExpr
    <3>7. PREC_ASSIGN \in Nat /\ e >= Slots(Fn(parser))
      BY <3>2 DEF PREC_ASSIGN
    <3>. QED
      BY <1>1, <1>5, <1>9, <3>2, <3>3, <3>6, <3>7, ExprThen DEF Expression
  <2>. QED
    BY <1>1, <1>8, <1>12, <2>1, BalanceNext
<1>. QED
  BY <1>1, <1>11, <1>12
===========================================================================
