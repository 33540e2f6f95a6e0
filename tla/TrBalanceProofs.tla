------------------------- MODULE TrBalanceProofs --------------------------
(***************************************************************************)
(* The code of an accepted text is balanced, for every text and whatever   *)
(* the limits (CodeIsBalanced). TrBalanceFacts has the invariant,          *)
(* BalanceInv, and the actions of expressions; here are those of           *)
(* statements, of declarations, which change the scopes, and of functions, *)
(* which begin and end a certificate. A declaration changes the locals of  *)
(* the scopes further in than those that the calls below know: Moved says  *)
(* what that leaves alone.                                                 *)
(* A jump's two ways have to meet at one height, a loop has to come back   *)
(* to its start at the height it had, a scope has to pop the values of its *)
(* locals and no more, and each local that can be read has to have a slot: *)
(* these are the cases that are more than bookkeeping.                     *)
(***************************************************************************)
EXTENDS TrBalanceFacts

(* A statement's call is on top, of n locals.                              *)
Opened(H, O, e, r, n) ==
  /\ Begun(H, O, e, r) /\ O \subseteq Int /\ Now(H, parser, H, O, e)
  /\ n = Len(Fn(parser).locals) /\ n \in Nat /\ n >= 1 /\ Slots(Fn(parser)) = n
  /\ n >= Slots(Fn(parser))
  /\ e \in Nat /\ r[1].in \in Nat /\ r[1].out \in Nat /\ r[1].depth \in Nat
  /\ Top.at \notin Takers => e = n
  /\ Top.at \notin Flexible => e = r[1].in
  /\ Fn(parser).depth = r[1].depth + Sc(Top)
  /\ FitsStatement(Fn(parser), Top, r[1].in, r[1].out) /\ FitsMarks(Fn(parser), H, Top, r[1].in)
  /\ FitsScope(Fn(parser), Top, r[1].out, r[1].depth)

(* The jumps that wait are at offsets.                                     *)
LEMMA BegunInts ==
  ASSUME NEW H, NEW Q, NEW e, NEW r, Begun(H, Q, e, r), NEW O, O = Q \cap Int
  PROVE  Begun(H, O, e, r)
<1>. DEFINE f == Fn(parser)
<1>1. Typing(f, H, Q, e, r) /\ Matches(r, todo)
  BY DEF Begun
<1>2. Typed(f) /\ Cert(f, H, Q, e)
  BY <1>1 DEF Typing
<1>3. \A s \in H : s[1] \in Int
  BY <1>2, CertInts DEF Typed
<1>. HIDE DEF f
<1>4. Cert(f, H, O, e)
  <2>1. \A s \in H : Sits(f, H, Q, s[1], s[2]) => Sits(f, H, O, s[1], s[2])
    BY <1>3 DEF Sits
  <2>. QED
    BY <1>2, <2>1 DEF Cert
<1>5. Typing(f, H, O, e, r)
  BY <1>1, <1>4 DEF Typing
<1>. QED
  BY <1>1, <1>5 DEF Begun, f

(* So it is when an action of a statement begins.                          *)
LEMMA Opens ==
  ASSUME CompilerInv, BalanceInv, todo # << >>, NEW q, Mild(parser, q), Live(q),
         Top.at \notin ExprCalls \cup {"var_defined"}
  PROVE  Live(parser) /\ \E H, O, e, r, n : Opened(H, O, e, r, n)
<1>0. PICK H, Q, e, r : Begun(H, Q, e, r)
  BY Begins
<1>. DEFINE O == Q \cap Int
<1>1. Begun(H, O, e, r) /\ O \subseteq Int
  BY <1>0, BegunInts
<1>. HIDE DEF O
<1>2. Now(H, parser, H, O, e)
  BY <1>1, NowBegins
<1>3. e \in Nat
  BY <1>2, NowIs
<1>. DEFINE n == Len(Fn(parser).locals)
<1>4. n \in Nat /\ n >= 1 /\ Slots(Fn(parser)) = n
  BY <1>1, BegunSlots
<1>5. /\ r[1].in \in Nat /\ r[1].out \in Nat /\ r[1].depth \in Nat
      /\ Top.at \notin Flexible => e = r[1].in
      /\ Top.at \notin Takers => e = n
      /\ Fn(parser).depth = r[1].depth + Sc(Top)
  BY <1>1, BegunTop
<1>6. /\ FitsStatement(Fn(parser), Top, r[1].in, r[1].out)
      /\ FitsMarks(Fn(parser), H, Top, r[1].in)
      /\ FitsScope(Fn(parser), Top, r[1].out, r[1].depth)
  BY <1>1, BegunFits
<1>41. n >= Slots(Fn(parser))
  BY <1>1, BegunSlots
<1>7. Opened(H, O, e, r, n)
  BY <1>41, <1>1, <1>2, <1>3, <1>4, <1>5, <1>6 DEF Opened
<1>. HIDE DEF n
<1>8. Live(parser)
  BY Begins
<1>. QED
  BY <1>7, <1>8

(* The calls of statements that end as high as they begin.                 *)
Level0 == {"declaration", "declared", "block", "statement", "expression_statement",
           "if_statement", "while_statement", "for_statement", "return_statement",
           "var_declaration", "func_declaration"}

(* They are none of the others.                                            *)
LEMMA OutsideLevel ==
  /\ Level0 \cap (Bases \cup Scoped) = {} /\ Level0 \cap ExprCalls = {}
  /\ Level0 \cap Holders = {} /\ Level0 \cap Takers = {} /\ "var_defined" \notin Level0
  /\ \A c : c.at \in Level0 => Sc(c) = 0
  BY DEF Level0, Bases, Scoped, ExprCalls, Immediate, PrefixCalls, Holders, Takers, InFunction, Sc

(* As high as they begin: nothing else is asked of them.                   *)
LEMMA LevelFits ==
  ASSUME NEW f, NEW H, NEW c, c.at \in Level0, NEW u, NEW d
  PROVE  Fits(f, H, Rec(c, u, u, d))
<1>1. /\ FitsStatement(f, c, u, u) /\ FitsMarks(f, H, c, u) /\ FitsScope(f, c, u, d)
  BY DEF Level0, FitsStatement, FitsMarks, FitsScope, Scoped, InFunction
<1>2. c.at \notin ExprCalls
  BY OutsideLevel
<1>. QED
  BY <1>1, <1>2, FitsOther

(* A statement, and then what the call on top goes on as.                  *)
LEMMA NowDo ==
  ASSUME CompilerInv, todo # << >>, NEW H, NEW O, NEW e, NEW r, NEW n, Opened(H, O, e, r, n),
         NEW q, NEW K, NEW Q, Now(H, q, K, Q, n),
         NEW c \in Calls, c.at \in Level0, NEW a \in Calls, NEW v \in Nat,
         a.at \notin Flexible => v = n,
         Fits(Fn(q), K, Rec(a, v, r[1].out, r[1].depth)), Sc(a) = Sc(Top),
         a.at \in Bases <=> Top.at \in Bases, Held(Q, O, Holds(a))
  PROVE  TypedBy(Fn(q), <<c, a>> \o Tail(todo))
<1>1. Begun(H, O, e, r) /\ n = Len(Fn(parser).locals) /\ n \in Nat
  BY DEF Opened
<1>2. Fits(Fn(q), K, Rec(c, n, n, r[1].depth + Sc(a)))
  BY LevelFits
<1>3. OnTop(c, n, n, Len(Fn(parser).locals)) /\ c.at \notin Bases \cup Scoped
  BY <1>1, OutsideLevel DEF OnTop
<1>4. Holds(c) = {}
  BY HoldsNothing DEF Level0
<1>5. Held(Q, O, Holds(a) \cup Holds(c))
  BY <1>4
<1>. QED
  BY <1>1, <1>2, <1>3, <1>5, NowTwo

(* The call on top goes on as a statement.                                 *)
LEMMA NowAs ==
  ASSUME CompilerInv, todo # << >>, NEW H, NEW O, NEW e, NEW r, NEW n, Opened(H, O, e, r, n),
         NEW q, NEW K, Now(H, q, K, O, n), r[1].out = n,
         NEW c \in Calls, c.at \in Level0, Top.at \in Level0
  PROVE  TypedBy(Fn(q), <<c>> \o Tail(todo))
<1>1. Begun(H, O, e, r) /\ n = Len(Fn(parser).locals) /\ n \in Nat
  BY DEF Opened
<1>2. Fits(Fn(q), K, Rec(c, n, r[1].out, r[1].depth))
  BY LevelFits
<1>3. OnTop(c, n, n, Len(Fn(parser).locals)) /\ Sc(c) = Sc(Top)
      /\ c.at \notin Bases /\ Top.at \notin Bases /\ Top.at \notin Holders
  BY <1>1, OutsideLevel DEF OnTop
<1>4. Held(O, O, Holds(c))
  BY <1>3, HeldSame
<1>. QED
  BY <1>1, <1>2, <1>3, <1>4, NowOne
-----------------------------------------------------------------------------

(* The script begins with its slot.                                        *)
LEMMA CompileBalances ==
  ASSUME CompilerInv, TextInv, BalanceInv, Compile
  PROVE  BalanceInv'
<1>. DEFINE q == Advance(parser)  c == Do("script")
<1>1. todo # << >> /\ Top.at = "compile" /\ Then(q, <<c>>)
  BY DEF Compile, At
<1>2. Fine(parser) /\ text \in Texts /\ Mild(parser, q) /\ q.fns = parser.fns
  BY <1>1, TopIs, ReadMild, ReadIs
<1>3. c \in Calls /\ c.at = "script"
  BY CallForms DEF PlainCalls
<1>. HIDE DEF q, c
<1>4. ASSUME Live(q) PROVE TypedBy(Fn(q), <<c>> \o Tail(todo))
  <2>1. Top.at \notin ExprCalls \cup {"var_defined"} /\ Top.at \notin Takers
    BY <1>1 DEF ExprCalls, Immediate, PrefixCalls, Takers
  <2>2. PICK H, O, e, r, n : Opened(H, O, e, r, n)
    BY <1>1, <1>2, <1>4, <2>1, Opens
  <2>3. Begun(H, O, e, r) /\ n = Len(Fn(parser).locals) /\ n \in Nat /\ e = n
    BY <2>1, <2>2 DEF Opened
  <2>4. Now(H, q, H, O, n) /\ Fn(q) = Fn(parser)
    BY <1>2, <2>2, <2>3, NowReads DEF Opened
  <2>5. FitsStatement(Fn(q), c, n, r[1].out) /\ FitsMarks(Fn(q), H, c, n)
    BY <1>3 DEF FitsStatement, FitsMarks
  <2>6. FitsScope(Fn(q), c, r[1].out, r[1].depth)
    BY <1>1, <1>3, <2>2, <2>4 DEF FitsScope, Opened, Scoped, InFunction
  <2>7. c.at \notin ExprCalls /\ OnTop(c, n, n, Len(Fn(parser).locals)) /\ Sc(c) = Sc(Top)
        /\ c.at \in Bases /\ Top.at \in Bases /\ Top.at \notin Holders
    BY <1>1, <1>3, <2>3 DEF OnTop, Flexible, Bases, Sc, Scoped, Holders, ExprCalls, Immediate,
       PrefixCalls, InFunction
  <2>8. Fits(Fn(q), H, Rec(c, n, r[1].out, r[1].depth))
    BY <2>5, <2>6, <2>7, FitsOther
  <2>9. Held(O, O, Holds(c))
    BY <1>1, <2>7, HeldSame
  <2>. QED
    BY <1>1, <1>3, <2>3, <2>4, <2>7, <2>8, <2>9, NowOne
<1>. QED
  BY <1>1, <1>2, <1>4, BalanceNext

(* It is as high before each declaration as there are locals.              *)
LEMMA ScriptBalances ==
  ASSUME CompilerInv, TextInv, BalanceInv, Script
  PROVE  BalanceInv'
<1>. DEFINE c == Do("declaration")  a == Do("script")
<1>1. todo # << >> /\ Top.at = "script" /\ Then(parser, <<c, a>>)
  BY DEF Script, At
<1>2. Fine(parser) /\ text \in Texts /\ Mild(parser, parser)
  BY <1>1, TopIs, ReadMild
<1>3. c \in Calls /\ c.at = "declaration" /\ a \in Calls /\ a.at = "script"
  BY CallForms DEF PlainCalls
<1>. HIDE DEF c, a
<1>4. ASSUME Live(parser) PROVE TypedBy(Fn(parser), <<c, a>> \o Tail(todo))
  <2>1. Top.at \notin ExprCalls \cup {"var_defined"} /\ Top.at \notin Takers
    BY <1>1 DEF ExprCalls, Immediate, PrefixCalls, Takers
  <2>2. PICK H, O, e, r, n : Opened(H, O, e, r, n)
    BY <1>1, <1>2, <1>4, <2>1, Opens
  <2>3. Now(H, parser, H, O, n) /\ n \in Nat
    BY <2>1, <2>2 DEF Opened
  <2>5. FitsStatement(Fn(parser), a, n, r[1].out) /\ FitsMarks(Fn(parser), H, a, n)
    BY <1>3 DEF FitsStatement, FitsMarks
  <2>6. FitsScope(Fn(parser), a, r[1].out, r[1].depth)
    BY <1>1, <1>3, <2>2 DEF FitsScope, Opened, Scoped, InFunction
  <2>7. a.at \notin ExprCalls /\ Sc(a) = Sc(Top) /\ a.at \in Flexible
        /\ a.at \in Bases /\ Top.at \in Bases /\ Top.at \notin Holders /\ c.at \in Level0
    BY <1>1, <1>3 DEF Level0, Flexible, Bases, Sc, Scoped, Holders, ExprCalls, Immediate,
       PrefixCalls, InFunction
  <2>8. Fits(Fn(parser), H, Rec(a, n, r[1].out, r[1].depth))
    BY <2>5, <2>6, <2>7, FitsOther
  <2>9. Held(O, O, Holds(a))
    BY <1>1, <2>7, HeldSame
  <2>. QED
    BY <1>1, <1>3, <2>2, <2>3, <2>7, <2>8, <2>9, NowDo
<1>. QED
  BY <1>1, <1>2, <1>4, BalanceNext

(* declaration leaves as many values as locals.                            *)
LEMMA DeclarationBalances ==
  ASSUME CompilerInv, TextInv, BalanceInv, Declaration
  PROVE  BalanceInv'
<1>. DEFINE name == Declares(parser.current.type)
            q == IF name = "statement" THEN parser ELSE Advance(parser)
            c == Do(name)  a == Do("declared")
<1>1. todo # << >> /\ Top.at = "declaration" /\ Then(q, <<c, a>>)
  BY DEF Declaration, At
<1>2. Fine(parser) /\ text \in Texts /\ Mild(parser, q) /\ q.fns = parser.fns
  BY <1>1, TopIs, ReadMild, ReadIs
<1>3. name \in PlainCalls /\ name \in Level0
  BY DEF Declares, PlainCalls, Level0
<1>4. c \in Calls /\ c.at \in Level0 /\ a \in Calls /\ a.at = "declared"
  BY <1>3, CallForms DEF PlainCalls
<1>. HIDE DEF q, c, a
<1>5. ASSUME Live(q) PROVE TypedBy(Fn(q), <<c, a>> \o Tail(todo))
  <2>1. Top.at \notin ExprCalls \cup {"var_defined"} /\ Top.at \notin Takers
    BY <1>1 DEF ExprCalls, Immediate, PrefixCalls, Takers
  <2>2. PICK H, O, e, r, n : Opened(H, O, e, r, n)
    BY <1>1, <1>2, <1>5, <2>1, Opens
  <2>3. Now(H, q, H, O, n) /\ n \in Nat
    BY <1>2, <2>1, <2>2, NowReads DEF Opened
  <2>4. a.at \in Level0 /\ a.at \in Flexible /\ Top.at \in Level0
    BY <1>1, <1>4 DEF Level0, Flexible
  <2>5. Sc(a) = Sc(Top) /\ a.at \notin Bases /\ Top.at \notin Bases /\ Top.at \notin Holders
    BY <2>4, OutsideLevel
  <2>6. Held(O, O, Holds(a))
    BY <1>1, <2>5, HeldSame
  <2>7. r[1].out \in Nat
    BY <2>2 DEF Opened
  <2>8. Fits(Fn(q), H, Rec(a, r[1].out, r[1].out, r[1].depth))
    BY <2>4, LevelFits
  <2>. QED
    BY <1>1, <1>4, <2>2, <2>3, <2>4, <2>5, <2>6, <2>7, <2>8, NowDo
<1>. QED
  BY <1>1, <1>2, <1>5, BalanceNext

(* So does each declaration of a block.                                    *)
LEMMA BlockBalances ==
  ASSUME CompilerInv, TextInv, BalanceInv, Block
  PROVE  BalanceInv'
<1>. DEFINE c == Do("declaration")  a == Do("block")  q == Consume(parser, "R_BRACE")
<1>1. todo # << >> /\ Top.at = "block" /\ (Then(q, << >>) \/ Then(parser, <<c, a>>))
  BY DEF Block, At, Return
<1>2. /\ Fine(parser) /\ text \in Texts /\ Mild(parser, parser) /\ Mild(parser, q)
      /\ q.fns = parser.fns
  BY <1>1, TopIs, ReadMild, ReadIs
<1>3. c \in Calls /\ c.at = "declaration" /\ a \in Calls /\ a.at = "block"
  BY CallForms DEF PlainCalls
<1>. HIDE DEF c, a, q
<1>4. Top.at \notin ExprCalls \cup {"var_defined"} /\ Top.at \notin Takers
  BY <1>1 DEF ExprCalls, Immediate, PrefixCalls, Takers
<1>5. Top.at \in Level0 /\ c.at \in Level0 /\ a.at \in Level0 /\ a.at \in Flexible
  BY <1>1, <1>3 DEF Level0, Flexible
<1>6. Sc(a) = Sc(Top) /\ a.at \notin Bases /\ Top.at \notin Bases \cup Scoped /\ Top.at \notin Holders
  BY <1>5, OutsideLevel
<1>7. CASE Then(q, << >>)
  <2>1. ASSUME Live(q) PROVE TypedBy(Fn(q), << >> \o Tail(todo))
    <3>1. PICK H, O, e, r, n : Opened(H, O, e, r, n)
      BY <1>1, <1>2, <1>4, <2>1, Opens
    <3>2. Now(H, q, H, O, n) /\ n = Len(Fn(parser).locals) /\ Begun(H, O, e, r)
      BY <1>2, <1>4, <3>1, NowReads DEF Opened
    <3>3. ~ Gives(Top) /\ Top.at \notin Bodied
      BY <1>1 DEF Gives, Bodied, ExprCalls, Immediate, PrefixCalls
    <3>4. Held(O, O, {})
      BY <1>1, <1>6, HeldSame
    <3>. QED
      BY <1>1, <1>6, <3>2, <3>3, <3>4, NowZero
  <2>. QED
    BY <1>1, <1>2, <1>7, <2>1, BalanceNext
<1>8. CASE Then(parser, <<c, a>>)
  <2>1. ASSUME Live(parser) PROVE TypedBy(Fn(parser), <<c, a>> \o Tail(todo))
    <3>1. PICK H, O, e, r, n : Opened(H, O, e, r, n)
      BY <1>1, <1>2, <1>4, <2>1, Opens
    <3>2. Now(H, parser, H, O, n) /\ r[1].out \in Nat
      BY <1>4, <3>1 DEF Opened
    <3>3. Held(O, O, Holds(a))
      BY <1>1, <1>6, HeldSame
    <3>4. Fits(Fn(parser), H, Rec(a, r[1].out, r[1].out, r[1].depth))
      BY <1>5, LevelFits
    <3>. QED
      BY <1>1, <1>3, <1>5, <1>6, <3>1, <3>2, <3>3, <3>4, NowDo
  <2>. QED
    BY <1>1, <1>2, <1>8, <2>1, BalanceNext
<1>. QED
  BY <1>1, <1>7, <1>8

(* It returns as high as its locals are.                                   *)
LEMMA DeclaredBalances ==
  ASSUME CompilerInv, TextInv, BalanceInv, Declared
  PROVE  BalanceInv'
<1>1. todo # << >> /\ Top.at = "declared" /\ Fine(parser) /\ text \in Texts /\ Mild(parser, parser)
  BY TopIs, ReadMild DEF Declared, At
<1>2. CASE parser.panicking
  <2>. DEFINE q == [parser EXCEPT !.panicking = FALSE]
  <2>1. Then(q, <<Do("synchronize")>>)
    BY <1>2 DEF Declared
  <2>2. parser.error
    BY <1>1, <1>2 DEF Fine, Sound
  <2>3. q.error
    BY <1>1, <2>2 DEF Fine, Sound, ParserSet
  <2>4. ~ Live(q)
    BY <2>3 DEF Live
  <2>. HIDE DEF q
  <2>. QED
    BY <1>1, <2>1, <2>3, <2>4, BalanceNext
<1>3. CASE ~ parser.panicking
  <2>1. Then(parser, << >>)
    BY <1>3 DEF Declared, Return
  <2>2. ASSUME Live(parser) PROVE TypedBy(Fn(parser), << >> \o Tail(todo))
    <3>1. Top.at \notin ExprCalls \cup {"var_defined"} /\ Top.at \notin Takers /\ Top.at \in Level0
      BY <1>1 DEF ExprCalls, Immediate, PrefixCalls, Takers, Level0
    <3>2. PICK H, O, e, r, n : Opened(H, O, e, r, n)
      BY <1>1, <2>2, <3>1, Opens
    <3>3. Now(H, parser, H, O, n) /\ n = Len(Fn(parser).locals) /\ Begun(H, O, e, r)
      BY <3>1, <3>2 DEF Opened
    <3>4. ~ Gives(Top) /\ Top.at \notin Bodied
      BY <1>1 DEF Gives, Bodied, ExprCalls, Immediate, PrefixCalls
    <3>5. Top.at \notin Bases \cup Scoped /\ Top.at \notin Holders
      BY <3>1, OutsideLevel
    <3>6. Held(O, O, {})
      BY <1>1, <3>5, HeldSame
    <3>. QED
      BY <1>1, <3>3, <3>4, <3>5, <3>6, NowZero
  <2>. QED
    BY <1>1, <2>1, <2>2, BalanceNext
<1>. QED
  BY <1>2, <1>3

(* After an error nothing is claimed.                                      *)
LEMMA SynchronizeBalances ==
  ASSUME CompilerInv, TextInv, BalanceInv, Synchronize
  PROVE  BalanceInv'
<1>1. /\ todo # << >> /\ Top.at = "synchronize" /\ Fine(parser) /\ text \in Texts
      /\ Then(parser, << >>) \/ Then(Advance(parser), <<Top>>)
  BY TopIs DEF Synchronize, At, Return
<1>2. Mild(parser, parser) /\ Mild(parser, Advance(parser))
  BY <1>1, ReadMild
<1>3. \A q : Mild(parser, q) => ~ Live(q)
  <2>1. ~ (Plain /\ ~ parser.error)
    BY <1>1, TopReads DEF Settles
  <2>. QED
    BY <2>1 DEF Mild, Live
<1>. QED
  BY <1>1, <1>2, <1>3, BalanceNext

(* A jump that waits still does.                                           *)
LEMMA GoesHole ==
  ASSUME NEW p, NEW q, NEW H, NEW K, Goes(p, H, q, K), NEW j \in Int, NEW h, Hole(Fn(p), H, j, h)
  PROVE  Hole(Fn(q), K, j, h)
<1>1. Typed(Fn(p)) /\ Typed(Fn(q)) /\ Onto(Fn(p), H, Fn(q), K)
  BY DEF Goes
<1>. QED
  BY <1>1, HoleStays

(* One more waits, by a new call.                                          *)
LEMMA HeldNew ==
  ASSUME NEW O, O \subseteq Int, NEW j \in Int, NEW R, R = O \cup {j - 1}, NEW N, j \in N,
         Holds(Top) \subseteq N
  PROVE  Held(R, O, N)
<1>1. ASSUME NEW i \in R PROVE i + 1 \in N \/ (i \in O /\ i + 1 \notin Holds(Top))
  <2>1. i = j - 1 \/ i \in O
    BY <1>1
  <2>2. i = j - 1 => i + 1 = j
    OBVIOUS
  <2>. QED
    BY <2>1, <2>2
<1>. QED
  BY <1>1 DEF Held

(* One waits no more.                                                      *)
LEMMA HeldLess ==
  ASSUME NEW O, O \subseteq Int, NEW j \in Int, NEW R, R = O \ {j - 1}, NEW N,
         Holds(Top) \subseteq {j} \cup N
  PROVE  Held(R, O, N)
<1>1. ASSUME NEW i \in R PROVE i + 1 \in N \/ (i \in O /\ i + 1 \notin Holds(Top))
  <2>1. i \in O /\ i \in Int /\ i # j - 1
    BY <1>1
  <2>2. i + 1 # j
    BY <2>1
  <2>. QED
    BY <2>1, <2>2
<1>. QED
  BY <1>1 DEF Held

(* A condition is tested: what is after the jump has popped it.            *)
Tested(token) == EmitJump(Consume(parser, token), "JMP_FALSE")

(* Its helpers are steps of a parser.                                      *)
LEMMA TestMild ==
  ASSUME Fine(parser), text \in Texts, NEW token, NEW q, q = Tested(token),
         NEW t, t = EmitOp(q, "POP")
  PROVE  Mild(parser, q) /\ Mild(parser, t) /\ Fine(t)
<1>. DEFINE p == Consume(parser, token)
<1>1. Mild(parser, p) /\ Fine(p)
  BY ReadMild DEF Mild, Tame
<1>0. q = EmitJump(p, "JMP_FALSE")
  BY DEF Tested
<1>. HIDE DEF p
<1>2. "JMP_FALSE" \in Emitted /\ "POP" \in Emitted
  BY DEF Emitted
<1>3. Mild(p, q)
  BY <1>0, <1>1, <1>2, EmitJumpMild
<1>4. Fine(q)
  BY <1>3 DEF Mild, Tame
<1>5. Mild(q, t)
  BY <1>2, <1>4, EmitOpMild
<1>6. Fine(t)
  BY <1>5 DEF Mild, Tame
<1>. QED
  BY <1>1, <1>3, <1>5, <1>6, MildTrans

(* The condition of t is tested, and q is where the jump waits.            *)
TestHolds(H, O, q, t, K, R, n) ==
  R = O \cup {JumpOf(q) - 1} /\ Now(H, t, K, R, n) /\ Hole(Fn(t), K, JumpOf(q), n + 1)

(* The jump waits with the condition still there.                          *)
LEMMA NowTest ==
  ASSUME NEW H, NEW O, NEW x, Now(H, parser, H, O, x), NEW n \in Nat, n >= 1, x = n + 1,
         NEW token, NEW q, q = Tested(token), NEW t, t = EmitOp(q, "POP")
  PROVE  /\ JumpOf(q) \in Nat /\ JumpOf(q) >= Count(parser)
         /\ \E K, R : TestHolds(H, O, q, t, K, R, n)
<1>. DEFINE p == Consume(parser, token)
<1>1. Fine(parser) /\ text \in Texts /\ Count(parser) \in Nat
  BY NowIs
<1>2. Mild(parser, p) /\ p.fns = parser.fns
  BY <1>1, ReadMild, ReadIs
<1>0. q = EmitJump(p, "JMP_FALSE")
  BY DEF Tested
<1>. HIDE DEF p
<1>3. Now(H, p, H, O, x) /\ Fn(p) = Fn(parser)
  BY <1>2, NowReads
<1>4. x \in Nat /\ x # 0 /\ x >= 2 /\ n # 0
  OBVIOUS
<1>5. /\ JumpOf(q) \in Nat /\ JumpOf(q) = Count(p) + 1
      /\ \E L, R : Leapt(H, p, H, O, q, L, R, x, x)
  <2>. DEFINE op == "JMP_FALSE"
  <2>1. op \in {"JMP", "JMP_FALSE"} /\ q = EmitJump(p, op) /\ (op = "JMP_FALSE" => x >= 2 /\ x = x)
    BY <1>0, <1>4
  <2>. HIDE DEF op
  <2>. QED
    BY <1>3, <1>4, <2>1, NowJump
<1>6. JumpOf(q) >= Count(parser)
  BY <1>1, <1>3, <1>5 DEF Count
<1>7. PICK L, R : /\ R = O \cup {JumpOf(q) - 1}
                  /\ Now(H, q, L, R, x) /\ Hole(Fn(q), L, JumpOf(q), x)
 BY <1>5 DEF Leapt
<1>8. "POP" \in OneByteOps /\ OneSuits(Fn(q), "POP", x, n)
  BY <1>4 DEF OneByteOps, OneSuits
<1>9. PICK K : Now(H, t, K, R, n) /\ Goes(q, L, t, K)
  BY <1>4, <1>7, <1>8, NowOp
<1>10. Hole(Fn(t), K, JumpOf(q), n + 1)
  BY <1>5, <1>7, <1>9, GoesHole
<1>11. TestHolds(H, O, q, t, K, R, n)
  BY <1>7, <1>9, <1>10 DEF TestHolds
<1>. QED
  BY <1>5, <1>6, <1>11
-----------------------------------------------------------------------------

(* The condition of an if is a value on the locals.                        *)
LEMMA IfStatementBalances ==
  ASSUME CompilerInv, TextInv, BalanceInv, IfStatement
  PROVE  BalanceInv'
<1>. DEFINE q == Consume(parser, "L_PAREN")  a == Do("if_then")
<1>1. todo # << >> /\ Top.at = "if_statement" /\ Then(q, <<Expression, a>>)
  BY DEF IfStatement, At
<1>2. Fine(parser) /\ text \in Texts /\ Mild(parser, q) /\ q.fns = parser.fns
  BY <1>1, TopIs, ReadMild, ReadIs
<1>3. a \in Calls /\ a.at = "if_then"
  BY CallForms DEF PlainCalls
<1>. HIDE DEF q, a
<1>4. ASSUME Live(q) PROVE TypedBy(Fn(q), <<Expression, a>> \o Tail(todo))
  <2>1. Top.at \notin ExprCalls \cup {"var_defined"} /\ Top.at \notin Takers
        /\ Top.at \notin Flexible /\ Top.at \in Level0
    BY <1>1 DEF ExprCalls, Immediate, PrefixCalls, Takers, Flexible, Bases, InFunction, Level0
  <2>2. PICK H, O, e, r, n : Opened(H, O, e, r, n)
    BY <1>1, <1>2, <1>4, <2>1, Opens
  <2>3. /\ Begun(H, O, e, r) /\ n = Len(Fn(parser).locals) /\ n \in Nat /\ e = n /\ e = r[1].in
        /\ Slots(Fn(parser)) = n /\ n >= Slots(Fn(parser))
    BY <2>1, <2>2 DEF Opened
  <2>4. Now(H, q, H, O, n) /\ Fn(q) = Fn(parser)
    BY <1>2, <2>2, <2>3, NowReads DEF Opened
  <2>5. r[1].out = n
    BY <1>1, <2>2, <2>3 DEF FitsStatement, Opened
  <2>6. a.at \notin ExprCalls /\ a.at \notin Bases /\ Sc(a) = 0
    BY <1>3 DEF Sc, Scoped, Bases, ExprCalls, Immediate, PrefixCalls, InFunction
  <2>7. Sc(a) = Sc(Top) /\ Top.at \notin Bases /\ Top.at \notin Holders
    BY <2>1, <2>6, OutsideLevel
  <2>8. /\ FitsStatement(Fn(q), a, n + 1, r[1].out) /\ FitsMarks(Fn(q), H, a, n + 1)
        /\ FitsScope(Fn(q), a, r[1].out, r[1].depth)
    BY <1>3, <2>3, <2>4, <2>5 DEF FitsStatement, FitsMarks, FitsScope, Scoped, InFunction
  <2>9. Fits(Fn(q), H, Rec(a, n + 1, r[1].out, r[1].depth))
    BY <2>6, <2>8, FitsOther
  <2>10. Held(O, O, Holds(a)) /\ PREC_ASSIGN \in Nat
    BY <1>1, <2>7, HeldSame DEF PREC_ASSIGN
  <2>. QED
    BY <1>1, <1>3, <2>3, <2>4, <2>6, <2>7, <2>9, <2>10, NowExpression DEF Expression
<1>. QED
  BY <1>1, <1>2, <1>4, BalanceNext

(* So is that of a while, whose start is marked.                           *)
LEMMA WhileStatementBalances ==
  ASSUME CompilerInv, TextInv, BalanceInv, WhileStatement
  PROVE  BalanceInv'
<1>. DEFINE q == Consume(parser, "L_PAREN")
            a == [at |-> "while_body", start |-> Count(parser)]
<1>1. todo # << >> /\ Top.at = "while_statement" /\ Then(q, <<Expression, a>>)
  BY DEF WhileStatement, At
<1>2. Fine(parser) /\ text \in Texts /\ Mild(parser, q) /\ q.fns = parser.fns
  BY <1>1, TopIs, ReadMild, ReadIs
<1>3. a \in Calls /\ a.at = "while_body" /\ a.start = Count(parser)
  <2>1. Count(parser) \in Nat
    BY <1>2, FineFn
  <2>. QED
    BY <2>1 DEF Calls
<1>. HIDE DEF q, a
<1>4. ASSUME Live(q) PROVE TypedBy(Fn(q), <<Expression, a>> \o Tail(todo))
  <2>1. Top.at \notin ExprCalls \cup {"var_defined"} /\ Top.at \notin Takers
        /\ Top.at \notin Flexible /\ Top.at \in Level0
    BY <1>1 DEF ExprCalls, Immediate, PrefixCalls, Takers, Flexible, Bases, InFunction, Level0
  <2>2. PICK H, O, e, r, n : Opened(H, O, e, r, n)
    BY <1>1, <1>2, <1>4, <2>1, Opens
  <2>3. /\ Begun(H, O, e, r) /\ n = Len(Fn(parser).locals) /\ n \in Nat /\ e = n /\ e = r[1].in
        /\ Slots(Fn(parser)) = n /\ n >= Slots(Fn(parser))
    BY <2>1, <2>2 DEF Opened
  <2>4. Now(H, q, H, O, n) /\ Fn(q) = Fn(parser)
    BY <1>2, <2>2, <2>3, NowReads DEF Opened
  <2>5. r[1].out = n
    BY <1>1, <2>2, <2>3 DEF FitsStatement, Opened
  <2>6. a.at \notin ExprCalls /\ a.at \notin Bases /\ Sc(a) = 0
    BY <1>3 DEF Sc, Scoped, Bases, ExprCalls, Immediate, PrefixCalls, InFunction
  <2>7. Sc(a) = Sc(Top) /\ Top.at \notin Bases /\ Top.at \notin Holders
    BY <2>1, <2>6, OutsideLevel
  <2>8. Count(q) \in Nat /\ <<Count(q), n>> \in H /\ Count(q) = Count(parser)
        /\ Count(q) = Len(Fn(q).code)
    BY <2>4, NowIs DEF Count
  <2>9. FitsStatement(Fn(q), a, n + 1, r[1].out) /\ FitsScope(Fn(q), a, r[1].out, r[1].depth)
    BY <1>3, <2>3, <2>4, <2>5 DEF FitsStatement, FitsScope, Scoped, InFunction
  <2>10. FitsMarks(Fn(q), H, a, n + 1)
    <3>1. (n + 1) - 1 = n /\ a.start <= Len(Fn(q).code)
      BY <1>3, <2>3, <2>8
    <3>. QED
      BY <1>3, <2>8, <3>1 DEF FitsMarks
  <2>11. Fits(Fn(q), H, Rec(a, n + 1, r[1].out, r[1].depth))
    BY <2>6, <2>9, <2>10, FitsOther
  <2>12. Held(O, O, Holds(a)) /\ PREC_ASSIGN \in Nat
    BY <1>1, <2>7, HeldSame DEF PREC_ASSIGN
  <2>. QED
    BY <1>1, <1>3, <2>3, <2>4, <2>6, <2>7, <2>11, <2>12, NowExpression DEF Expression
<1>. QED
  BY <1>1, <1>2, <1>4, BalanceNext

(* It is popped on the way into the first branch.                          *)
LEMMA IfThenBalances ==
  ASSUME CompilerInv, TextInv, BalanceInv, IfThen
  PROVE  BalanceInv'
<1>. DEFINE q == Tested("R_PAREN")  t == EmitOp(q, "POP")
            c == Do("statement")  a == [at |-> "if_else", jump |-> JumpOf(q)]
<1>1. todo # << >> /\ Top.at = "if_then" /\ Then(t, <<c, a>>)
  BY DEF IfThen, At, Tested
<1>2. Fine(parser) /\ text \in Texts /\ Top \in Calls
  BY <1>1, TopIs
<1>3. Mild(parser, t)
  BY <1>2, TestMild
<1>4. c \in Calls /\ c.at = "statement"
  BY CallForms DEF PlainCalls
<1>5. a.at = "if_else" /\ a.jump = JumpOf(q)
  OBVIOUS
<1>6. JumpOf(q) \in Nat => a \in Calls
  BY DEF Calls
<1>0. t = EmitOp(q, "POP")
  OBVIOUS
<1>. HIDE DEF t, c, a
<1>7. ASSUME Live(t) PROVE TypedBy(Fn(t), <<c, a>> \o Tail(todo))
  <2>1. Top.at \notin ExprCalls \cup {"var_defined"} /\ Top.at \notin Flexible
        /\ Top.at \notin Bases /\ Top.at \notin Holders /\ Sc(Top) = 0
    BY <1>1 DEF ExprCalls, Immediate, PrefixCalls, Flexible, Bases, InFunction, Holders, Sc,
       Scoped
  <2>2. PICK H, O, e, r, n : Opened(H, O, e, r, n)
    BY <1>1, <1>3, <1>7, <2>1, Opens
  <2>3. /\ Begun(H, O, e, r) /\ n = Len(Fn(parser).locals) /\ n \in Nat /\ n >= 1 /\ e = r[1].in
        /\ O \subseteq Int /\ Now(H, parser, H, O, e)
    BY <2>1, <2>2 DEF Opened
  <2>4. r[1].out = n /\ e = n + 1
    BY <1>1, <2>2, <2>3 DEF FitsStatement, Opened
  <2>. HIDE DEF q
  <2>5. JumpOf(q) \in Nat /\ \E K, R : TestHolds(H, O, q, t, K, R, n)
    BY <1>0, <2>3, <2>4, NowTest DEF q
  <2>6. PICK K, R : TestHolds(H, O, q, t, K, R, n)
    BY <2>5
  <2>7. R = O \cup {JumpOf(q) - 1} /\ Now(H, t, K, R, n) /\ Hole(Fn(t), K, JumpOf(q), n + 1)
    BY <2>6 DEF TestHolds
  <2>8. a \in Calls /\ JumpOf(q) \in Int
    BY <1>6, <2>5
  <2>9. Holds(a) = {JumpOf(q)}
    BY <1>5, <2>8, HoldsJump
  <2>10. Holds(Top) = {}
    BY <1>1, <1>2, HoldsNothing
  <2>11. Held(R, O, Holds(a))
    BY <2>3, <2>7, <2>8, <2>9, <2>10, HeldNew
  <2>12. /\ FitsStatement(Fn(t), a, n, r[1].out) /\ FitsMarks(Fn(t), K, a, n)
         /\ FitsScope(Fn(t), a, r[1].out, r[1].depth)
    BY <1>5, <2>4, <2>7 DEF FitsStatement, FitsMarks, FitsScope, Scoped, InFunction
  <2>13. a.at \notin ExprCalls /\ a.at \notin Bases /\ Sc(a) = Sc(Top) /\ c.at \in Level0
    BY <1>4, <1>5, <2>1 DEF Sc, Scoped, Bases, ExprCalls, Immediate, PrefixCalls, InFunction,
       Level0
  <2>14. Fits(Fn(t), K, Rec(a, n, r[1].out, r[1].depth))
    BY <2>12, <2>13, FitsOther
  <2>. QED
    BY <1>1, <1>4, <2>1, <2>2, <2>3, <2>7, <2>8, <2>11, <2>13, <2>14, NowDo
<1>. QED
  BY <1>1, <1>3, <1>7, BalanceNext

(* It is popped on the way into the body.                                  *)
LEMMA WhileBodyBalances ==
  ASSUME CompilerInv, TextInv, BalanceInv, WhileBody
  PROVE  BalanceInv'
<1>. DEFINE q == Tested("R_PAREN")  t == EmitOp(q, "POP")  c == Do("statement")
            a == [at |-> "loop_end", start |-> Top.start, exit |-> JumpOf(q)]
<1>1. todo # << >> /\ Top.at = "while_body" /\ Then(t, <<c, a>>)
  BY DEF WhileBody, At, Tested
<1>2. Fine(parser) /\ text \in Texts /\ Top \in Calls
  BY <1>1, TopIs
<1>3. Mild(parser, t)
  BY <1>2, TestMild
<1>4. c \in Calls /\ c.at = "statement"
  BY CallForms DEF PlainCalls
<1>5. a.at = "loop_end" /\ a.start = Top.start /\ a.exit = JumpOf(q)
  OBVIOUS
<1>6. JumpOf(q) \in Nat => a \in Calls
  <2>1. Top.start \in Nat
    BY <1>1, <1>2 DEF Calls, PlainCalls, PrefixCalls, InFunction
  <2>. QED
    BY <2>1 DEF Calls
<1>0. t = EmitOp(q, "POP")
  OBVIOUS
<1>. HIDE DEF t, c, a
<1>7. ASSUME Live(t) PROVE TypedBy(Fn(t), <<c, a>> \o Tail(todo))
  <2>1. Top.at \notin ExprCalls \cup {"var_defined"} /\ Top.at \notin Flexible
        /\ Top.at \notin Bases /\ Top.at \notin Holders /\ Sc(Top) = 0
    BY <1>1 DEF ExprCalls, Immediate, PrefixCalls, Flexible, Bases, InFunction, Holders, Sc,
       Scoped
  <2>2. PICK H, O, e, r, n : Opened(H, O, e, r, n)
    BY <1>1, <1>3, <1>7, <2>1, Opens
  <2>3. /\ Begun(H, O, e, r) /\ n = Len(Fn(parser).locals) /\ n \in Nat /\ n >= 1 /\ e = r[1].in
        /\ O \subseteq Int /\ Now(H, parser, H, O, e)
    BY <2>1, <2>2 DEF Opened
  <2>4. r[1].out = n /\ e = n + 1
    BY <1>1, <2>2, <2>3 DEF FitsStatement, Opened
  <2>. HIDE DEF q
  <2>5. JumpOf(q) \in Nat /\ \E K, R : TestHolds(H, O, q, t, K, R, n)
    BY <1>0, <2>3, <2>4, NowTest DEF q
  <2>6. PICK K, R : TestHolds(H, O, q, t, K, R, n)
    BY <2>5
  <2>7. R = O \cup {JumpOf(q) - 1} /\ Now(H, t, K, R, n) /\ Hole(Fn(t), K, JumpOf(q), n + 1)
    BY <2>6 DEF TestHolds
  <2>8. a \in Calls /\ JumpOf(q) \in Int /\ JumpOf(q) # -1
    BY <1>6, <2>5
  <2>9. JumpOf(q) \in Holds(a)
    BY <1>5, <2>8, HoldsExit
  <2>10. Holds(Top) = {}
    BY <1>1, <1>2, HoldsNothing
  <2>11. Held(R, O, Holds(a))
    BY <2>3, <2>7, <2>8, <2>9, <2>10, HeldNew
  <2>12. Top.start <= Len(Fn(parser).code) /\ <<Top.start, n>> \in H
    BY <1>1, <2>2, <2>3, <2>4 DEF FitsMarks, Opened
  <2>13. Top.start <= Len(Fn(t).code) /\ <<Top.start, n>> \in K
    <3>1. Onto(Fn(parser), H, Fn(t), K)
      BY <2>7, NowIs
    <3>2. Len(Fn(parser).code) \in Nat /\ Len(Fn(t).code) \in Nat
      BY <2>3, <2>7, NowIs DEF Typed
    <3>3. Top.start \in Nat
      BY <1>1, <1>2 DEF Calls, PlainCalls, PrefixCalls, InFunction
    <3>. QED
      BY <2>12, <3>1, <3>2, <3>3 DEF Onto, Extends
  <2>14. /\ FitsStatement(Fn(t), a, n, r[1].out) /\ FitsMarks(Fn(t), K, a, n)
         /\ FitsScope(Fn(t), a, r[1].out, r[1].depth)
    BY <1>5, <2>4, <2>7, <2>13 DEF FitsStatement, FitsMarks, FitsScope, Scoped, InFunction
  <2>15. a.at \notin ExprCalls /\ a.at \notin Bases /\ Sc(a) = Sc(Top) /\ c.at \in Level0
    BY <1>4, <1>5, <2>1 DEF Sc, Scoped, Bases, ExprCalls, Immediate, PrefixCalls, InFunction,
       Level0
  <2>16. Fits(Fn(t), K, Rec(a, n, r[1].out, r[1].depth))
    BY <2>14, <2>15, FitsOther
  <2>. QED
    BY <1>1, <1>4, <2>1, <2>2, <2>3, <2>7, <2>8, <2>11, <2>15, <2>16, NowDo
<1>. QED
  BY <1>1, <1>3, <1>7, BalanceNext

(* Both branches of an if meet at one height.                              *)
LEMMA IfEndBalances ==
  ASSUME CompilerInv, TextInv, BalanceInv, IfEnd
  PROVE  BalanceInv'
<1>. DEFINE j == Top.jump  q == PatchJump(parser, j)
<1>1. todo # << >> /\ Top.at = "if_end" /\ Then(q, << >>)
  BY DEF IfEnd, At, Return
<1>2. Fine(parser) /\ text \in Texts /\ Top \in Calls
  BY <1>1, TopIs
<1>3. Holds(Top) = {j} /\ j \in Int
  BY <1>1, <1>2, HoldsJump
<1>4. Top.at \notin InFunction
  BY <1>1 DEF InFunction
<1>5. Open(Fn(parser), j)
  BY <1>1, <1>3, <1>4, TopIs
<1>6. Mild(parser, q)
  BY <1>2, <1>5, PatchMild
<1>0. q = PatchJump(parser, j)
  OBVIOUS
<1>. HIDE DEF q
<1>7. ASSUME Live(q) PROVE TypedBy(Fn(q), << >> \o Tail(todo))
  <2>1. Top.at \notin ExprCalls \cup {"var_defined"} /\ Top.at \notin Flexible
        /\ Top.at \notin Bases \cup Scoped /\ ~ Gives(Top) /\ Top.at \notin Bodied
        /\ Top.at \notin Takers
    BY <1>1 DEF ExprCalls, Immediate, PrefixCalls, Flexible, Bases, InFunction, Scoped, Gives,
       Bodied, Takers
  <2>2. PICK H, O, e, r, n : Opened(H, O, e, r, n)
    BY <1>1, <1>6, <1>7, <2>1, Opens
  <2>3. /\ Begun(H, O, e, r) /\ n = Len(Fn(parser).locals) /\ e = r[1].in /\ e = n
        /\ O \subseteq Int /\ Now(H, parser, H, O, n)
    BY <2>1, <2>2 DEF Opened
  <2>4. Hole(Fn(parser), H, j, n)
    BY <1>1, <2>2, <2>3 DEF FitsMarks, Opened
  <2>. DEFINE R == O \ {j - 1}
  <2>5. R = O \ {j - 1} /\ ~ q.error
    BY <1>7 DEF Live
  <2>. HIDE DEF R
  <2>6. Now(H, q, H, R, n)
    BY <1>0, <1>5, <2>3, <2>4, <2>5, NowPatch
  <2>7. Held(R, O, {})
    BY <1>3, <2>3, <2>5, HeldLess
  <2>. QED
    BY <1>1, <2>1, <2>3, <2>6, <2>7, NowZero
<1>. QED
  BY <1>1, <1>6, <1>7, BalanceNext

(* The end of a branch or of a loop's condition: the target of a jump that *)
(* waits for it is here, and it pops the condition.                        *)
LEMMA ClosesMild ==
  ASSUME NEW p, Fine(p), text \in Texts, NEW j, Open(Fn(p), j), NEW s, s = PatchJump(p, j),
         NEW t, t = EmitOp(s, "POP")
  PROVE  Mild(p, s) /\ Mild(s, t) /\ Mild(p, t) /\ Fine(t) /\ t.error = s.error
<1>1. Mild(p, s) /\ Fine(s)
  BY PatchMild DEF Mild, Tame
<1>2. "POP" \in Emitted
  BY DEF Emitted
<1>3. Mild(s, t)
  BY <1>1, <1>2, EmitOpMild
<1>4. Fine(t)
  BY <1>3 DEF Mild, Tame
<1>5. t.error = s.error
  <2>1. <<Opcode["POP"]>> \in Seq(Bytes)
    BY <1>2, CodesAre
  <2>. QED
    BY <1>1, <2>1, EmitIs DEF EmitOp
<1>. QED
  BY <1>1, <1>3, <1>4, <1>5, MildTrans

(* The code goes on without the condition.                                 *)
LEMMA NowCloses ==
  ASSUME NEW H, NEW p, NEW K, NEW Q, NEW x, Now(H, p, K, Q, x), NEW n \in Nat, n >= 1, x = n + 1,
         NEW j, Open(Fn(p), j), Hole(Fn(p), K, j, x), NEW s, s = PatchJump(p, j), ~ s.error,
         NEW t, t = EmitOp(s, "POP"), NEW R, R = Q \ {j - 1}
  PROVE  \E L : Now(H, t, L, R, n) /\ Goes(p, K, t, L)
<1>1. Now(H, s, K, R, x) /\ Goes(p, K, s, K)
  BY NowPatch
<1>2. "POP" \in OneByteOps /\ OneSuits(Fn(s), "POP", x, n) /\ n # 0 /\ n \in Nat
  BY DEF OneByteOps, OneSuits
<1>3. PICK L : Now(H, t, L, R, n) /\ Goes(s, K, t, L)
  BY <1>1, <1>2, NowOp
<1>4. \A i \in K : i[1] \in Int
  BY NowIs
<1>5. Goes(p, K, t, L)
  BY <1>1, <1>3, <1>4, GoesTrans
<1>. QED
  BY <1>3, <1>5

(* A loop jumps back at the height of its start, and its exit pops the     *)
(* condition.                                                              *)
LEMMA LoopEndBalances ==
  ASSUME CompilerInv, TextInv, BalanceInv, LoopEnd
  PROVE  BalanceInv'
<1>. DEFINE start == Top.start  j == Top.exit  q == EmitLoop(parser, start)
            s == PatchJump(q, j)  t == EmitOp(s, "POP")
<1>1. todo # << >> /\ Top.at = "loop_end" /\ (IF j = -1 THEN Then(q, << >>) ELSE Then(t, << >>))
  BY DEF LoopEnd, At, Return
<1>2. Fine(parser) /\ text \in Texts /\ Top \in Calls
  BY <1>1, TopIs
<1>3. Holds(Top) = {j} \ {-1} /\ j \in Int /\ start \in Nat
  BY <1>1, <1>2, HoldsExit
<1>4. Top.at \notin InFunction
  BY <1>1 DEF InFunction
<1>5. Mild(parser, q) /\ Fine(q)
  BY <1>2, <1>3, EmitLoopMild DEF Mild, Tame
<1>6. j # -1 => Open(Fn(q), j)
  <2>1. j # -1 => Open(Fn(parser), j)
    BY <1>1, <1>3, <1>4, TopIs
  <2>2. Same(parser, q, {})
    BY <1>2, <1>3, HelpersKeep
  <2>. QED
    BY <1>2, <2>1, <2>2, OpenStays
<1>0. q = EmitLoop(parser, start) /\ s = PatchJump(q, j) /\ t = EmitOp(s, "POP")
  OBVIOUS
<1>. HIDE DEF q, s, t
<1>7. j # -1 => Mild(q, s) /\ Mild(s, t) /\ Mild(q, t) /\ Mild(parser, t)
  BY <1>0, <1>2, <1>5, <1>6, ClosesMild, MildTrans
<1>8. Top.at \notin ExprCalls \cup {"var_defined"} /\ Top.at \notin Flexible
      /\ Top.at \notin Bases \cup Scoped /\ ~ Gives(Top) /\ Top.at \notin Bodied
      /\ Top.at \notin Takers
  BY <1>1 DEF ExprCalls, Immediate, PrefixCalls, Flexible, Bases, InFunction, Scoped, Gives,
     Bodied, Takers
<1>9. ASSUME Live(q)
      PROVE  \E H, O, e, r, n : /\ Opened(H, O, e, r, n) /\ start <= Count(parser)
                                /\ <<start, n>> \in H
                                /\ j # -1 => Hole(Fn(parser), H, j, n + 1)
                                /\ Begun(H, O, e, r) /\ n = Len(Fn(parser).locals)
                                /\ O \subseteq Int /\ Now(H, parser, H, O, n)
                                /\ n \in Nat /\ n >= 1
  <2>1. PICK H, O, e, r, n : Opened(H, O, e, r, n)
    BY <1>1, <1>5, <1>8, <1>9, Opens
  <2>2. /\ Begun(H, O, e, r) /\ n = Len(Fn(parser).locals) /\ e = r[1].in /\ e = n
        /\ O \subseteq Int /\ Now(H, parser, H, O, n) /\ n \in Nat /\ n >= 1
    BY <1>8, <2>1 DEF Opened
  <2>3. /\ start <= Count(parser) /\ <<start, n>> \in H
        /\ j # -1 => Hole(Fn(parser), H, j, n + 1)
    BY <1>1, <2>1, <2>2 DEF FitsMarks, Opened, Count
  <2>. QED
    BY <2>1, <2>2, <2>3
<1>10. CASE j = -1
  <2>1. ASSUME Live(q) PROVE TypedBy(Fn(q), << >> \o Tail(todo))
    <3>1. PICK H, O, e, r, n : /\ Opened(H, O, e, r, n) /\ start <= Count(parser)
                               /\ <<start, n>> \in H
                               /\ j # -1 => Hole(Fn(parser), H, j, n + 1)
                               /\ Begun(H, O, e, r) /\ n = Len(Fn(parser).locals)
                               /\ O \subseteq Int /\ Now(H, parser, H, O, n)
                               /\ n \in Nat /\ n >= 1
      BY <1>9, <2>1
    <3>2. n # 0 /\ ~ q.error
      BY <2>1, <3>1 DEF Live
    <3>3. PICK L : Now(H, q, L, O, n)
      BY <1>0, <1>3, <3>1, <3>2, NowLoop
    <3>4. Holds(Top) \subseteq {}
      BY <1>3, <1>10
    <3>5. Held(O, O, {})
      BY <3>4, HeldOn
    <3>. QED
      BY <1>1, <1>8, <3>1, <3>3, <3>5, NowZero
  <2>. QED
    BY <1>1, <1>5, <1>10, <2>1, BalanceNext
<1>11. CASE j # -1
  <2>1. ASSUME Live(t) PROVE TypedBy(Fn(t), << >> \o Tail(todo))
    <3>0. Live(q) /\ Live(s)
      BY <1>7, <1>11, <2>1, LiveBefore
    <3>1. PICK H, O, e, r, n : /\ Opened(H, O, e, r, n) /\ start <= Count(parser)
                               /\ <<start, n>> \in H
                               /\ j # -1 => Hole(Fn(parser), H, j, n + 1)
                               /\ Begun(H, O, e, r) /\ n = Len(Fn(parser).locals)
                               /\ O \subseteq Int /\ Now(H, parser, H, O, n)
                               /\ n \in Nat /\ n >= 1
      BY <1>9, <3>0
    <3>. DEFINE x == n + 1  R == O \ {j - 1}
    <3>2. x = n + 1 /\ x \in Nat /\ x # 0 /\ ~ q.error /\ ~ s.error /\ R = O \ {j - 1}
      BY <3>0, <3>1 DEF Live
    <3>3. Hole(Fn(parser), H, j, x)
      BY <1>11, <3>1
    <3>. HIDE DEF x, R
    <3>4. PICK L : Now(H, q, L, O, x) /\ Goes(parser, H, q, L)
      BY <1>0, <1>3, <3>1, <3>2, NowLoop
    <3>5. Hole(Fn(q), L, j, x)
      BY <1>3, <3>3, <3>4, GoesHole
    <3>6. Open(Fn(q), j)
      BY <1>6, <1>11
    <3>7. PICK K : Now(H, t, K, R, n)
      BY <1>0, <3>1, <3>2, <3>4, <3>5, <3>6, NowCloses
    <3>8. Holds(Top) \subseteq {j} \cup {}
      BY <1>3
    <3>9. Held(R, O, {})
      BY <1>3, <3>1, <3>2, <3>8, HeldLess
    <3>. QED
      BY <1>1, <1>8, <3>1, <3>7, <3>9, NowZero
  <2>. QED
    BY <1>1, <1>7, <1>11, <2>1, BalanceNext
<1>. QED
  BY <1>10, <1>11

(* The second branch pops the condition that the first has popped.         *)
LEMMA IfElseBalances ==
  ASSUME CompilerInv, TextInv, BalanceInv, IfElse
  PROVE  BalanceInv'
<1>. DEFINE j == Top.jump  q == EmitJump(parser, "JMP")  s == PatchJump(q, j)
            t == EmitOp(s, "POP")  a == [at |-> "if_end", jump |-> JumpOf(q)]
            c == Do("statement")  p == Advance(t)
<1>1. todo # << >> /\ Top.at = "if_else" /\ (Then(t, <<a>>) \/ Then(p, <<c, a>>))
  BY DEF IfElse, At
<1>2. Fine(parser) /\ text \in Texts /\ Top \in Calls
  BY <1>1, TopIs
<1>3. Holds(Top) = {j} /\ j \in Int
  BY <1>1, <1>2, HoldsJump
<1>4. Top.at \notin InFunction /\ "JMP" \in Emitted /\ "JMP" \in {"JMP", "JMP_FALSE"}
  BY <1>1 DEF InFunction, Emitted
<1>5. Mild(parser, q) /\ Fine(q)
  BY <1>2, <1>4, EmitJumpMild DEF Mild, Tame
<1>6. Open(Fn(q), j)
  <2>1. Open(Fn(parser), j)
    BY <1>1, <1>3, <1>4, TopIs
  <2>2. Same(parser, q, {})
    BY <1>2, <1>4, JumpsKeep
  <2>. QED
    BY <1>2, <2>1, <2>2, OpenStays
<1>0. q = EmitJump(parser, "JMP") /\ s = PatchJump(q, j) /\ t = EmitOp(s, "POP")
  OBVIOUS
<1>7. c \in Calls /\ c.at = "statement" /\ a.at = "if_end" /\ a.jump = JumpOf(q)
  BY CallForms DEF PlainCalls
<1>8. JumpOf(q) \in Nat => a \in Calls
  BY DEF Calls
<1>00. p = Advance(t)
  OBVIOUS
<1>. HIDE DEF q, s, t, a, c, p
<1>9. Mild(q, s) /\ Mild(s, t) /\ Mild(q, t) /\ Fine(t) /\ Mild(parser, t)
  BY <1>0, <1>2, <1>5, <1>6, ClosesMild, MildTrans
<1>10. Mild(t, p) /\ Mild(parser, p) /\ p.fns = t.fns
  BY <1>00, <1>2, <1>9, ReadMild, ReadIs, MildTrans
<1>11. Top.at \notin ExprCalls \cup {"var_defined"} /\ Top.at \notin Flexible
      /\ Top.at \notin Bases /\ Top.at \notin Takers /\ Sc(Top) = 0
      /\ a.at \notin Bases /\ Sc(a) = 0 /\ a.at \notin ExprCalls /\ c.at \in Level0
      /\ a.at \notin Takers
  BY <1>1, <1>7 DEF ExprCalls, Immediate, PrefixCalls, Flexible, Bases, InFunction, Scoped, Sc,
     Takers, Level0
<1>12. ASSUME Live(t)
       PROVE  \E H, O, e, r, n, K, Q : /\ Opened(H, O, e, r, n) /\ Now(H, t, K, Q, n)
                                       /\ Held(Q, O, Holds(a)) /\ a \in Calls
                                       /\ Fits(Fn(t), K, Rec(a, n, r[1].out, r[1].depth))
                                       /\ Begun(H, O, e, r) /\ n = Len(Fn(parser).locals)
                                       /\ n \in Nat
  <2>0. Live(q) /\ Live(s)
    BY <1>9, <1>12, LiveBefore
  <2>1. PICK H, O, e, r, n : Opened(H, O, e, r, n)
    BY <1>1, <1>5, <1>11, <2>0, Opens
  <2>2. /\ Begun(H, O, e, r) /\ n = Len(Fn(parser).locals) /\ e = r[1].in /\ e = n
        /\ O \subseteq Int /\ Now(H, parser, H, O, n) /\ n \in Nat /\ n >= 1
    BY <1>11, <2>1 DEF Opened
  <2>3. Hole(Fn(parser), H, j, n + 1) /\ r[1].out = n
    BY <1>1, <2>1, <2>2 DEF FitsMarks, FitsStatement, Opened
  <2>. DEFINE x == n + 1
  <2>4. x = n + 1 /\ x \in Nat /\ x # 0 /\ ~ s.error
    BY <2>0, <2>2 DEF Live
  <2>5. Hole(Fn(parser), H, j, x)
    BY <2>3
  <2>. HIDE DEF x
  <2>6. JumpOf(q) \in Nat /\ \E L, R : Leapt(H, parser, H, O, q, L, R, n, x)
    <3>. DEFINE op == "JMP"
    <3>1. op \in {"JMP", "JMP_FALSE"} /\ q = EmitJump(parser, op) /\ (op = "JMP_FALSE" => n >= 2 /\ x = n)
      BY <1>0
    <3>. HIDE DEF op
    <3>. QED
      BY <2>2, <2>4, <3>1, NowJump
  <2>7. PICK L, R : Leapt(H, parser, H, O, q, L, R, n, x)
    BY <2>6
  <2>8. /\ R = O \cup {JumpOf(q) - 1} /\ Now(H, q, L, R, x) /\ Goes(parser, H, q, L)
        /\ Hole(Fn(q), L, JumpOf(q), n)
    BY <2>7 DEF Leapt
  <2>9. Hole(Fn(q), L, j, x)
    BY <1>3, <2>5, <2>8, GoesHole
  <2>. DEFINE Q == R \ {j - 1}
  <2>10. Q = R \ {j - 1}
    OBVIOUS
  <2>. HIDE DEF Q
  <2>11. PICK K : Now(H, t, K, Q, n) /\ Goes(q, L, t, K)
    BY <1>0, <1>6, <2>2, <2>4, <2>8, <2>9, <2>10, NowCloses
  <2>12. Hole(Fn(t), K, JumpOf(q), n)
    BY <2>6, <2>8, <2>11, GoesHole
  <2>13. a \in Calls /\ Holds(a) = {JumpOf(q)}
    BY <1>7, <1>8, <2>6, HoldsJump
  <2>14. Held(Q, O, Holds(a))
    <3>1. ASSUME NEW i \in Q PROVE i + 1 \in Holds(a) \/ (i \in O /\ i + 1 \notin Holds(Top))
      <4>1. i # j - 1 /\ (i = JumpOf(q) - 1 \/ i \in O) /\ JumpOf(q) \in Int
        BY <2>6, <2>8, <2>10, <3>1
      <4>2. i \in Int
        <5>1. O \subseteq Int
          BY <2>2
        <5>2. JumpOf(q) - 1 \in Int
          BY <4>1
        <5>. QED
          BY <4>1, <5>1, <5>2
      <4>3. i + 1 # j /\ (i = JumpOf(q) - 1 => i + 1 = JumpOf(q))
        BY <1>3, <4>1, <4>2
      <4>. QED
        BY <1>3, <2>13, <4>1, <4>3
    <3>. QED
      BY <3>1 DEF Held
  <2>15. /\ FitsStatement(Fn(t), a, n, r[1].out) /\ FitsMarks(Fn(t), K, a, n)
         /\ FitsScope(Fn(t), a, r[1].out, r[1].depth)
    BY <1>7, <2>3, <2>12 DEF FitsStatement, FitsMarks, FitsScope, Scoped, InFunction
  <2>16. Fits(Fn(t), K, Rec(a, n, r[1].out, r[1].depth))
    BY <1>11, <2>15, FitsOther
  <2>. QED
    BY <2>1, <2>2, <2>11, <2>13, <2>14, <2>16
<1>13. CASE Then(t, <<a>>)
  <2>1. ASSUME Live(t) PROVE TypedBy(Fn(t), <<a>> \o Tail(todo))
    <3>1. PICK H, O, e, r, n, K, Q : /\ Opened(H, O, e, r, n) /\ Now(H, t, K, Q, n)
                                     /\ Held(Q, O, Holds(a)) /\ a \in Calls
                                     /\ Fits(Fn(t), K, Rec(a, n, r[1].out, r[1].depth))
                                     /\ Begun(H, O, e, r) /\ n = Len(Fn(parser).locals)
                                     /\ n \in Nat
      BY <1>12, <2>1
    <3>2. OnTop(a, n, n, Len(Fn(parser).locals)) /\ Sc(a) = Sc(Top)
      BY <1>11, <3>1 DEF OnTop
    <3>. QED
      BY <1>1, <1>11, <3>1, <3>2, NowOne
  <2>. QED
    BY <1>1, <1>9, <1>13, <2>1, BalanceNext
<1>14. CASE Then(p, <<c, a>>)
  <2>1. ASSUME Live(p) PROVE TypedBy(Fn(p), <<c, a>> \o Tail(todo))
    <3>0. Live(t)
      BY <1>10, <2>1, LiveBefore
    <3>1. PICK H, O, e, r, n, K, Q : /\ Opened(H, O, e, r, n) /\ Now(H, t, K, Q, n)
                                     /\ Held(Q, O, Holds(a)) /\ a \in Calls
                                     /\ Fits(Fn(t), K, Rec(a, n, r[1].out, r[1].depth))
                                     /\ Begun(H, O, e, r) /\ n = Len(Fn(parser).locals)
                                     /\ n \in Nat
      BY <1>12, <3>0
    <3>2. Now(H, p, K, Q, n) /\ Fn(p) = Fn(t)
      BY <1>10, <3>1, NowReads
    <3>3. Fits(Fn(p), K, Rec(a, n, r[1].out, r[1].depth))
      BY <3>1, <3>2
    <3>4. Sc(a) = Sc(Top)
      BY <1>11
    <3>. QED
      BY <1>1, <1>7, <1>11, <3>1, <3>2, <3>3, <3>4, NowDo
  <2>. QED
    BY <1>1, <1>10, <1>14, <2>1, BalanceNext
<1>. QED
  BY <1>1, <1>13, <1>14

(* Two sequences that are one.                                             *)
LEMMA Pair ==
  ASSUME NEW x, NEW y
  PROVE  <<x>> \o <<y>> = <<x, y>>
<1>. DEFINE S == {x, y}  a == <<x>>  b == <<y>>  c == <<x, y>>
<1>1. /\ a \in Seq(S) /\ b \in Seq(S) /\ c \in Seq(S)
      /\ Len(a) = 1 /\ Len(b) = 1 /\ Len(c) = 2
      /\ a[1] = x /\ b[1] = y /\ c[1] = x /\ c[2] = y
  OBVIOUS
<1>. HIDE DEF a, b, c, S
<1>2. /\ a \o b \in Seq(S) /\ Len(a \o b) = 2
      /\ \A i \in 1 .. 2 : (a \o b)[i] = IF i <= 1 THEN a[i] ELSE b[i - 1]
  <2>1. /\ a \o b \in Seq(S) /\ Len(a \o b) = Len(a) + Len(b)
        /\ \A i \in 1 .. Len(a) + Len(b) : (a \o b)[i] = IF i <= Len(a) THEN a[i] ELSE b[i - Len(a)]
    BY <1>1, ConcatProperties
  <2>. QED
    BY <1>1, <2>1
<1>. DEFINE d == a \o b
<1>3. d \in Seq(S) /\ Len(d) = 2 /\ d[1] = x /\ d[2] = y
  BY <1>1, <1>2
<1>. HIDE DEF d
<1>4. \A i \in 1 .. Len(d) : d[i] = c[i]
  BY <1>1, <1>3
<1>5. d = c
  BY <1>1, <1>3, <1>4, SeqEqual
<1>. QED
  BY <1>5 DEF a, b, c, d

(* Two instructions are emitted at once, or one after the other.           *)
LEMMA EmitTwice ==
  ASSUME NEW p, Fine(p), NEW a \in Bytes, NEW b \in Bytes
  PROVE  Emit(p, <<a, b>>) = Emit(Emit(p, <<a>>), <<b>>)
<1>1. PICK S : Sound(p, S)
  BY DEF Fine
<1>. DEFINE f == Fn(p)  g == [f EXCEPT !.code = f.code \o <<a>>]
            h == [f EXCEPT !.code = f.code \o <<a, b>>]
<1>2. f \in FnSet(S) /\ f.code \in Seq(Bytes)
  BY <1>1, FnIs
<1>31. <<a>> \in Seq(Bytes) /\ <<b>> \in Seq(Bytes)
  OBVIOUS
<1>32. <<a, b>> \in Seq(Bytes)
  OBVIOUS
<1>33. <<a>> \o <<b>> = <<a, b>>
  BY Pair
<1>4. (f.code \o <<a>>) \o <<b>> = f.code \o <<a, b>> /\ f.code \o <<a>> \in Seq(Bytes)
  <2>. DEFINE x == <<a>>  y == <<b>>  s == f.code
  <2>1. x \in Seq(Bytes) /\ y \in Seq(Bytes) /\ s \in Seq(Bytes)
    BY <1>2, <1>31
  <2>. HIDE DEF x, y, s
  <2>2. (s \o x) \o y = s \o (x \o y) /\ s \o x \in Seq(Bytes)
    BY <2>1, ConcatAssociative, ConcatProperties
  <2>. QED
    BY <2>2, <1>33 DEF x, y, s
<1>5. g \in FnSet(S) /\ g.code = f.code \o <<a>>
  BY <1>2, <1>4 DEF FnSet
<1>6. [g EXCEPT !.code = g.code \o <<b>>] = h
  BY <1>2, <1>4, <1>5 DEF FnSet
<1>7. Emit(p, <<a>>) = WithFn(p, g) /\ Emit(p, <<a, b>>) = WithFn(p, h)
  BY DEF Emit
<1>8. Fn(WithFn(p, g)) = g
  BY <1>1, <1>5, SoundWith
<1>9. Emit(WithFn(p, g), <<b>>) = WithFn(WithFn(p, g), h)
  BY <1>6, <1>8 DEF Emit
<1>. HIDE DEF f, g, h
<1>10. WithFn(WithFn(p, g), h) = WithFn(p, h)
  <2>1. /\ p \in ParserSet(S) /\ p.fns \in Seq(FnSet(S)) /\ Len(p.fns) \in 1 .. Len(p.fns)
    BY <1>1, FnIs DEF Sound
  <2>. DEFINE n == Len(p.fns)  w == WithFn(p, g)
  <2>2. Len(w.fns) = n /\ w.fns = [p.fns EXCEPT ![n] = g] /\ w = [p EXCEPT !.fns = w.fns]
    <3>1. Len(w.fns) = n
      BY <1>1, <1>5, SoundWith
    <3>2. w = [p EXCEPT !.fns[n] = g]
      BY DEF WithFn
    <3>. QED
      BY <2>1, <3>1, <3>2 DEF ParserSet
  <2>3. WithFn(w, h) = [w EXCEPT !.fns = [w.fns EXCEPT ![n] = h]]
    <3>1. WithFn(w, h) = [w EXCEPT !.fns[Len(w.fns)] = h]
      BY DEF WithFn
    <3>. QED
      BY <2>2, <3>1
  <2>4. WithFn(p, h) = [p EXCEPT !.fns = [p.fns EXCEPT ![n] = h]]
    BY DEF WithFn
  <2>. HIDE DEF w
  <2>5. [w.fns EXCEPT ![n] = h] = [p.fns EXCEPT ![n] = h]
    BY <2>1, <2>2
  <2>6. [w EXCEPT !.fns = [w.fns EXCEPT ![n] = h]] = [p EXCEPT !.fns = [p.fns EXCEPT ![n] = h]]
    BY <2>1, <2>2, <2>5 DEF ParserSet
  <2>. QED
    BY <2>3, <2>4, <2>6 DEF w
<1>. QED
  BY <1>7, <1>9, <1>10

(* The body of a function is in the scope of its parameters.               *)
LEMMA FuncBodyBalances ==
  ASSUME CompilerInv, TextInv, BalanceInv, FuncBody
  PROVE  BalanceInv'
<1>. DEFINE p == Consume(parser, "R_PAREN")  q == Consume(p, "L_BRACE")
            c == Do("block")  a == [Top EXCEPT !.at = "func_end"]
<1>1. todo # << >> /\ Top.at = "func_body" /\ Then(q, <<c, a>>)
  BY DEF FuncBody, At
<1>2. Fine(parser) /\ text \in Texts /\ Top \in Calls
  BY <1>1, TopIs
<1>3. Mild(parser, p) /\ Fine(p) /\ p.fns = parser.fns
  BY <1>2, ReadMild, ReadIs
<1>00. q = Consume(p, "L_BRACE")
  OBVIOUS
<1>. HIDE DEF p, q
<1>4. Mild(p, q) /\ q.fns = parser.fns /\ Mild(parser, q)
  BY <1>00, <1>2, <1>3, ReadMild, ReadIs, MildTrans
<1>5. a \in Calls /\ a.at = "func_end"
  <2>1. Top \in [at : {"var_defined"} \cup InFunction, global : Bytes]
    BY <1>1, <1>2 DEF Calls, PlainCalls, PrefixCalls, InFunction
  <2>2. a \in [at : {"var_defined"} \cup InFunction, global : Bytes] /\ a.at = "func_end"
    BY <2>1 DEF InFunction
  <2>. QED
    BY <2>2 DEF Calls
<1>6. c \in Calls /\ c.at = "block"
  BY CallForms DEF PlainCalls
<1>. HIDE DEF a, c
<1>7. ASSUME Live(q) PROVE TypedBy(Fn(q), <<c, a>> \o Tail(todo))
  <2>1. Top.at \notin ExprCalls \cup {"var_defined"} /\ Top.at \notin Takers
        /\ Top.at \notin Holders /\ Top.at \in Bases /\ a.at \in Bases /\ Sc(a) = Sc(Top)
        /\ a.at \in Flexible /\ c.at \in Level0 /\ a.at \notin ExprCalls
    BY <1>1, <1>5, <1>6 DEF ExprCalls, Immediate, PrefixCalls, Takers, Holders, Bases,
       InFunction, Sc, Scoped, Flexible, Level0
  <2>2. PICK H, O, e, r, n : Opened(H, O, e, r, n)
    BY <1>1, <1>4, <1>7, <2>1, Opens
  <2>3. Now(H, q, H, O, n) /\ Fn(q) = Fn(parser) /\ n \in Nat
    BY <1>4, <2>1, <2>2, NowReads DEF Opened
  <2>4. FitsStatement(Fn(q), a, n, r[1].out) /\ FitsMarks(Fn(q), H, a, n)
    BY <1>5 DEF FitsStatement, FitsMarks
  <2>5. FitsScope(Fn(q), a, r[1].out, r[1].depth)
    BY <1>1, <1>5, <2>2, <2>3 DEF FitsScope, Opened, Scoped, InFunction
  <2>6. Fits(Fn(q), H, Rec(a, n, r[1].out, r[1].depth))
    BY <2>1, <2>4, <2>5, FitsOther
  <2>7. Held(O, O, Holds(a))
    BY <1>1, <2>1, HeldSame
  <2>. QED
    BY <1>1, <1>5, <1>6, <2>1, <2>2, <2>3, <2>6, <2>7, NowDo
<1>. QED
  BY <1>1, <1>4, <1>7, BalanceNext

(* return_statement leaves the value that OP_RETURN takes.                 *)
LEMMA ReturnStatementBalances ==
  ASSUME CompilerInv, TextInv, BalanceInv, ReturnStatement
  PROVE  BalanceInv'
<1>. DEFINE f == Fn(parser)
            q == IF f.type = "SCRIPT" THEN ErrorAt(parser) ELSE parser
            p == Advance(q)  k == EmitOp(p, "NIL")  t == EmitOp(k, "RETURN")
            u == Emit(p, <<Opcode["NIL"], Opcode["RETURN"]>>)
            a == Finish("SEMICOLON", <<Opcode["RETURN"]>>)
<1>1. /\ todo # << >> /\ Top.at = "return_statement"
      /\ Then(u, << >>) \/ Then(q, <<Expression, a>>)
  BY DEF ReturnStatement, At, Return
<1>2. Fine(parser) /\ text \in Texts /\ Top \in Calls
  BY <1>1, TopIs
<1>3. Mild(parser, q) /\ q.fns = parser.fns /\ (~ q.error => f.type # "SCRIPT")
  <2>1. /\ Mild(parser, ErrorAt(parser)) /\ Mild(parser, parser) /\ ErrorAt(parser).error
        /\ ErrorAt(parser).fns = parser.fns
    BY <1>2, ReadMild, ErrorsStay, ReadIs
  <2>. QED
    BY <2>1
<1>4. Fine(q)
  BY <1>3 DEF Mild, Tame
<1>. HIDE DEF q
<1>5. Mild(q, p) /\ Mild(parser, p) /\ p.fns = q.fns /\ Fine(p)
  BY <1>2, <1>3, <1>4, ReadMild, ReadIs, MildTrans DEF Mild, Tame
<1>. HIDE DEF p
<1>6. "NIL" \in Emitted /\ "RETURN" \in Emitted /\ "NIL" \in OneByteOps /\ "RETURN" \in OneByteOps
  BY DEF Emitted, OneByteOps
<1>7. Mild(p, k) /\ Fine(k)
  BY <1>5, <1>6, EmitOpMild DEF Mild, Tame
<1>70. u = t
  <2>1. Opcode["NIL"] \in Bytes /\ Opcode["RETURN"] \in Bytes
    BY <1>6, OpcodeIsByte
  <2>. QED
    BY <1>5, <2>1, EmitTwice DEF EmitOp
<1>71. k = EmitOp(p, "NIL") /\ t = EmitOp(k, "RETURN")
  OBVIOUS
<1>. HIDE DEF k, t, u
<1>8. Mild(k, t) /\ Mild(p, t) /\ Mild(q, t) /\ Mild(parser, t)
  BY <1>5, <1>6, <1>7, <1>71, EmitOpMild, MildTrans
<1>9. <<Opcode["RETURN"]>> \in Seq(Bytes)
  BY <1>6, CodesAre
<1>10. a \in Calls /\ a.at = "finish" /\ a.token = "SEMICOLON" /\ a.code = <<Opcode["RETURN"]>>
  BY <1>9, CallForms DEF Finish
<1>. HIDE DEF a
<1>11. Top.at \notin ExprCalls \cup {"var_defined"} /\ Top.at \notin Takers /\ Sc(Top) = 0
       /\ Top.at \notin Holders /\ Top.at \notin Bases \cup Scoped /\ Top.at \notin Bases
       /\ Top.at \notin Flexible /\ Sc(a) = 0 /\ a.at \notin Bases
       /\ ~ Gives(Top) /\ Top.at \notin Bodied
  BY <1>1, <1>10 DEF ExprCalls, Immediate, PrefixCalls, Takers, Holders, Bases, InFunction, Sc,
     Scoped, Flexible, Gives, Bodied
<1>12. ASSUME Live(q)
       PROVE  \E H, O, e, r, n : /\ Begun(H, O, e, r) /\ n = Len(f.locals) /\ n \in Nat /\ n >= 1
                                 /\ n >= Slots(f) /\ r[1].out = n
                                 /\ Now(H, q, H, O, n) /\ Fn(q) = f /\ f.type # "SCRIPT"
  <2>1. PICK H, O, e, r, n : Opened(H, O, e, r, n)
    BY <1>1, <1>3, <1>11, <1>12, Opens
  <2>2. /\ Begun(H, O, e, r) /\ n = Len(f.locals) /\ n \in Nat /\ n >= 1 /\ n >= Slots(f)
        /\ e = n /\ e = r[1].in
    BY <1>11, <2>1 DEF Opened
  <2>3. r[1].out = n
    BY <1>1, <2>1, <2>2 DEF Opened, FitsStatement
  <2>4. Now(H, q, H, O, n) /\ Fn(q) = f
    BY <1>3, <2>1, <2>2, NowReads DEF Opened
  <2>. QED
    BY <1>3, <1>12, <2>2, <2>3, <2>4 DEF Live
<1>. HIDE DEF f
<1>13. CASE Then(u, << >>)
  <2>1. ASSUME Live(t) PROVE TypedBy(Fn(t), << >> \o Tail(todo))
    <3>0. Live(q)
      BY <1>8, <2>1, LiveBefore
    <3>1. PICK H, O, e, r, n : /\ Begun(H, O, e, r) /\ n = Len(f.locals) /\ n \in Nat /\ n >= 1
                               /\ n >= Slots(f) /\ r[1].out = n
                               /\ Now(H, q, H, O, n) /\ Fn(q) = f /\ f.type # "SCRIPT"
      BY <1>12, <3>0
    <3>2. Now(H, p, H, O, n) /\ Fn(p) = f
      BY <1>5, <3>1, NowReads
    <3>. DEFINE x == n + 1
    <3>3. x \in Nat /\ x # 0 /\ n # 0 /\ x >= 2 /\ x = n + 1
      BY <3>1
    <3>. HIDE DEF x
    <3>4. OneSuits(Fn(p), "NIL", n, x)
      BY <3>3 DEF OneSuits
    <3>5. PICK L : Now(H, k, L, O, x)
      BY <1>6, <1>71, <3>2, <3>3, <3>4, NowOp
    <3>6. Fn(k).type # "SCRIPT"
      BY <3>1, <3>5, NowIs DEF f
    <3>7. OneSuits(Fn(k), "RETURN", x, n)
      BY <3>3, <3>6 DEF OneSuits
    <3>8. PICK K : Now(H, t, K, O, n)
      BY <1>6, <1>71, <3>1, <3>3, <3>5, <3>7, NowOp
    <3>9. Held(O, O, {})
      BY <1>1, <1>11, HeldSame
    <3>. QED
      BY <1>1, <1>11, <3>1, <3>8, <3>9, NowZero DEF f
  <2>. QED
    BY <1>1, <1>8, <1>13, <1>70, <2>1, BalanceNext
<1>14. CASE Then(q, <<Expression, a>>)
  <2>1. ASSUME Live(q) PROVE TypedBy(Fn(q), <<Expression, a>> \o Tail(todo))
    <3>1. PICK H, O, e, r, n : /\ Begun(H, O, e, r) /\ n = Len(f.locals) /\ n \in Nat /\ n >= 1
                               /\ n >= Slots(f) /\ r[1].out = n
                               /\ Now(H, q, H, O, n) /\ Fn(q) = f /\ f.type # "SCRIPT"
      BY <1>12, <2>1
    <3>2. FitsFinish(Fn(q), a, n + 1, r[1].out)
      BY <1>10, <3>1 DEF FitsFinish
    <3>3. Fits(Fn(q), H, Rec(a, n + 1, r[1].out, r[1].depth))
      BY <1>10, <3>2, FitsFinishes
    <3>4. Held(O, O, Holds(a)) /\ PREC_ASSIGN \in Nat /\ Sc(a) = Sc(Top)
      BY <1>1, <1>11, HeldSame DEF PREC_ASSIGN
    <3>. QED
      BY <1>1, <1>10, <1>11, <3>1, <3>3, <3>4, NowExpression DEF Expression, f
  <2>. QED
    BY <1>1, <1>3, <1>14, <2>1, BalanceNext
<1>. QED
  BY <1>1, <1>13, <1>14

(* A mark of the code stays where it is.                                   *)
LEMMA MarkStays ==
  ASSUME NEW p, NEW q, NEW H, NEW K, Goes(p, H, q, K), NEW k \in Nat, NEW x,
         k <= Len(Fn(p).code), <<k, x>> \in H
  PROVE  k <= Len(Fn(q).code) /\ <<k, x>> \in K
<1>1. /\ Len(Fn(p).code) \in Nat /\ Len(Fn(q).code) \in Nat
      /\ Len(Fn(p).code) <= Len(Fn(q).code) /\ H \subseteq K
  BY DEF Goes, Typed, Onto, Extends
<1>2. k <= Len(Fn(q).code)
  BY <1>1
<1>. QED
  BY <1>1, <1>2

(* The body of a for, and the end of its scope.                            *)
BodyMarks(q, K, n, start) ==
  /\ start \in Nat /\ start <= Len(Fn(q).code) /\ <<start, n>> \in K
  /\ Top.exit # -1 => Hole(Fn(q), K, Top.exit, n + 1)

(* The loop's end has its start and its exit.                              *)
LEMMA NowBody ==
  ASSUME CompilerInv, todo # << >>, NEW H, NEW O, NEW e, NEW r, NEW n, Opened(H, O, e, r, n),
         Top.at \in {"for_increment", "for_step"},
         NEW q, NEW K, NEW Q, Now(H, q, K, Q, n), NEW start, BodyMarks(q, K, n, start),
         Held(Q, O, {Top.exit} \ {-1})
  PROVE  TypedBy(Fn(q), ForBody(start) \o Tail(todo))
<1>. DEFINE f == Fn(parser)  g == Fn(q)  d == r[1].depth
            b == Do("statement")  a == Do("end_scope")
            c == [at |-> "loop_end", start |-> start, exit |-> Top.exit]
<1>1. /\ Begun(H, O, e, r) /\ n = Len(f.locals) /\ n \in Nat /\ d \in Nat
      /\ FitsScope(f, Top, r[1].out, d) /\ f.depth = d + Sc(Top)
  BY DEF Opened
<1>2. /\ Goes(parser, H, q, K) /\ Cert(g, K, Q, n) /\ g.locals = f.locals /\ g.depth = f.depth
      /\ start \in Nat /\ start <= Len(g.code) /\ <<start, n>> \in K
      /\ Top.exit # -1 => Hole(g, K, Top.exit, n + 1)
  BY NowIs DEF BodyMarks
<1>3. Going(f, H, O, e, r, g, K, Q, n)
  BY <1>1, <1>2, StaysGoing
<1>4. Top \in Calls /\ Top.exit \in Nat \cup {-1}
  BY TopIs, HoldsExit, HoldsStep
<1>5. b \in Calls /\ b.at = "statement" /\ a \in Calls /\ a.at = "end_scope"
  BY CallForms DEF PlainCalls
<1>6. c \in Calls /\ c.at = "loop_end" /\ c.start = start /\ c.exit = Top.exit
  BY <1>2, <1>4 DEF Calls
<1>00. ForBody(start) = <<b, c, a>>
  BY DEF ForBody
<1>. HIDE DEF a, b, c, f, g
<1>7. /\ Sc(a) = 1 /\ Sc(c) = 0 /\ Sc(b) = 0 /\ Sc(Top) = 1
      /\ a.at \in Flexible /\ c.at \notin Bases /\ b.at \notin Bases /\ a.at \notin Bases
      /\ Top.at \notin Bases /\ a.at \notin ExprCalls /\ c.at \notin ExprCalls
      /\ b.at \in Level0 /\ Top.at \in Scoped
  BY <1>5, <1>6 DEF Sc, Scoped, Flexible, Bases, InFunction, ExprCalls, Immediate, PrefixCalls,
     Level0
<1>. DEFINE s == Rec(a, n, r[1].out, d)  p == Rec(c, n, n, d + Sc(a))
            t == Rec(b, n, n, d + Sc(a) + Sc(c))
<1>8. Fits(g, K, s)
  <2>1. LocalsTo(f, r[1].out, d)
    BY <1>1, <1>7 DEF FitsScope
  <2>2. LocalsTo(g, r[1].out, d)
    BY <1>2, <2>1 DEF LocalsTo
  <2>3. /\ FitsStatement(g, a, n, r[1].out) /\ FitsMarks(g, K, a, n)
        /\ FitsScope(g, a, r[1].out, d)
    BY <1>5, <2>2 DEF FitsStatement, FitsMarks, FitsScope, InFunction
  <2>. QED
    BY <1>7, <2>3, FitsOther
<1>9. Fits(g, K, p)
  <2>3. /\ FitsStatement(g, c, n, n) /\ FitsMarks(g, K, c, n)
        /\ FitsScope(g, c, n, d + Sc(a))
    BY <1>2, <1>6 DEF FitsStatement, FitsMarks, FitsScope, Scoped, InFunction
  <2>. QED
    BY <1>7, <2>3, FitsOther
<1>10. Fits(g, K, t)
  BY <1>7, LevelFits
<1>11. t.call = b /\ t.in = n /\ t.depth = d + 1
  BY <1>1, <1>7 DEF Rec
<1>12. TopOK(g, n, t)
  BY <1>1, <1>2, <1>7, <1>11 DEF TopOK
<1>13. Holds(a) = {} /\ Holds(b) = {} /\ Holds(c) = {Top.exit} \ {-1}
  BY <1>5, <1>6, HoldsNothing, HoldsExit
<1>14. Held(Q, O, Holds(a) \cup Holds(c) \cup Holds(b))
  BY <1>13
<1>15. s = Rec(a, n, r[1].out, r[1].depth) /\ p = Rec(c, n, n, r[1].depth + Sc(a))
       /\ t = Rec(b, n, n, r[1].depth + Sc(a) + Sc(c))
  OBVIOUS
<1>. HIDE DEF s, p, t
<1>16. c.at \notin Flexible => n = n
  OBVIOUS
<1>17. TypedBy(g, <<b, c, a>> \o Tail(todo))
  BY <1>1, <1>3, <1>5, <1>6, <1>7, <1>8, <1>9, <1>10, <1>12, <1>14, <1>15, TypedThree
<1>. QED
  BY <1>00, <1>17 DEF g
-----------------------------------------------------------------------------

(* The start of a for's loop is marked, and its condition is a value on    *)
(* the locals.                                                             *)
LEMMA ForConditionBalances ==
  ASSUME CompilerInv, TextInv, BalanceInv, ForCondition
  PROVE  BalanceInv'
<1>. DEFINE k == Count(parser)  q == Advance(parser)
            c == [at |-> "for_increment", start |-> k, exit |-> -1]
            a == [at |-> "for_exit", start |-> k]
<1>1. /\ todo # << >> /\ Top.at = "for_condition"
      /\ Then(q, <<c>>) \/ Then(parser, <<Expression, a>>)
  BY DEF ForCondition, At
<1>2. /\ Fine(parser) /\ text \in Texts /\ Mild(parser, q) /\ q.fns = parser.fns
      /\ Mild(parser, parser)
  BY <1>1, TopIs, ReadMild, ReadIs
<1>3. k \in Nat /\ k = Len(Fn(parser).code)
  BY <1>2, FineFn
<1>4. c \in Calls /\ c.at = "for_increment" /\ c.start = k /\ c.exit = -1
  BY <1>3 DEF Calls
<1>5. a \in Calls /\ a.at = "for_exit" /\ a.start = k
  BY <1>3 DEF Calls
<1>0. k = Count(parser)
  OBVIOUS
<1>. HIDE DEF q, c, a, k
<1>6. /\ Top.at \notin ExprCalls \cup {"var_defined"} /\ Top.at \notin Takers
      /\ Top.at \notin Holders /\ Top.at \notin Bases /\ Sc(Top) = 1 /\ Sc(c) = 1 /\ Sc(a) = 1
      /\ c.at \notin Bases /\ a.at \notin Bases /\ c.at \notin ExprCalls /\ a.at \notin ExprCalls
      /\ Top.at \in Scoped /\ a.at \in Scoped /\ c.at \in Scoped
  BY <1>1, <1>4, <1>5 DEF ExprCalls, Immediate, PrefixCalls, Takers, Holders, Bases,
     InFunction, Sc, Scoped
<1>7. ASSUME Live(parser)
      PROVE  \E H, O, e, r, n : /\ Begun(H, O, e, r) /\ n = Len(Fn(parser).locals) /\ n \in Nat
                                /\ n >= Slots(Fn(parser)) /\ Now(H, parser, H, O, n)
                                /\ <<k, n>> \in H /\ LocalsTo(Fn(parser), r[1].out, r[1].depth)
  <2>1. PICK H, O, e, r, n : Opened(H, O, e, r, n)
    BY <1>1, <1>2, <1>6, <1>7, Opens
  <2>2. /\ Begun(H, O, e, r) /\ n = Len(Fn(parser).locals) /\ n \in Nat
        /\ n >= Slots(Fn(parser)) /\ Now(H, parser, H, O, n)
    BY <1>6, <2>1 DEF Opened
  <2>3. LocalsTo(Fn(parser), r[1].out, r[1].depth)
    BY <1>6, <2>1 DEF Opened, FitsScope
  <2>4. <<k, n>> \in H
    BY <1>0, <2>2, NowIs
  <2>. QED
    BY <2>2, <2>3, <2>4
<1>8. CASE Then(q, <<c>>)
  <2>1. ASSUME Live(q) PROVE TypedBy(Fn(q), <<c>> \o Tail(todo))
    <3>0. Live(parser)
      BY <1>2, <2>1, LiveBefore
    <3>1. PICK H, O, e, r, n : /\ Begun(H, O, e, r) /\ n = Len(Fn(parser).locals) /\ n \in Nat
                               /\ n >= Slots(Fn(parser)) /\ Now(H, parser, H, O, n)
                               /\ <<k, n>> \in H /\ LocalsTo(Fn(parser), r[1].out, r[1].depth)
      BY <1>7, <3>0
    <3>2. Now(H, q, H, O, n) /\ Fn(q) = Fn(parser)
      BY <1>2, <3>1, NowReads
    <3>3. /\ FitsStatement(Fn(q), c, n, r[1].out) /\ FitsMarks(Fn(q), H, c, n)
          /\ FitsScope(Fn(q), c, r[1].out, r[1].depth)
      BY <1>3, <1>4, <3>1, <3>2 DEF FitsStatement, FitsMarks, FitsScope, InFunction
    <3>4. Fits(Fn(q), H, Rec(c, n, r[1].out, r[1].depth))
      BY <1>6, <3>3, FitsOther
    <3>5. Held(O, O, Holds(c)) /\ OnTop(c, n, n, Len(Fn(parser).locals)) /\ Sc(c) = Sc(Top)
      BY <1>1, <1>6, <3>1, HeldSame DEF OnTop
    <3>. QED
      BY <1>1, <1>4, <1>6, <3>1, <3>2, <3>4, <3>5, NowOne
  <2>. QED
    BY <1>1, <1>2, <1>8, <2>1, BalanceNext
<1>9. CASE Then(parser, <<Expression, a>>)
  <2>1. ASSUME Live(parser) PROVE TypedBy(Fn(parser), <<Expression, a>> \o Tail(todo))
    <3>1. PICK H, O, e, r, n : /\ Begun(H, O, e, r) /\ n = Len(Fn(parser).locals) /\ n \in Nat
                               /\ n >= Slots(Fn(parser)) /\ Now(H, parser, H, O, n)
                               /\ <<k, n>> \in H /\ LocalsTo(Fn(parser), r[1].out, r[1].depth)
      BY <1>7, <2>1
    <3>. DEFINE v == n + 1
    <3>2. v = n + 1 /\ v - 1 = n
      BY <3>1
    <3>. HIDE DEF v
    <3>3. FitsStatement(Fn(parser), a, v, r[1].out) /\ FitsScope(Fn(parser), a, r[1].out, r[1].depth)
      BY <1>5, <3>1, <3>2 DEF FitsStatement, FitsScope, InFunction
    <3>4. FitsMarks(Fn(parser), H, a, v)
      BY <1>3, <1>5, <3>1, <3>2 DEF FitsMarks
    <3>5. Fits(Fn(parser), H, Rec(a, v, r[1].out, r[1].depth))
      BY <1>6, <3>3, <3>4, FitsOther
    <3>6. Held(O, O, Holds(a)) /\ PREC_ASSIGN \in Nat /\ Sc(a) = Sc(Top)
      BY <1>1, <1>6, HeldSame DEF PREC_ASSIGN
    <3>. QED
      BY <1>1, <1>5, <1>6, <3>1, <3>2, <3>5, <3>6, NowExpression DEF Expression
  <2>. QED
    BY <1>1, <1>2, <1>9, <2>1, BalanceNext
<1>. QED
  BY <1>1, <1>8, <1>9

(* It is popped on the way in, as for a while.                             *)
LEMMA ForExitBalances ==
  ASSUME CompilerInv, TextInv, BalanceInv, ForExit
  PROVE  BalanceInv'
<1>. DEFINE q == Tested("SEMICOLON")  t == EmitOp(q, "POP")
            c == [at |-> "for_increment", start |-> Top.start, exit |-> JumpOf(q)]
<1>1. todo # << >> /\ Top.at = "for_exit" /\ Then(t, <<c>>)
  BY DEF ForExit, At, Tested
<1>2. Fine(parser) /\ text \in Texts /\ Top \in Calls
  BY <1>1, TopIs
<1>3. Mild(parser, t)
  BY <1>2, TestMild
<1>4. Top.start \in Nat
  BY <1>1, <1>2 DEF Calls, PlainCalls, PrefixCalls, InFunction
<1>5. c.at = "for_increment" /\ c.start = Top.start /\ c.exit = JumpOf(q)
  OBVIOUS
<1>6. JumpOf(q) \in Nat => c \in Calls
  BY <1>4 DEF Calls
<1>0. t = EmitOp(q, "POP")
  OBVIOUS
<1>. HIDE DEF t, c
<1>7. ASSUME Live(t) PROVE TypedBy(Fn(t), <<c>> \o Tail(todo))
  <2>1. Top.at \notin ExprCalls \cup {"var_defined"} /\ Top.at \notin Flexible
        /\ Top.at \notin Bases /\ Top.at \notin Holders /\ Sc(Top) = 1 /\ Top.at \in Scoped
        /\ Sc(c) = 1 /\ c.at \notin Bases /\ c.at \notin ExprCalls /\ c.at \in Scoped
    BY <1>1, <1>5 DEF ExprCalls, Immediate, PrefixCalls, Flexible, Bases, InFunction, Holders,
       Sc, Scoped
  <2>2. PICK H, O, e, r, n : Opened(H, O, e, r, n)
    BY <1>1, <1>3, <1>7, <2>1, Opens
  <2>3. /\ Begun(H, O, e, r) /\ n = Len(Fn(parser).locals) /\ n \in Nat /\ n >= 1 /\ e = r[1].in
        /\ O \subseteq Int /\ Now(H, parser, H, O, e)
    BY <2>1, <2>2 DEF Opened
  <2>4. e = n + 1
    BY <1>1, <2>2, <2>3 DEF FitsStatement, Opened
  <2>5. /\ LocalsTo(Fn(parser), r[1].out, r[1].depth)
        /\ Top.start <= Len(Fn(parser).code) /\ <<Top.start, n>> \in H
    <3>1. e - 1 = n
      BY <2>3, <2>4
    <3>. QED
      BY <1>1, <2>1, <2>2, <2>3, <3>1 DEF FitsScope, FitsMarks, Opened
  <2>. HIDE DEF q
  <2>6. JumpOf(q) \in Nat /\ \E K, R : TestHolds(H, O, q, t, K, R, n)
    BY <1>0, <2>3, <2>4, NowTest DEF q
  <2>7. PICK K, R : TestHolds(H, O, q, t, K, R, n)
    BY <2>6
  <2>8. R = O \cup {JumpOf(q) - 1} /\ Now(H, t, K, R, n) /\ Hole(Fn(t), K, JumpOf(q), n + 1)
    BY <2>7 DEF TestHolds
  <2>9. Goes(parser, H, t, K) /\ Fn(t).locals = Fn(parser).locals
    BY <2>8, NowIs
  <2>10. c \in Calls /\ JumpOf(q) \in Int /\ JumpOf(q) # -1
    BY <1>6, <2>6
  <2>11. JumpOf(q) \in Holds(c)
    BY <1>5, <2>10, HoldsExit
  <2>12. Holds(Top) = {}
    BY <1>1, <1>2, HoldsNothing
  <2>13. Held(R, O, Holds(c))
    BY <2>3, <2>8, <2>10, <2>11, <2>12, HeldNew
  <2>14. Top.start <= Len(Fn(t).code) /\ <<Top.start, n>> \in K
    BY <1>4, <2>5, <2>9, MarkStays
  <2>15. LocalsTo(Fn(t), r[1].out, r[1].depth)
    BY <2>5, <2>9 DEF LocalsTo
  <2>16. /\ FitsStatement(Fn(t), c, n, r[1].out) /\ FitsMarks(Fn(t), K, c, n)
         /\ FitsScope(Fn(t), c, r[1].out, r[1].depth)
    BY <1>5, <2>8, <2>14, <2>15 DEF FitsStatement, FitsMarks, FitsScope, InFunction
  <2>17. Fits(Fn(t), K, Rec(c, n, r[1].out, r[1].depth))
    BY <2>1, <2>16, FitsOther
  <2>18. OnTop(c, n, n, Len(Fn(parser).locals)) /\ Sc(c) = Sc(Top)
    BY <2>1, <2>3 DEF OnTop
  <2>. QED
    BY <1>1, <2>1, <2>3, <2>8, <2>10, <2>13, <2>17, <2>18, NowOne
<1>. QED
  BY <1>1, <1>3, <1>7, BalanceNext

(* A for's increment is marked, and jumped over at the height it begins.   *)
LEMMA ForIncrementBalances ==
  ASSUME CompilerInv, TextInv, BalanceInv, ForIncrement
  PROVE  BalanceInv'
<1>. DEFINE p == Advance(parser)  q == EmitJump(parser, "JMP")
            a == [at |-> "for_step", start |-> Top.start, exit |-> Top.exit,
                  increment |-> Count(q), jump |-> JumpOf(q)]
<1>1. /\ todo # << >> /\ Top.at = "for_increment"
      /\ Then(p, ForBody(Top.start)) \/ Then(q, <<Expression, a>>)
  BY DEF ForIncrement, At
<1>2. /\ Fine(parser) /\ text \in Texts /\ Top \in Calls /\ Mild(parser, p)
      /\ p.fns = parser.fns
  BY <1>1, TopIs, ReadMild, ReadIs
<1>3. Holds(Top) = {Top.exit} \ {-1} /\ Top.exit \in Nat \cup {-1} /\ Top.start \in Nat
  BY <1>1, <1>2, HoldsExit
<1>4. "JMP" \in Emitted /\ Top.at \in {"for_increment", "for_step"}
  BY <1>1 DEF Emitted
<1>5. Mild(parser, q) /\ Fine(q)
  BY <1>2, <1>4, EmitJumpMild DEF Mild, Tame
<1>6. /\ a.at = "for_step" /\ a.start = Top.start /\ a.exit = Top.exit
      /\ a.increment = Count(q) /\ a.jump = JumpOf(q)
  OBVIOUS
<1>7. JumpOf(q) \in Nat /\ Count(q) \in Nat => a \in Calls
  BY <1>3 DEF Calls
<1>0. q = EmitJump(parser, "JMP")
  OBVIOUS
<1>. HIDE DEF p, q, a
<1>8. /\ Top.at \notin ExprCalls \cup {"var_defined"} /\ Top.at \notin Takers
      /\ Top.at \notin Bases /\ Top.at \notin Flexible /\ Sc(Top) = 1 /\ Top.at \in Scoped
      /\ Sc(a) = 1 /\ a.at \notin Bases /\ a.at \notin ExprCalls /\ a.at \in Scoped
  BY <1>1, <1>6 DEF ExprCalls, Immediate, PrefixCalls, Takers, Flexible, Bases, InFunction, Sc,
     Scoped
<1>9. ASSUME Live(parser)
      PROVE  \E H, O, e, r, n :
               /\ Opened(H, O, e, r, n) /\ Begun(H, O, e, r) /\ n = Len(Fn(parser).locals)
               /\ n \in Nat /\ n >= 1 /\ n >= Slots(Fn(parser)) /\ Now(H, parser, H, O, n)
               /\ O \subseteq Int /\ LocalsTo(Fn(parser), r[1].out, r[1].depth)
               /\ BodyMarks(parser, H, n, Top.start)
  <2>1. PICK H, O, e, r, n : Opened(H, O, e, r, n)
    BY <1>1, <1>2, <1>8, <1>9, ReadMild, Opens
  <2>2. /\ Begun(H, O, e, r) /\ n = Len(Fn(parser).locals) /\ n \in Nat /\ n >= 1
        /\ n >= Slots(Fn(parser)) /\ Now(H, parser, H, O, n) /\ O \subseteq Int
        /\ r[1].in = n
    BY <1>8, <2>1 DEF Opened
  <2>3. LocalsTo(Fn(parser), r[1].out, r[1].depth)
    BY <1>8, <2>1 DEF Opened, FitsScope
  <2>4. BodyMarks(parser, H, n, Top.start)
    BY <1>1, <1>3, <2>1, <2>2 DEF BodyMarks, Opened, FitsMarks
  <2>. QED
    BY <2>1, <2>2, <2>3, <2>4
<1>10. CASE Then(p, ForBody(Top.start))
  <2>1. ASSUME Live(p) PROVE TypedBy(Fn(p), ForBody(Top.start) \o Tail(todo))
    <3>0. Live(parser)
      BY <1>2, <2>1, LiveBefore
    <3>1. PICK H, O, e, r, n :
               /\ Opened(H, O, e, r, n) /\ Begun(H, O, e, r) /\ n = Len(Fn(parser).locals)
               /\ n \in Nat /\ n >= 1 /\ n >= Slots(Fn(parser)) /\ Now(H, parser, H, O, n)
               /\ O \subseteq Int /\ LocalsTo(Fn(parser), r[1].out, r[1].depth)
               /\ BodyMarks(parser, H, n, Top.start)
      BY <1>9, <3>0
    <3>2. Now(H, p, H, O, n) /\ Fn(p) = Fn(parser)
      BY <1>2, <3>1, NowReads
    <3>3. BodyMarks(p, H, n, Top.start)
      BY <3>1, <3>2 DEF BodyMarks
    <3>4. Held(O, O, {Top.exit} \ {-1})
      BY <1>3, HeldOn
    <3>. QED
      BY <1>1, <1>4, <3>1, <3>2, <3>3, <3>4, NowBody
  <2>. QED
    BY <1>1, <1>2, <1>10, <2>1, BalanceNext
<1>11. CASE Then(q, <<Expression, a>>)
  <2>1. ASSUME Live(q) PROVE TypedBy(Fn(q), <<Expression, a>> \o Tail(todo))
    <3>0. Live(parser)
      BY <1>5, <2>1, LiveBefore
    <3>1. PICK H, O, e, r, n :
               /\ Opened(H, O, e, r, n) /\ Begun(H, O, e, r) /\ n = Len(Fn(parser).locals)
               /\ n \in Nat /\ n >= 1 /\ n >= Slots(Fn(parser)) /\ Now(H, parser, H, O, n)
               /\ O \subseteq Int /\ LocalsTo(Fn(parser), r[1].out, r[1].depth)
               /\ BodyMarks(parser, H, n, Top.start)
      BY <1>9, <3>0
    <3>2. JumpOf(q) \in Nat /\ \E L, R : Leapt(H, parser, H, O, q, L, R, n, n)
      <4>. DEFINE op == "JMP"
      <4>1. op \in {"JMP", "JMP_FALSE"} /\ q = EmitJump(parser, op) /\ (op = "JMP_FALSE" => n >= 2 /\ n = n)
        BY <1>0
      <4>2. n # 0
        BY <3>1
      <4>. HIDE DEF op
      <4>. QED
        BY <3>1, <4>1, <4>2, NowJump
    <3>3. PICK L, R : Leapt(H, parser, H, O, q, L, R, n, n)
      BY <3>2
    <3>4. /\ R = O \cup {JumpOf(q) - 1} /\ Now(H, q, L, R, n) /\ Goes(parser, H, q, L)
          /\ Hole(Fn(q), L, JumpOf(q), n)
      BY <3>3 DEF Leapt
    <3>5. /\ Count(q) \in Nat /\ <<Count(q), n>> \in L /\ Count(q) = Len(Fn(q).code)
          /\ Fn(q).locals = Fn(parser).locals
      BY <3>4, NowIs DEF Count
    <3>6. a \in Calls /\ JumpOf(q) \in Int /\ JumpOf(q) # -1
      BY <1>7, <3>2, <3>5
    <3>7. Holds(a) = {Top.exit, JumpOf(q)} \ {-1}
      BY <1>6, <3>6, HoldsStep
    <3>8. JumpOf(q) \in Holds(a) /\ Holds(Top) \subseteq Holds(a)
      BY <1>3, <3>6, <3>7
    <3>9. Held(R, O, Holds(a))
      BY <3>1, <3>4, <3>6, <3>8, HeldNew
    <3>10. /\ Top.start <= Len(Fn(q).code) /\ <<Top.start, n>> \in L
           /\ Top.exit # -1 => Hole(Fn(q), L, Top.exit, n + 1)
      <4>1. /\ Top.start <= Len(Fn(parser).code) /\ <<Top.start, n>> \in H
            /\ Top.exit # -1 => Hole(Fn(parser), H, Top.exit, n + 1)
        BY <3>1 DEF BodyMarks
      <4>2. Top.start <= Len(Fn(q).code) /\ <<Top.start, n>> \in L
        BY <1>3, <3>4, <4>1, MarkStays
      <4>3. Top.exit \in Int
        BY <1>3
      <4>. QED
        BY <3>4, <4>1, <4>2, <4>3, GoesHole
    <3>. DEFINE v == n + 1
    <3>11. v = n + 1 /\ v - 1 = n /\ Count(q) <= Len(Fn(q).code)
      BY <3>1, <3>5
    <3>. HIDE DEF v
    <3>12. LocalsTo(Fn(q), r[1].out, r[1].depth)
      BY <3>1, <3>5 DEF LocalsTo
    <3>13. FitsStatement(Fn(q), a, v, r[1].out) /\ FitsScope(Fn(q), a, r[1].out, r[1].depth)
      BY <1>6, <3>1, <3>5, <3>11, <3>12 DEF FitsStatement, FitsScope, InFunction
    <3>14. FitsMarks(Fn(q), L, a, v)
      BY <1>6, <3>4, <3>5, <3>10, <3>11 DEF FitsMarks
    <3>15. Fits(Fn(q), L, Rec(a, v, r[1].out, r[1].depth))
      BY <1>8, <3>13, <3>14, FitsOther
    <3>16. PREC_ASSIGN \in Nat /\ Sc(a) = Sc(Top)
      BY <1>8 DEF PREC_ASSIGN
    <3>. QED
      BY <1>1, <1>8, <3>1, <3>4, <3>6, <3>9, <3>11, <3>15, <3>16, NowExpression DEF Expression
  <2>. QED
    BY <1>1, <1>5, <1>11, <2>1, BalanceNext
<1>. QED
  BY <1>1, <1>10, <1>11

(* Its value is popped, and the jumps around it meet where their heights   *)
(* do.                                                                     *)
LEMMA ForStepBalances ==
  ASSUME CompilerInv, TextInv, BalanceInv, ForStep
  PROVE  BalanceInv'
<1>. DEFINE j == Top.jump  p == EmitOp(parser, "POP")  q == Consume(p, "R_PAREN")
            l == EmitLoop(q, Top.start)  s == PatchJump(l, j)
<1>1. todo # << >> /\ Top.at = "for_step" /\ Then(s, ForBody(Top.increment))
  BY DEF ForStep, At
<1>2. Fine(parser) /\ text \in Texts /\ Top \in Calls
  BY <1>1, TopIs
<1>3. /\ Holds(Top) = {Top.exit, j} \ {-1} /\ Top.exit \in Nat \cup {-1} /\ j \in Nat
      /\ Top.start \in Nat /\ Top.increment \in Nat
  BY <1>1, <1>2, HoldsStep
<1>4. /\ "POP" \in Emitted /\ "POP" \in OneByteOps /\ Top.at \notin InFunction
      /\ Top.at \in {"for_increment", "for_step"}
  BY <1>1 DEF Emitted, InFunction, OneByteOps
<1>5. Mild(parser, p) /\ Fine(p) /\ Same(parser, p, {})
  BY <1>2, <1>4, EmitOpMild, HelpersKeep DEF Mild, Tame
<1>01. p = EmitOp(parser, "POP")
  OBVIOUS
<1>02. q = Consume(p, "R_PAREN")
  OBVIOUS
<1>03. l = EmitLoop(q, Top.start) /\ s = PatchJump(l, j)
  OBVIOUS
<1>. HIDE DEF p, q, l, s
<1>6. Mild(p, q) /\ Fine(q) /\ Same(parser, q, {}) /\ q.fns = p.fns
  BY <1>02, <1>2, <1>5, ReadMild, ReadIs, Further
<1>7. Mild(q, l) /\ Fine(l) /\ Same(parser, l, {})
  BY <1>03, <1>2, <1>3, <1>6, EmitLoopMild, Further DEF Mild, Tame
<1>8. Open(Fn(l), j)
  <2>1. j \in Holds(Top)
    BY <1>3
  <2>2. Open(Fn(parser), j)
    BY <1>1, <1>4, <2>1, TopIs
  <2>. QED
    BY <1>2, <1>7, <2>2, OpenStays
<1>9. Mild(l, s)
  BY <1>03, <1>2, <1>7, <1>8, PatchMild
<1>10. Mild(parser, q) /\ Mild(parser, l) /\ Mild(parser, s)
  BY <1>5, <1>6, <1>7, <1>9, MildTrans
<1>11. /\ Top.at \notin ExprCalls \cup {"var_defined"} /\ Top.at \notin Flexible
  BY <1>1 DEF ExprCalls, Immediate, PrefixCalls, Takers, Flexible, Bases, InFunction
<1>12. ASSUME Live(s) PROVE TypedBy(Fn(s), ForBody(Top.increment) \o Tail(todo))
  <2>0. Live(l) /\ ~ l.error /\ ~ s.error
    BY <1>9, <1>12, LiveBefore DEF Live
  <2>1. PICK H, O, e, r, n : Opened(H, O, e, r, n)
    BY <1>1, <1>10, <1>11, <1>12, Opens
  <2>2. /\ Begun(H, O, e, r) /\ n = Len(Fn(parser).locals) /\ n \in Nat /\ n >= 1 /\ e = r[1].in
        /\ O \subseteq Int /\ Now(H, parser, H, O, e) /\ e \in Nat
    BY <1>11, <2>1 DEF Opened
  <2>3. e = n + 1 /\ e - 1 = n
    BY <1>1, <2>1, <2>2 DEF FitsStatement, Opened
  <2>4. /\ Top.start <= Len(Fn(parser).code) /\ <<Top.start, n>> \in H
        /\ Top.increment <= Len(Fn(parser).code) /\ <<Top.increment, n>> \in H
        /\ Hole(Fn(parser), H, j, n)
        /\ Top.exit # -1 => Hole(Fn(parser), H, Top.exit, e)
    BY <1>1, <2>1, <2>2, <2>3 DEF FitsMarks, Opened
  <2>5. OneSuits(Fn(parser), "POP", e, n) /\ n # 0
    BY <2>2, <2>3 DEF OneSuits
  <2>6. PICK K : Now(H, p, K, O, n) /\ Goes(parser, H, p, K)
    BY <1>01, <1>4, <2>2, <2>5, NowOp
  <2>7. Now(H, q, K, O, n) /\ Fn(q) = Fn(p)
    BY <1>6, <2>6, NowReads
  <2>8. Top.start <= Len(Fn(p).code) /\ <<Top.start, n>> \in K
    BY <1>3, <2>4, <2>6, MarkStays
  <2>9. Top.increment <= Len(Fn(p).code) /\ <<Top.increment, n>> \in K
    BY <1>3, <2>4, <2>6, MarkStays
  <2>10. j \in Int /\ Top.exit \in Int
    BY <1>3
  <2>11. Hole(Fn(p), K, j, n)
    BY <2>4, <2>6, <2>10, GoesHole
  <2>12. Top.exit # -1 => Hole(Fn(p), K, Top.exit, e)
    BY <2>4, <2>6, <2>10, GoesHole
  <2>13. Top.start <= Count(q)
    BY <2>7, <2>8 DEF Count
  <2>14. PICK L : Now(H, l, L, O, n) /\ Goes(q, K, l, L)
    BY <1>03, <1>3, <2>0, <2>2, <2>5, <2>7, <2>8, <2>13, NowLoop
  <2>15. Hole(Fn(l), L, j, n)
    BY <2>7, <2>10, <2>11, <2>14, GoesHole
  <2>16. Top.exit # -1 => Hole(Fn(l), L, Top.exit, e)
    BY <2>7, <2>10, <2>12, <2>14, GoesHole
  <2>17. Top.increment <= Len(Fn(l).code) /\ <<Top.increment, n>> \in L
    BY <1>3, <2>7, <2>9, <2>14, MarkStays
  <2>. DEFINE R == O \ {j - 1}
  <2>18. R = O \ {j - 1}
    OBVIOUS
  <2>. HIDE DEF R
  <2>19. Now(H, s, L, R, n) /\ Goes(l, L, s, L)
    BY <1>03, <1>8, <2>0, <2>14, <2>15, <2>18, NowPatch
  <2>20. Top.exit # -1 => Hole(Fn(s), L, Top.exit, e)
    BY <2>10, <2>16, <2>19, GoesHole
  <2>21. Top.increment <= Len(Fn(s).code) /\ <<Top.increment, n>> \in L
    BY <1>3, <2>17, <2>19, MarkStays
  <2>22. BodyMarks(s, L, n, Top.increment)
    BY <1>3, <2>3, <2>20, <2>21 DEF BodyMarks
  <2>23. Holds(Top) \subseteq {j} \cup ({Top.exit} \ {-1})
    BY <1>3
  <2>24. Held(R, O, {Top.exit} \ {-1})
    BY <2>2, <2>10, <2>18, <2>23, HeldLess
  <2>. QED
    BY <1>1, <1>4, <2>1, <2>19, <2>22, <2>24, NowBody
<1>. QED
  BY <1>1, <1>10, <1>12, BalanceNext

(* A local that may be read has a value: its slot is among those there.    *)
LEMMA ResolvedSlot ==
  ASSUME CompilerInv, todo # << >>, NEW name, Named(parser, name) # {},
         NEW i, i = Resolve(parser, name), Locals(parser)[i].depth # -1,
         NEW H, NEW O, NEW e, NEW r, Begun(H, O, e, r)
  PROVE  /\ (i - 1) % (ByteMax + 1) \in Nat
         /\ (i - 1) % (ByteMax + 1) < Slots(Fn(parser))
<1>. DEFINE f == Fn(parser)  L == Locals(parser)
<1>1. /\ Fine(parser) /\ ScopesOK(f) /\ Len(f.locals) \in Nat /\ Slots(f) \in Nat
      /\ 1 <= Slots(f) /\ Slots(f) <= Len(f.locals)
  BY TopIs, BegunSlots
<1>2. ByteMax \in Nat /\ Len(f.locals) <= ByteMax + 1
  BY <1>1, ByteAssumption DEF ScopesOK, SlotsMax
<1>3. L = f.locals \/ (Len(L) = 1 /\ L = <<Local(None, 0)>>)
  BY DEF Locals
<1>4. Len(L) \in Nat /\ DOMAIN L = 1 .. Len(L) /\ Len(L) <= Len(f.locals)
  <2>1. f.locals \in Seq(LocalSet)
    BY <1>1, FineParts
  <2>2. DOMAIN f.locals = 1 .. Len(f.locals)
    BY <2>1
  <2>3. CASE L = f.locals
    BY <1>1, <2>2, <2>3
  <2>4. CASE Len(L) = 1 /\ L = <<Local(None, 0)>>
    <3>1. DOMAIN L = 1 .. 1
      BY <2>4
    <3>. HIDE DEF L, f
    <3>. QED
      BY <1>1, <2>4, <3>1
  <2>. QED
    BY <1>3, <2>3, <2>4
<1>5. i \in 1 .. Len(L)
  <2>1. Named(parser, name) \in SUBSET (0 .. Len(L))
    BY <1>4 DEF Named
  <2>2. \E k \in Named(parser, name) : \A j \in Named(parser, name) : j <= k
    BY <1>4, <2>1, GreatestOf
  <2>3. i \in Named(parser, name)
    BY <2>2 DEF Resolve
  <2>. QED
    BY <1>4, <2>3 DEF Named
<1>6. i \in Nat /\ i >= 1 /\ i <= Slots(f)
  <2>1. i \in Nat /\ i >= 1 /\ i <= Len(L)
    BY <1>4, <1>5
  <2>2. CASE L = f.locals
    <3>1. i = Len(f.locals) => f.locals[Len(f.locals)].depth # -1
      BY <2>2
    <3>. QED
      BY <1>1, <2>1, <2>2, <3>1 DEF Slots
  <2>3. CASE Len(L) = 1
    BY <1>1, <2>1, <2>3
  <2>. QED
    BY <1>3, <2>2, <2>3
<1>. HIDE DEF f, L
<1>7. \A n \in Nat, m \in Nat : n < m + 1 => n % (m + 1) = n
  OBVIOUS
<1>. DEFINE n == i - 1
<1>8. n \in Nat /\ n < ByteMax + 1 /\ n < Slots(f)
  BY <1>1, <1>2, <1>6
<1>9. n % (ByteMax + 1) = n
  BY <1>2, <1>7, <1>8
<1>. QED
  BY <1>8, <1>9 DEF f

(* A name, local or global, is read or assigned (variable).                *)
Usable(f, local, arg) ==
  arg \in Nat /\ IF local THEN arg < Slots(f) ELSE IsName(f, arg)

(* It is read.                                                             *)
LEMMA NameReads ==
  ASSUME CompilerInv, TextInv, todo # << >>, NEW H, NEW O, NEW e, NEW r, Begun(H, O, e, r),
         Top.at = "variable", NEW q, Now(H, q, H, O, e), NEW local \in BOOLEAN,
         NEW arg \in Bytes, Usable(Fn(q), local, arg),
         NEW op, op = IF local THEN "GET_LOCAL" ELSE "GET_GLOBAL",
         NEW s, s = Emit(q, WithOne(op, arg))
  PROVE  TypedBy(Fn(s), << >> \o Tail(todo))
<1>1. Top.at \in ExprCalls /\ Top.at # "finish" /\ Top.at \in PrefixCalls
  BY DEF ExprCalls, Immediate, PrefixCalls
<1>2. e \in Nat /\ r[1].out = e + 1 /\ e >= Slots(Fn(parser)) /\ Slots(Fn(parser)) \in Nat
  BY <1>1, ExprTop, BegunFits, BegunSlots DEF FitsExpression
<1>3. Slots(Fn(q)) = Slots(Fn(parser))
  BY NowIs
<1>4. op \in TwoByteOps
  BY DEF TwoByteOps
<1>5. TwoSuits(Fn(q), op, arg, e, r[1].out)
  <2>1. local => arg < e
    BY <1>2, <1>3 DEF Usable
  <2>. QED
    BY <1>2, <2>1 DEF TwoSuits, Usable
<1>6. r[1].out \in Nat /\ r[1].out # 0
  BY <1>2
<1>7. PICK K : Now(H, s, K, O, r[1].out)
  BY <1>4, <1>5, <1>6, NowOperand
<1>. QED
  BY <1>1, <1>7, ExprZero

(* It is assigned, once the expression is there.                           *)
LEMMA NameSets ==
  ASSUME CompilerInv, TextInv, todo # << >>, NEW H, NEW O, NEW e, NEW r, Begun(H, O, e, r),
         Top.at = "variable", NEW q, Now(H, q, H, O, e), NEW local \in BOOLEAN,
         NEW arg \in Bytes, Usable(Fn(q), local, arg),
         NEW op, op = IF local THEN "SET_LOCAL" ELSE "SET_GLOBAL",
         NEW a \in Calls, a = Finish(None, <<Opcode[op], arg>>)
  PROVE  TypedBy(Fn(q), <<Expression, a>> \o Tail(todo))
<1>1. Top.at \in ExprCalls /\ Top.at # "finish" /\ Top.at \in PrefixCalls
  BY DEF ExprCalls, Immediate, PrefixCalls
<1>2. /\ e \in Nat /\ r[1].out = e + 1 /\ e >= Slots(Fn(parser)) /\ Slots(Fn(parser)) \in Nat
  BY <1>1, ExprTop, BegunFits, BegunSlots DEF FitsExpression
<1>3. Slots(Fn(q)) = Slots(Fn(parser))
  BY NowIs
<1>4. /\ a.at = "finish" /\ a.token = None /\ a.token # "SEMICOLON" /\ a.at \in ExprCalls
      /\ a.code = <<Opcode[op], arg>>
  BY DEF Finish, None, ExprCalls
<1>. DEFINE v == e + 1
<1>5. v = e + 1 /\ v \in Nat /\ r[1].out = v /\ v > Slots(Fn(q))
  BY <1>2, <1>3
<1>. HIDE DEF v
<1>6. FitsFinish(Fn(q), a, v, r[1].out)
  <2>1. CASE local
    <3>1. arg \in Nat /\ arg < Slots(Fn(q)) /\ a.code = <<Opcode["SET_LOCAL"], arg>>
      BY <1>4, <2>1 DEF Usable
    <3>. QED
      BY <1>4, <1>5, <3>1 DEF FitsFinish
  <2>2. CASE ~ local
    <3>1. arg \in Nat /\ IsName(Fn(q), arg) /\ a.code = <<Opcode["SET_GLOBAL"], arg>>
      BY <1>4, <2>2 DEF Usable
    <3>. QED
      BY <1>4, <1>5, <3>1 DEF FitsFinish
  <2>. QED
    BY <2>1, <2>2
<1>7. Fits(Fn(q), H, Rec(a, v, r[1].out, r[1].depth))
  BY <1>4, <1>6, FitsFinishes
<1>8. PREC_ASSIGN \in Nat /\ e >= Slots(Fn(parser))
  BY <1>2 DEF PREC_ASSIGN
<1>. QED
  BY <1>1, <1>4, <1>5, <1>7, <1>8, ExprThen DEF Expression

(* variable reads or assigns a local that has a slot, or a global.         *)
LEMMA VariableBalances ==
  ASSUME CompilerInv, TextInv, BalanceInv, Variable
  PROVE  BalanceInv'
<1>. DEFINE name == parser.previous.text
            local == Named(parser, name) # {}
            i == Resolve(parser, name)
            arg == IF local THEN (i - 1) % (ByteMax + 1) ELSE ConstantId(parser)
            set == IF local THEN "SET_LOCAL" ELSE "SET_GLOBAL"
            get == IF local THEN "GET_LOCAL" ELSE "GET_GLOBAL"
<1>1. /\ todo # << >> /\ Top.at = "variable" /\ Fine(parser) /\ text \in Texts
  BY TopIs DEF Variable, At
<1>2. PICK q : /\ q = CASE ~local -> AddConstant(parser, Str(name))
                        [] local /\ Locals(parser)[i].depth = -1 -> ErrorAt(parser)
                        [] OTHER -> parser
               /\ \/ Then(Advance(q), <<Expression, Finish(None, <<Opcode[set], arg>>)>>)
                  \/ Return(Emit(q, <<Opcode[get], arg>>))
  BY DEF Variable
<1>3. arg \in Bytes
  BY <1>1, ResolveIsSlot, HelpersKeep
<1>4. set \in Emitted /\ get \in Emitted
  BY DEF Emitted
<1>5. <<Opcode[set], arg>> \in Seq(Bytes) /\ <<Opcode[get], arg>> \in Seq(Bytes)
  <2>. HIDE DEF arg, set, get
  <2>. QED
    BY <1>3, <1>4, CodesAre
<1>6. ~ IsFunc(Str(name)) /\ Str(name).type = "STR" /\ ~ IsWild(Str(name))
  BY DEF IsFunc, IsWild, Str
<1>7. \/ ~ local /\ q = AddConstant(parser, Str(name))
      \/ local /\ q = ErrorAt(parser)
      \/ local /\ q = parser /\ Locals(parser)[i].depth # -1
  BY <1>2
<1>8. Mild(parser, q)
  BY <1>1, <1>6, <1>7, AddConstantMild, ReadMild
<1>9. Fine(q)
  BY <1>8 DEF Mild, Tame
<1>10. ASSUME Live(q), NEW H, NEW O, NEW e, NEW r, Begun(H, O, e, r)
       PROVE  Now(H, q, H, O, e) /\ Usable(Fn(q), local, arg)
  <2>1. Now(H, parser, H, O, e)
    BY <1>1, <1>10, NowBegins
  <2>2. CASE ~ local /\ q = AddConstant(parser, Str(name))
    <3>1. Now(H, q, H, O, e) /\ (~ q.error => /\ HasConstant(Fn(q), ConstantId(parser))
                                             /\ ConstantAt(Fn(q), ConstantId(parser)) = Str(name))
      BY <1>6, <2>1, <2>2, NowConstant
    <3>2. arg = ConstantId(parser) /\ ~ q.error /\ arg \in Nat
      BY <1>3, <1>10, <2>2 DEF Live, Bytes
    <3>. HIDE DEF arg, local, name
    <3>. QED
      BY <1>6, <2>2, <3>1, <3>2 DEF Usable, IsName
  <2>3. CASE local /\ q = ErrorAt(parser)
    BY <1>1, <1>10, <2>3, ErrorsStay DEF Live
  <2>4. CASE local /\ q = parser /\ Locals(parser)[i].depth # -1
    <3>1. (i - 1) % (ByteMax + 1) \in Nat /\ (i - 1) % (ByteMax + 1) < Slots(Fn(parser))
      BY <1>1, <1>10, <2>4, ResolvedSlot
    <3>2. arg = (i - 1) % (ByteMax + 1)
      BY <2>4
    <3>. HIDE DEF arg, local, name, i
    <3>. QED
      BY <2>1, <2>4, <3>1, <3>2 DEF Usable
  <2>. QED
    BY <1>7, <2>2, <2>3, <2>4
<1>. DEFINE a == Finish(None, <<Opcode[set], arg>>)  t == Advance(q)
            s == Emit(q, <<Opcode[get], arg>>)
<1>11. Mild(q, t) /\ t.fns = q.fns /\ Mild(q, s) /\ Mild(parser, t) /\ Mild(parser, s)
  BY <1>1, <1>5, <1>8, <1>9, ReadMild, ReadIs, EmitMild, MildTrans
<1>12. a \in Calls
  BY <1>5, CallForms
<1>13. /\ set = (IF local THEN "SET_LOCAL" ELSE "SET_GLOBAL")
       /\ get = (IF local THEN "GET_LOCAL" ELSE "GET_GLOBAL")
       /\ a = Finish(None, <<Opcode[set], arg>>) /\ s = Emit(q, WithOne(get, arg))
       /\ local \in BOOLEAN
  BY DEF WithOne
<1>14. Then(t, <<Expression, a>>) \/ Then(s, << >>)
  BY <1>2 DEF Return
<1>. HIDE DEF name, i, local, arg, set, get, a, s, t
<1>15. CASE Then(s, << >>)
  <2>1. ASSUME Live(s) PROVE TypedBy(Fn(s), << >> \o Tail(todo))
    <3>1. Live(q)
      BY <1>11, <2>1, LiveBefore
    <3>2. PICK H, O, e, r : Begun(H, O, e, r)
      BY <1>1, <1>8, <3>1, Begins
    <3>3. Now(H, q, H, O, e) /\ Usable(Fn(q), local, arg)
      BY <1>10, <3>1, <3>2
    <3>. QED
      BY <1>1, <1>3, <1>13, <3>2, <3>3, NameReads
  <2>. QED
    BY <1>1, <1>11, <1>15, <2>1, BalanceNext
<1>16. CASE Then(t, <<Expression, a>>)
  <2>1. ASSUME Live(t) PROVE TypedBy(Fn(t), <<Expression, a>> \o Tail(todo))
    <3>1. Live(q)
      BY <1>11, <2>1, LiveBefore
    <3>2. PICK H, O, e, r : Begun(H, O, e, r)
      BY <1>1, <1>8, <3>1, Begins
    <3>3. Now(H, q, H, O, e) /\ Usable(Fn(q), local, arg)
      BY <1>10, <3>1, <3>2
    <3>4. Now(H, t, H, O, e) /\ Fn(t) = Fn(q)
      BY <1>11, <3>3, NowReads
    <3>. QED
      BY <1>1, <1>3, <1>12, <1>13, <3>2, <3>3, <3>4, NameSets
  <2>. QED
    BY <1>1, <1>11, <1>16, <2>1, BalanceNext
<1>. QED
  BY <1>1, <1>14, <1>15, <1>16

(* Only the scopes of the function being compiled change.                  *)
SameCode(f, g) ==
  /\ Typed(f) /\ Typed(g) /\ g.code = f.code /\ g.consts = f.consts
  /\ g.type = f.type /\ g.arity = f.arity

(* q is p in other scopes.                                                 *)
Shifts(p, q) == Mild(p, q) /\ Fine(q) /\ SameCode(Fn(p), Fn(q)) /\ q.error = p.error

(* The certificate is of the code alone.                                   *)
LEMMA SameCodeGoes ==
  ASSUME NEW f, NEW g, SameCode(f, g), NEW H, NEW O, NEW e, Cert(f, H, O, e)
  PROVE  Onto(f, H, g, H) /\ Cert(g, H, O, e)
<1>1. Extends(f, g)
  BY DEF SameCode, Typed, Extends
<1>2. \A k : ByteAt(g, k) = ByteAt(f, k)
  BY DEF SameCode, ByteAt
<1>3. Cert(g, H, O, e)
  BY <1>1, CertMore DEF SameCode
<1>. QED
  BY <1>1, <1>2, <1>3 DEF Onto, SameCode

(* f with other scopes.                                                    *)
Rescope(f, d, l) == [f EXCEPT !.depth = d, !.locals = l]

(* Other scopes, and nothing else.                                         *)
LEMMA ScopesWith ==
  ASSUME NEW p, Fine(p), NEW d \in Nat, NEW l \in Seq(LocalSet),
         NEW q, q = WithFn(p, Rescope(Fn(p), d, l))
  PROVE  Shifts(p, q) /\ Fn(q).depth = d /\ Fn(q).locals = l
<1>1. PICK S : Sound(p, S)
  BY DEF Fine
<1>. DEFINE f == Rescope(Fn(p), d, l)
<1>2. Fn(p) \in FnSet(S) /\ Typed(Fn(p)) /\ q = WithFn(p, f)
  BY <1>1, FnParts
<1>3. f \in FnSet(S) /\ f.depth = d /\ f.locals = l /\ f.code = Fn(p).code
      /\ f.consts = Fn(p).consts /\ f.type = Fn(p).type /\ f.arity = Fn(p).arity
  BY <1>2 DEF FnSet, Rescope
<1>. HIDE DEF f
<1>5. Functions(f.consts) = Functions(Fn(p).consts)
  BY <1>3
<1>6. Mild(p, q) /\ Fn(q) = f /\ q.error = p.error
  BY <1>1, <1>2, <1>3, <1>5, MildWith, TameWith
<1>7. Typed(f)
  BY <1>2, <1>3 DEF Typed
<1>8. Fine(q)
  BY <1>6 DEF Mild, Tame
<1>. QED
  BY <1>2, <1>3, <1>6, <1>7, <1>8 DEF Shifts, SameCode

(* The parser between two helpers, of an action that changes the scopes:   *)
(* those outside depth d are as they were.                                 *)
Moved(d, H, q, K, Q, x) ==
  /\ Fine(q) /\ text \in Texts /\ x \in Nat /\ x # 0 /\ Mild(parser, q)
  /\ Typed(Fn(parser)) /\ Typed(Fn(q)) /\ Onto(Fn(parser), H, Fn(q), K) /\ Cert(Fn(q), K, Q, x)
  /\ \A s \in H : s[1] \in Int
  /\ LocalsTo(Fn(q), 1, 0)
  /\ \A n, y \in Nat : LocalsTo(Fn(parser), n, y) /\ y < d => LocalsTo(Fn(q), n, y)

(* So the action begins.                                                   *)
LEMMA MovedNow ==
  ASSUME NEW H, NEW q, NEW K, NEW Q, NEW x, Now(H, q, K, Q, x), LocalsTo(Fn(parser), 1, 0), NEW d
  PROVE  Moved(d, H, q, K, Q, x)
<1>1. /\ Fine(q) /\ text \in Texts /\ Mild(parser, q) /\ x \in Nat /\ x # 0
      /\ Cert(Fn(q), K, Q, x) /\ Onto(Fn(parser), H, Fn(q), K) /\ Typed(Fn(q))
      /\ Fn(q).locals = Fn(parser).locals
  BY NowIs
<1>2. Typed(Fn(parser)) /\ \A s \in H : s[1] \in Int
  BY DEF Now, Goes
<1>3. \A n, y : LocalsTo(Fn(parser), n, y) => LocalsTo(Fn(q), n, y)
  BY <1>1 DEF LocalsTo
<1>. QED
  BY <1>1, <1>2, <1>3 DEF Moved

(* One helper more that leaves the scopes alone.                           *)
LEMMA MovedGoes ==
  ASSUME NEW d, NEW H, NEW p, NEW K, NEW Q, NEW x, Moved(d, H, p, K, Q, x),
         NEW q, NEW L, Goes(p, K, q, L), NEW R, NEW y \in Nat, y # 0, Cert(Fn(q), L, R, y)
  PROVE  Moved(d, H, q, L, R, y) /\ Fn(q).locals = Fn(p).locals /\ Fn(q).depth = Fn(p).depth
<1>1. /\ Mild(p, q) /\ Typed(Fn(q)) /\ Onto(Fn(p), K, Fn(q), L)
      /\ Fn(q).locals = Fn(p).locals /\ Fn(q).depth = Fn(p).depth
  BY DEF Goes, Level
<1>2. Fine(q) /\ Mild(parser, q)
  BY <1>1, MildTrans DEF Moved, Mild, Tame
<1>3. Onto(Fn(parser), H, Fn(q), L)
  BY <1>1, OntoTrans DEF Moved
<1>4. \A n, z : LocalsTo(Fn(p), n, z) => LocalsTo(Fn(q), n, z)
  BY <1>1 DEF LocalsTo
<1>. QED
  BY <1>1, <1>2, <1>3, <1>4 DEF Moved

(* One helper more that leaves the code alone.                             *)
LEMMA MovedShifts ==
  ASSUME NEW d, NEW H, NEW p, NEW K, NEW Q, NEW x, Moved(d, H, p, K, Q, x),
         NEW q, Shifts(p, q), LocalsTo(Fn(q), 1, 0),
         \A n, y \in Nat : LocalsTo(Fn(p), n, y) /\ y < d => LocalsTo(Fn(q), n, y)
  PROVE  Moved(d, H, q, K, Q, x)
<1>1. Mild(p, q) /\ Fine(q) /\ SameCode(Fn(p), Fn(q)) /\ Typed(Fn(q))
  BY DEF Shifts, SameCode
<1>2. Onto(Fn(p), K, Fn(q), K) /\ Cert(Fn(q), K, Q, x)
  BY <1>1, SameCodeGoes DEF Moved
<1>3. Mild(parser, q)
  BY <1>1, MildTrans DEF Moved
<1>4. Onto(Fn(parser), H, Fn(q), K)
  BY <1>1, <1>2, OntoTrans DEF Moved
<1>. QED
  BY <1>1, <1>2, <1>3, <1>4 DEF Moved

(* The calls below are in the scopes outside, and fit.                     *)
LEMMA MovedGoing ==
  ASSUME CompilerInv, TextInv, todo # << >>, Top.at \notin ExprCalls,
         NEW H, NEW O, NEW e, NEW r, Begun(H, O, e, r),
         NEW q, NEW K, NEW Q, NEW x, Moved(r[1].depth, H, q, K, Q, x)
  PROVE  Going(Fn(parser), H, O, e, r, Fn(q), K, Q, x)
<1>1. Typing(Fn(parser), H, O, e, r) /\ Matches(r, todo) /\ todo \in Seq(Calls)
  BY DEF Begun, CompilerInv, TodoOK
<1>2. Typed(Fn(q)) /\ Onto(Fn(parser), H, Fn(q), K) /\ Cert(Fn(q), K, Q, x) /\ LocalsTo(Fn(q), 1, 0)
  BY DEF Moved
<1>3. \A n, y \in Nat : (LocalsTo(Fn(parser), n, y) /\ y < r[1].depth) => LocalsTo(Fn(q), n, y)
  BY DEF Moved
<1>4. Rest(Fn(q), K, r)
  BY <1>1, <1>2, <1>3, RestScoped
<1>. QED
  BY <1>1, <1>2, <1>4 DEF Going
-----------------------------------------------------------------------------
(* A scope begins.                                                         *)
LEMMA BeginScopeIs ==
  ASSUME NEW p, Fine(p), NEW q, q = BeginScope(p)
  PROVE  /\ Shifts(p, q) /\ Fn(q).locals = Fn(p).locals /\ Fn(q).depth = Fn(p).depth + 1
<1>1. PICK S : Sound(p, S)
  BY DEF Fine
<1>. DEFINE d == Fn(p).depth + 1  l == Fn(p).locals
<1>2. Fn(p) \in FnSet(S) /\ l \in Seq(LocalSet) /\ d \in Nat
  BY <1>1, FnParts
<1>3. Rescope(Fn(p), d, l) = [Fn(p) EXCEPT !.depth = @ + 1]
  BY <1>2 DEF Rescope, FnSet
<1>4. q = WithFn(p, Rescope(Fn(p), d, l))
  BY <1>3 DEF BeginScope
<1>. HIDE DEF d, l
<1>5. Shifts(p, q) /\ Fn(q).depth = d /\ Fn(q).locals = l
  BY <1>2, <1>3, <1>4, ScopesWith
<1>. QED
  BY <1>5 DEF d, l

(* So the action goes on, one deeper.                                      *)
LEMMA MovedBegins ==
  ASSUME NEW d, NEW H, NEW p, NEW K, NEW Q, NEW x, Moved(d, H, p, K, Q, x),
         NEW q, q = BeginScope(p)
  PROVE  /\ Moved(d, H, q, K, Q, x) /\ Fn(q).locals = Fn(p).locals
         /\ Fn(q).depth = Fn(p).depth + 1
<1>1. Shifts(p, q) /\ Fn(q).locals = Fn(p).locals /\ Fn(q).depth = Fn(p).depth + 1
  BY BeginScopeIs DEF Moved
<1>2. \A n, y : LocalsTo(Fn(p), n, y) => LocalsTo(Fn(q), n, y)
  BY <1>1 DEF LocalsTo
<1>3. LocalsTo(Fn(q), 1, 0)
  BY <1>2 DEF Moved
<1>. QED
  BY <1>1, <1>2, <1>3, MovedShifts

(* The call on top goes on, with the scopes changed.                       *)
LEMMA MovedOne ==
  ASSUME CompilerInv, TextInv, todo # << >>, Top.at \notin ExprCalls,
         NEW H, NEW O, NEW e, NEW r, Begun(H, O, e, r),
         NEW q, NEW K, NEW Q, NEW x, Moved(r[1].depth, H, q, K, Q, x),
         NEW c \in Calls, NEW u \in Nat, Fits(Fn(q), K, Rec(c, u, r[1].out, r[1].depth)),
         OnTop(c, u, x, Len(Fn(q).locals)), Fn(q).depth = r[1].depth + Sc(c),
         c.at \in Bases <=> Top.at \in Bases, Held(Q, O, Holds(c))
  PROVE  TypedBy(Fn(q), <<c>> \o Tail(todo))
<1>. DEFINE s == Rec(c, u, r[1].out, r[1].depth)
<1>1. Going(Fn(parser), H, O, e, r, Fn(q), K, Q, x)
  BY MovedGoing
<1>2. s.call = c /\ s.in = u /\ s.out = r[1].out /\ s.depth = r[1].depth
  BY DEF Rec
<1>3. s = Rec(c, u, r[1].out, r[1].depth) /\ Fits(Fn(q), K, s)
  OBVIOUS
<1>. HIDE DEF s
<1>4. TopOK(Fn(q), x, s)
  BY <1>2 DEF TopOK, OnTop
<1>. QED
  BY <1>1, <1>3, <1>4, TypedOne

(* It makes a call, and goes on as another.                                *)
LEMMA MovedTwo ==
  ASSUME CompilerInv, TextInv, todo # << >>, Top.at \notin ExprCalls,
         NEW H, NEW O, NEW e, NEW r, Begun(H, O, e, r),
         NEW q, NEW K, NEW Q, NEW x, Moved(r[1].depth, H, q, K, Q, x),
         NEW c \in Calls, NEW u \in Nat, NEW w \in Nat, NEW a \in Calls, NEW v \in Nat,
         Fits(Fn(q), K, Rec(a, v, r[1].out, r[1].depth)),
         Fits(Fn(q), K, Rec(c, u, w, r[1].depth + Sc(a))),
         OnTop(c, u, x, Len(Fn(q).locals)), a.at \notin Flexible => w = v,
         c.at \notin Bases, Fn(q).depth = r[1].depth + Sc(a) + Sc(c),
         a.at \in Bases <=> Top.at \in Bases, Held(Q, O, Holds(a) \cup Holds(c))
  PROVE  TypedBy(Fn(q), <<c, a>> \o Tail(todo))
<1>. DEFINE s == Rec(a, v, r[1].out, r[1].depth)  p == Rec(c, u, w, r[1].depth + Sc(a))
<1>1. Going(Fn(parser), H, O, e, r, Fn(q), K, Q, x)
  BY MovedGoing
<1>2. p.call = c /\ p.in = u /\ p.depth = r[1].depth + Sc(a)
  BY DEF Rec
<1>3. /\ s = Rec(a, v, r[1].out, r[1].depth) /\ Fits(Fn(q), K, s)
      /\ p = Rec(c, u, w, r[1].depth + Sc(a)) /\ Fits(Fn(q), K, p)
  OBVIOUS
<1>. HIDE DEF s, p
<1>4. TopOK(Fn(q), x, p)
  BY <1>2 DEF TopOK, OnTop
<1>. QED
  BY <1>1, <1>3, <1>4, TypedTwo

(* It returns.                                                             *)
LEMMA MovedZero ==
  ASSUME CompilerInv, TextInv, todo # << >>, Top.at \notin ExprCalls,
         NEW H, NEW O, NEW e, NEW r, Begun(H, O, e, r),
         NEW q, NEW K, NEW Q, NEW x, Moved(r[1].depth, H, q, K, Q, x),
         Top.at \notin Bases, Top.at \in Bodied => x = r[1].out,
         x = Len(Fn(q).locals), Fn(q).depth = r[1].depth, Held(Q, O, {})
  PROVE  TypedBy(Fn(q), << >> \o Tail(todo))
<1>1. Going(Fn(parser), H, O, e, r, Fn(q), K, Q, x)
  BY MovedGoing
<1>2. Gives(Top) \/ Top.at \in Bodied => x = r[1].out
  BY DEF Gives
<1>3. TypedBy(Fn(q), Tail(todo))
  BY <1>1, <1>2, TypedZero
<1>4. << >> \o Tail(todo) = Tail(todo)
  <2>1. Tail(todo) \in Seq(Calls)
    BY HeadTailProperties DEF CompilerInv, TodoOK
  <2>. QED
    BY <2>1, ConcatEmptySeq
<1>. QED
  BY <1>3, <1>4
-----------------------------------------------------------------------------
(* A scope ends: the locals kept are those its call knows.                 *)
Pops(k) == [i \in 1 .. k |-> Opcode["POP"]]

KeptSlots(p) ==
  CHOOSE n \in DOMAIN Fn(p).locals :
    /\ Fn(p).locals[n].depth <= Fn(p).depth - 1
    /\ \A i \in n + 1 .. Len(Fn(p).locals) : Fn(p).locals[i].depth > Fn(p).depth - 1

(* They are those to the depth outside, of which there is one number.      *)
LEMMA KeptIs ==
  ASSUME NEW p, Fine(p), NEW w, NEW d \in Nat, LocalsTo(Fn(p), w, d), Settled(Fn(p)),
         Fn(p).depth = d + 1
  PROVE  /\ w \in Nat /\ w >= 1 /\ w <= Len(Fn(p).locals) /\ Len(Fn(p).locals) \in Nat
         /\ w = KeptSlots(p)
<1>. DEFINE l == Fn(p).locals  N == Len(l)
            Last(n) == l[n].depth <= d /\ \A i \in n + 1 .. N : l[i].depth > d
<1>1. l \in Seq(LocalSet) /\ \A i \in 1 .. N : l[i].depth \in Int
  BY LocalsTyped
<1>2. N \in Nat /\ DOMAIN l = 1 .. N
  BY <1>1
<1>3. Fn(p).depth - 1 = d
  OBVIOUS
<1>4. /\ w \in 1 .. N /\ \A i \in 1 .. w : l[i].depth \in 0 .. d
      /\ \A i \in w + 1 .. N : l[i].depth = -1 \/ l[i].depth > d
      /\ \A i \in 1 .. N : l[i].depth # -1
  BY DEF LocalsTo, Settled
<1>. HIDE DEF l, N
<1>5. w \in Nat /\ w >= 1 /\ w <= N
  BY <1>2, <1>4
<1>6. Last(w)
  <2>1. l[w].depth \in 0 .. d
    BY <1>4, <1>5
  <2>2. \A i \in w + 1 .. N : i \in 1 .. N
    BY <1>2, <1>5
  <2>. QED
    BY <1>4, <2>1, <2>2
<1>7. ASSUME NEW n \in 1 .. N, Last(n)
      PROVE  n = w
  <2>1. n \in Nat
    BY <1>2
  <2>2. CASE n < w
    <3>1. w \in n + 1 .. N
      BY <1>2, <1>5, <2>1, <2>2
    <3>2. l[w].depth > d /\ l[w].depth <= d /\ l[w].depth \in Int
      BY <1>1, <1>4, <1>6, <1>7, <3>1 DEF l, N
    <3>. QED
      BY <3>2
  <2>3. CASE n > w
    <3>1. n \in w + 1 .. N
      BY <1>2, <1>5, <2>1, <2>3
    <3>2. l[n].depth > d /\ l[n].depth <= d /\ l[n].depth \in Int
      BY <1>1, <1>6, <1>7, <3>1 DEF l, N
    <3>. QED
      BY <3>2
  <2>. QED
    BY <1>5, <2>1, <2>2, <2>3
<1>8. w = CHOOSE n \in DOMAIN l : Last(n)
  BY <1>2, <1>4, <1>6, <1>7
<1>. QED
  BY <1>2, <1>3, <1>5, <1>8 DEF l, N, KeptSlots

(* end_scope: the locals of the scope go, and as many values are popped.   *)
LEMMA EndScopeIs ==
  ASSUME NEW p, Fine(p), NEW w, NEW d \in Nat, LocalsTo(Fn(p), w, d), Settled(Fn(p)),
         Fn(p).depth = d + 1, NEW q, q = EndScope(p)
  PROVE  \E s : /\ Shifts(p, s) /\ Fn(s).locals = SubSeq(Fn(p).locals, 1, w) /\ Fn(s).depth = d
                /\ q = Emit(s, Pops(Len(Fn(p).locals) - w))
<1>. DEFINE l == SubSeq(Fn(p).locals, 1, w)  s == WithFn(p, Rescope(Fn(p), d, l))
<1>1. PICK S : Sound(p, S)
  BY DEF Fine
<1>2. Fn(p) \in FnSet(S) /\ Fn(p).locals \in Seq(LocalSet) /\ Fn(p).depth - 1 = d
  BY <1>1, FnParts
<1>3. /\ w \in Nat /\ w >= 1 /\ w <= Len(Fn(p).locals) /\ Len(Fn(p).locals) \in Nat
      /\ w = KeptSlots(p)
  BY KeptIs
<1>4. l \in Seq(LocalSet)
  <2>1. \A i \in 1 .. w : Fn(p).locals[i] \in LocalSet
    <3>1. \A i \in 1 .. w : i \in 1 .. Len(Fn(p).locals)
      BY <1>3
    <3>. QED
      BY <3>1, LocalsTyped
  <2>. QED
    BY <1>2, <1>3, <2>1, SubSeqProperties
<1>5. q = Emit(s, Pops(Len(Fn(p).locals) - w))
  <2>1. q = Emit(WithFn(p, [Fn(p) EXCEPT !.depth = d, !.locals = SubSeq(@, 1, w)]),
                 [i \in 1 .. Len(Fn(p).locals) - w |-> Opcode["POP"]])
    BY <1>2, <1>3 DEF EndScope, KeptSlots
  <2>2. [Fn(p) EXCEPT !.depth = d, !.locals = SubSeq(@, 1, w)] = Rescope(Fn(p), d, l)
    BY <1>2 DEF FnSet, Rescope
  <2>. QED
    BY <2>1, <2>2 DEF Pops
<1>6. s = WithFn(p, Rescope(Fn(p), d, l))
  OBVIOUS
<1>7. l = SubSeq(Fn(p).locals, 1, w)
  OBVIOUS
<1>. HIDE DEF s, l
<1>8. Shifts(p, s) /\ Fn(s).depth = d /\ Fn(s).locals = l
  BY <1>4, <1>6, ScopesWith
<1>. QED
  BY <1>5, <1>7, <1>8

(* So the action goes on, one less deep and as many slots lower.           *)
LEMMA MovedEnds ==
  ASSUME NEW d \in Nat, NEW H, NEW p, NEW K, NEW Q, NEW x, Moved(d, H, p, K, Q, x),
         NEW w, LocalsTo(Fn(p), w, d), Settled(Fn(p)), Fn(p).depth = d + 1,
         x = Len(Fn(p).locals), NEW q, q = EndScope(p)
  PROVE  w \in Nat /\ \E L : Moved(d, H, q, L, Q, w) /\ Len(Fn(q).locals) = w /\ Fn(q).depth = d
<1>. DEFINE l == Fn(p).locals  N == Len(l)  m == SubSeq(l, 1, w)
<1>1. Fine(p) /\ x \in Nat /\ x # 0 /\ LocalsTo(Fn(p), 1, 0)
  BY DEF Moved
<1>2. w \in Nat /\ w >= 1 /\ w <= N /\ N \in Nat
  BY <1>1, KeptIs
<1>3. PICK s : Shifts(p, s) /\ Fn(s).locals = m /\ Fn(s).depth = d /\ q = Emit(s, Pops(N - w))
  BY <1>1, EndScopeIs
<1>4. \A i \in 1 .. w : i \in 1 .. N
  BY <1>2
<1>5. Len(m) = w /\ \A i \in 1 .. w : m[i] = l[i]
  <2>1. \A i \in 1 .. w : l[i] \in LocalSet
    BY <1>1, <1>4, LocalsTyped
  <2>2. /\ SubSeq(l, 1, w) \in Seq(LocalSet)
        /\ Len(SubSeq(l, 1, w)) = IF 1 <= w THEN w - 1 + 1 ELSE 0
        /\ \A i \in 1 .. w - 1 + 1 : SubSeq(l, 1, w)[i] = l[1 + i - 1]
    BY <1>2, <2>1, SubSeqProperties
  <2>3. w - 1 + 1 = w /\ \A i \in 1 .. w : 1 + i - 1 = i
    BY <1>2
  <2>. QED
    BY <1>2, <2>2, <2>3
<1>. HIDE DEF m, N
<1>6. LocalsTo(Fn(s), 1, 0)
  <2>1. 1 \in 1 .. w /\ l[1].depth \in 0 .. 0
        /\ \A i \in 2 .. N : l[i].depth = -1 \/ l[i].depth > 0
    BY <1>1, <1>2 DEF LocalsTo, N
  <2>2. \A i \in 1 .. 1 : i = 1
    OBVIOUS
  <2>3. \A i \in 1 + 1 .. w : i \in 2 .. N /\ i \in 1 .. w
    BY <1>2
  <2>. HIDE DEF l
  <2>. QED
    BY <1>3, <1>5, <2>1, <2>2, <2>3 DEF LocalsTo
<1>7. ASSUME NEW n \in Nat, NEW y \in Nat, LocalsTo(Fn(p), n, y), y < d
      PROVE  LocalsTo(Fn(s), n, y)
  <2>1. /\ n \in 1 .. N /\ \A i \in 1 .. n : l[i].depth \in 0 .. y
        /\ \A i \in n + 1 .. N : l[i].depth = -1 \/ l[i].depth > y
    BY <1>7 DEF LocalsTo, N
  <2>2. \A i \in w + 1 .. N : l[i].depth = -1 \/ l[i].depth > d
    BY DEF LocalsTo, N
  <2>. HIDE DEF l
  <2>3. n \in 1 .. w
    <3>1. n >= 1 /\ n <= N /\ n \in 1 .. n
      BY <1>2, <2>1
    <3>2. l[n].depth \in 0 .. y
      BY <2>1, <3>1
    <3>3. n \notin w + 1 .. N
      BY <1>7, <2>2, <3>2
    <3>. QED
      BY <1>2, <3>1, <3>3
  <2>4. /\ \A i \in 1 .. n : i \in 1 .. w
        /\ \A i \in n + 1 .. w : i \in 1 .. w /\ i \in n + 1 .. N
    BY <1>2, <2>3
  <2>. QED
    BY <1>3, <1>5, <2>1, <2>3, <2>4 DEF LocalsTo
<1>8. Moved(d, H, s, K, Q, x)
  BY <1>3, <1>6, <1>7, MovedShifts
<1>. DEFINE k == N - w  b == Pops(k)
<1>9. k \in Nat /\ x > k /\ x - k = w /\ x = N
  BY <1>2 DEF N
<1>10. b = [i \in 1 .. k |-> Opcode["POP"]] /\ q = Emit(s, b)
  BY <1>3 DEF Pops
<1>11. b \in Seq(Bytes)
  <2>1. Opcode["POP"] \in Bytes
    BY OpcodeIsByte DEF Emitted
  <2>. QED
    BY <1>9, <2>1 DEF Pops
<1>. HIDE DEF k, b, l
<1>12. Fine(s) /\ text \in Texts /\ Cert(Fn(s), K, Q, x)
  BY <1>8 DEF Moved
<1>13. Appends(Fn(s), Fn(q), b) /\ Level(Fn(s), Fn(q)) /\ Mild(s, q)
  BY <1>10, <1>11, <1>12, EmitIs, EmitMild
<1>14. PICK L : K \subseteq L /\ Cert(Fn(q), L, Q, x - k)
  BY <1>1, <1>9, <1>10, <1>12, <1>13, AppendPops
<1>15. Onto(Fn(s), K, Fn(q), L)
  BY <1>12, <1>13, <1>14, AppendOnto
<1>16. Goes(s, K, q, L)
  BY <1>13, <1>15 DEF Goes, Appends
<1>17. Cert(Fn(q), L, Q, w) /\ w # 0
  BY <1>2, <1>9, <1>14
<1>18. Moved(d, H, q, L, Q, w) /\ Fn(q).locals = Fn(s).locals /\ Fn(q).depth = Fn(s).depth
  BY <1>2, <1>8, <1>16, <1>17, MovedGoes
<1>. QED
  BY <1>2, <1>3, <1>5, <1>18

(* The slots and the locals, while none waits.                             *)
LEMMA SettledTo ==
  ASSUME NEW f, ScopesOK(f), Settled(f), f.depth \in Nat, NEW n, n = Len(f.locals)
  PROVE  LocalsTo(f, n, f.depth)
<1>1. /\ n \in 1 .. SlotsMax /\ n \in 1 .. n
      /\ \A i \in 1 .. n : f.locals[i].depth \in -1 .. f.depth /\ f.locals[i].depth # -1
  BY ByteAssumption DEF ScopesOK, Settled, SlotsMax
<1>2. \A i \in 1 .. n : f.locals[i].depth \in 0 .. f.depth
  BY <1>1
<1>3. \A i \in n + 1 .. n : FALSE
  BY <1>1
<1>. QED
  BY <1>1, <1>2, <1>3 DEF LocalsTo

(* What ends a scope knows how many locals it leaves.                      *)
LEMMA EndFits ==
  ASSUME NEW f, NEW H, NEW c, c.at = "end_scope", NEW u, NEW w, NEW d, LocalsTo(f, w, d)
  PROVE  Fits(f, H, Rec(c, u, w, d)) /\ c.at \in Flexible /\ Sc(c) = 1 /\ c.at \notin Bases
<1>1. /\ c.at \notin ExprCalls /\ c.at \in Flexible /\ Sc(c) = 1 /\ c.at \notin Bases
      /\ c.at \notin InFunction
  BY DEF ExprCalls, Immediate, PrefixCalls, Flexible, Sc, Scoped, Bases, InFunction
<1>2. FitsStatement(f, c, u, w) /\ FitsMarks(f, H, c, u) /\ FitsScope(f, c, w, d)
  BY <1>1 DEF FitsStatement, FitsMarks, FitsScope
<1>. QED
  BY <1>1, <1>2, FitsOther

(* statement begins a scope for a block, or is an expression.              *)
LEMMA StatementBalances ==
  ASSUME CompilerInv, TextInv, BalanceInv, Statement
  PROVE  BalanceInv'
<1>. DEFINE b == Do("block")  a == Do("end_scope")  c == Do("expression_statement")
            p == Advance(parser)  q == BeginScope(p)
<1>1. todo # << >> /\ Top.at = "statement" /\ (Then(q, <<b, a>>) \/ Then(parser, <<c>>))
  BY DEF Statement, At
<1>2. /\ Fine(parser) /\ text \in Texts /\ Mild(parser, parser) /\ Mild(parser, p)
      /\ p.fns = parser.fns /\ ScopesOK(Fn(parser)) /\ Fine(p)
  BY <1>1, TopIs, ReadMild, ReadIs
<1>3. /\ b \in Calls /\ b.at = "block" /\ a \in Calls /\ a.at = "end_scope"
      /\ c \in Calls /\ c.at = "expression_statement"
  BY CallForms DEF PlainCalls
<1>01. q = BeginScope(p)
  OBVIOUS
<1>. HIDE DEF a, b, c, p, q
<1>4. Shifts(p, q) /\ Mild(parser, q)
  BY <1>01, <1>2, BeginScopeIs, MildTrans DEF Shifts
<1>5. /\ Top.at \notin ExprCalls \cup {"var_defined"} /\ Top.at \notin Takers
      /\ Top.at \notin Flexible /\ Top.at \notin Bases /\ Top.at \in Level0 /\ Top.at \notin Holders
  BY <1>1 DEF ExprCalls, Immediate, PrefixCalls, Takers, Flexible, Bases, InFunction, Level0,
     Holders
<1>6. CASE Then(q, <<b, a>>)
  <2>1. ASSUME Live(q) PROVE TypedBy(Fn(q), <<b, a>> \o Tail(todo))
    <3>1. PICK H, O, e, r, n : Opened(H, O, e, r, n)
      BY <1>1, <1>4, <1>5, <2>1, Opens
    <3>2. /\ Begun(H, O, e, r) /\ n = Len(Fn(parser).locals) /\ n \in Nat /\ e = n
          /\ r[1].in = n /\ r[1].out \in Nat /\ Now(H, parser, H, O, n) /\ r[1].depth \in Nat
          /\ Fn(parser).depth = r[1].depth + Sc(Top)
      BY <1>5, <3>1 DEF Opened
    <3>3. r[1].out = n
      BY <1>1, <3>1, <3>2 DEF Opened, FitsStatement
    <3>4. Sc(Top) = 0 /\ Sc(b) = 0 /\ b.at \in Level0
      BY <1>3, <1>5, OutsideLevel DEF Level0
    <3>5. Fn(parser).depth = r[1].depth
      BY <3>2, <3>4
    <3>6. Now(H, p, H, O, n) /\ Fn(p) = Fn(parser)
      BY <1>2, <3>2, NowReads
    <3>7. LocalsTo(Fn(parser), 1, 0) /\ Settled(Fn(parser))
      BY <1>1, <1>5, <3>2, BegunSlots
    <3>8. Moved(r[1].depth, H, p, H, O, n)
      BY <3>6, <3>7, MovedNow
    <3>9. /\ Moved(r[1].depth, H, q, H, O, n) /\ Fn(q).locals = Fn(parser).locals
          /\ Fn(q).depth = r[1].depth + 1
      BY <1>01, <3>5, <3>6, <3>8, MovedBegins
    <3>10. LocalsTo(Fn(q), n, r[1].depth)
      <4>1. LocalsTo(Fn(parser), n, r[1].depth)
        BY <1>2, <3>2, <3>5, <3>7, SettledTo
      <4>. QED
        BY <3>9, <4>1 DEF LocalsTo
    <3>11. /\ Fits(Fn(q), H, Rec(a, n, r[1].out, r[1].depth)) /\ a.at \in Flexible /\ Sc(a) = 1
           /\ a.at \notin Bases
      BY <1>3, <3>3, <3>10, EndFits
    <3>12. Fits(Fn(q), H, Rec(b, n, n, r[1].depth + Sc(a)))
      BY <3>4, LevelFits
    <3>13. OnTop(b, n, n, Len(Fn(q).locals))
      BY <3>2, <3>9 DEF OnTop
    <3>14. Held(O, O, Holds(a) \cup Holds(b))
      BY <1>1, <1>5, HeldSame
    <3>15. Fn(q).depth = r[1].depth + Sc(a) + Sc(b) /\ b.at \notin Bases
      BY <3>2, <3>4, <3>9, <3>11, OutsideLevel
    <3>. QED
      BY <1>1, <1>3, <1>5, <3>2, <3>9, <3>11, <3>12, <3>13, <3>14, <3>15, MovedTwo
  <2>. QED
    BY <1>1, <1>4, <1>6, <2>1, BalanceNext
<1>7. CASE Then(parser, <<c>>)
  <2>1. ASSUME Live(parser) PROVE TypedBy(Fn(parser), <<c>> \o Tail(todo))
    <3>1. PICK H, O, e, r, n : Opened(H, O, e, r, n)
      BY <1>1, <1>2, <1>5, <2>1, Opens
    <3>2. /\ Now(H, parser, H, O, n) /\ r[1].in = n
      BY <1>5, <3>1 DEF Opened
    <3>3. r[1].out = n
      BY <1>1, <3>1, <3>2 DEF Opened, FitsStatement
    <3>4. c.at \in Level0
      BY <1>3 DEF Level0
    <3>. QED
      BY <1>1, <1>3, <1>5, <3>1, <3>2, <3>3, <3>4, NowAs
  <2>. QED
    BY <1>1, <1>2, <1>7, <2>1, BalanceNext
<1>. QED
  BY <1>1, <1>6, <1>7

(* A scope ends whatever its locals are.                                   *)
LEMMA SomeKept ==
  ASSUME NEW p, Fine(p), ScopesOK(Fn(p)), Settled(Fn(p)), NEW d \in Nat, Fn(p).depth = d + 1
  PROVE  \E w : LocalsTo(Fn(p), w, d)
<1>. DEFINE l == Fn(p).locals  n == Len(l)  T == {m \in 1 .. n : l[m].depth <= d}
<1>1. /\ n \in Nat /\ n >= 1 /\ l[1].depth = 0
      /\ \A i \in 1 .. n : l[i].depth \in -1 .. d + 1 /\ l[i].depth # -1
      /\ \A i \in 1 .. n : \A j \in i + 1 .. n : l[j].depth # -1 => l[i].depth <= l[j].depth
  BY FineFn DEF ScopesOK, Settled
<1>. HIDE DEF l, n
<1>2. 1 \in T /\ T \in SUBSET (0 .. n)
  BY <1>1
<1>3. PICK m \in T : \A i \in T : i <= m
  BY <1>1, <1>2, GreatestOf
<1>4. m \in 1 .. n /\ m \in Nat /\ m <= n /\ l[m].depth <= d /\ l[m].depth \in 0 .. d
  BY <1>1, <1>3
<1>5. ASSUME NEW i \in 1 .. m
      PROVE  l[i].depth \in 0 .. d
  <2>1. i = m \/ (i \in 1 .. n /\ m \in i + 1 .. n)
    BY <1>1, <1>4
  <2>2. CASE i = m
    BY <1>4, <2>2
  <2>3. CASE i \in 1 .. n /\ m \in i + 1 .. n
    <3>1. l[i].depth <= l[m].depth /\ l[i].depth \in -1 .. d + 1 /\ l[i].depth # -1
      BY <1>1, <1>4, <2>3
    <3>. QED
      BY <1>4, <3>1
  <2>. QED
    BY <2>1, <2>2, <2>3
<1>6. ASSUME NEW i \in m + 1 .. n
      PROVE  l[i].depth > d
  <2>1. i \in 1 .. n /\ ~ (i <= m)
    BY <1>1, <1>4
  <2>2. i \notin T /\ l[i].depth \in -1 .. d + 1
    BY <1>1, <1>3, <2>1
  <2>. QED
    BY <2>1, <2>2
<1>7. LocalsTo(Fn(p), m, d)
  BY <1>4, <1>5, <1>6 DEF LocalsTo, l, n
<1>. QED
  BY <1>7

(* end_scope is a step of a parser.                                        *)
LEMMA EndScopeMild ==
  ASSUME NEW p, Fine(p), ScopesOK(Fn(p)), Settled(Fn(p)), Fn(p).depth >= 1,
         NEW q, q = EndScope(p)
  PROVE  Mild(p, q)
<1>. DEFINE d == Fn(p).depth - 1
<1>1. d \in Nat /\ Fn(p).depth = d + 1 /\ Len(Fn(p).locals) \in Nat
  BY FineFn
<1>. HIDE DEF d
<1>2. PICK w : LocalsTo(Fn(p), w, d)
  BY <1>1, SomeKept
<1>3. PICK s : Shifts(p, s) /\ q = Emit(s, Pops(Len(Fn(p).locals) - w))
  BY <1>1, <1>2, EndScopeIs
<1>4. Pops(Len(Fn(p).locals) - w) \in Seq(Bytes)
  <2>1. Opcode["POP"] \in Bytes
    BY OpcodeIsByte DEF Emitted
  <2>2. Len(Fn(p).locals) - w \in Nat
    BY <1>1, <1>2, KeptIs
  <2>. QED
    BY <2>1, <2>2 DEF Pops
<1>5. Fine(s) /\ Mild(p, s)
  BY <1>3 DEF Shifts
<1>6. Mild(s, q)
  BY <1>3, <1>4, <1>5, EmitMild
<1>. QED
  BY <1>5, <1>6, MildTrans

(* The end of a scope pops the values of its locals.                       *)
LEMMA ScopeEndsBalances ==
  ASSUME CompilerInv, TextInv, BalanceInv, ScopeEnds
  PROVE  BalanceInv'
<1>. DEFINE q == EndScope(parser)
<1>1. todo # << >> /\ Top.at = "end_scope" /\ Then(q, << >>)
  BY DEF ScopeEnds, At, Return
<1>2. /\ Fine(parser) /\ text \in Texts /\ ScopesOK(Fn(parser)) /\ Mild(parser, parser)
  BY <1>1, TopIs, ReadMild
<1>01. q = EndScope(parser)
  OBVIOUS
<1>. HIDE DEF q
<1>3. /\ Top.at \notin ExprCalls \cup {"var_defined"} /\ Top.at \notin Takers
      /\ Top.at \notin Bases /\ Top.at \in Scoped /\ Top.at \notin Holders /\ Sc(Top) = 1
      /\ Top.at \in Bodied
  BY <1>1 DEF ExprCalls, Immediate, PrefixCalls, Takers, Bases, InFunction, Scoped, Holders,
     Sc, Bodied
<1>5. Mild(parser, q)
  BY <1>01, <1>1, <1>2, <1>3, TopIs, EndScopeMild
<1>6. ASSUME Live(q)
      PROVE  TypedBy(Fn(q), << >> \o Tail(todo))
  <2>1. PICK H, O, e, r, n : Opened(H, O, e, r, n)
    BY <1>1, <1>3, <1>5, <1>6, Opens
  <2>2. /\ Begun(H, O, e, r) /\ n = Len(Fn(parser).locals) /\ n \in Nat
        /\ Now(H, parser, H, O, n) /\ r[1].depth \in Nat
        /\ Fn(parser).depth = r[1].depth + 1
        /\ LocalsTo(Fn(parser), r[1].out, r[1].depth)
    BY <1>3, <2>1 DEF Opened, FitsScope
  <2>3. LocalsTo(Fn(parser), 1, 0) /\ Settled(Fn(parser))
    BY <1>1, <1>3, <2>2, BegunSlots
  <2>4. Moved(r[1].depth, H, parser, H, O, n)
    BY <2>2, <2>3, MovedNow
  <2>. DEFINE d == r[1].depth  w == r[1].out
  <2>5. /\ Moved(d, H, parser, H, O, n) /\ LocalsTo(Fn(parser), w, d) /\ Fn(parser).depth = d + 1
        /\ d \in Nat
    BY <2>2, <2>4
  <2>. HIDE DEF d, w
  <2>6. PICK L : Moved(d, H, q, L, O, w) /\ Len(Fn(q).locals) = w /\ Fn(q).depth = d
    BY <1>01, <2>2, <2>3, <2>5, MovedEnds
  <2>7. Held(O, O, {})
    BY <1>1, <1>3, HeldSame
  <2>. QED
    BY <1>1, <1>3, <2>2, <2>6, <2>7, MovedZero DEF d, w
<1>. QED
  BY <1>1, <1>5, <1>6, BalanceNext

(* Tokens read and code written between changes of the scopes.             *)
LEMMA MovedReads ==
  ASSUME NEW d, NEW H, NEW p, NEW K, NEW Q, NEW x, Moved(d, H, p, K, Q, x),
         NEW q, Mild(p, q), q.fns = p.fns
  PROVE  Moved(d, H, q, K, Q, x) /\ Fn(q) = Fn(p)
<1>1. Fine(p) /\ text \in Texts /\ x \in Nat /\ x # 0 /\ Cert(Fn(p), K, Q, x)
  BY DEF Moved
<1>2. Goes(p, K, q, K) /\ Fn(q) = Fn(p)
  BY <1>1, ReadGoes
<1>3. Cert(Fn(q), K, Q, x)
  BY <1>1, <1>2
<1>. QED
  BY <1>1, <1>2, <1>3, MovedGoes

(* An instruction without operand.                                         *)
LEMMA MovedOp ==
  ASSUME NEW d, NEW H, NEW p, NEW K, NEW Q, NEW x, Moved(d, H, p, K, Q, x),
         NEW op \in OneByteOps, NEW q, q = EmitOp(p, op), NEW y \in Nat, y # 0,
         OneSuits(Fn(p), op, x, y)
  PROVE  \E L : Moved(d, H, q, L, Q, y) /\ Goes(p, K, q, L)
<1>1. Fine(p) /\ text \in Texts /\ x \in Nat /\ x # 0 /\ Cert(Fn(p), K, Q, x)
  BY DEF Moved
<1>2. PICK L : Goes(p, K, q, L) /\ Cert(Fn(q), L, Q, y)
  BY <1>1, OpGoes
<1>. QED
  BY <1>2, MovedGoes

(* An instruction with an operand.                                         *)
LEMMA MovedOperand ==
  ASSUME NEW d, NEW H, NEW p, NEW K, NEW Q, NEW x, Moved(d, H, p, K, Q, x),
         NEW op \in TwoByteOps, NEW a \in Bytes, NEW q, q = Emit(p, WithOne(op, a)),
         NEW y \in Nat, y # 0, TwoSuits(Fn(p), op, a, x, y)
  PROVE  \E L : Moved(d, H, q, L, Q, y) /\ Goes(p, K, q, L)
<1>1. Fine(p) /\ text \in Texts /\ x \in Nat /\ x # 0 /\ Cert(Fn(p), K, Q, x)
  BY DEF Moved
<1>2. PICK L : Goes(p, K, q, L) /\ Cert(Fn(q), L, Q, y)
  BY <1>1, OperandGoes
<1>. QED
  BY <1>2, MovedGoes

(* A constant.                                                             *)
LEMMA MovedConstant ==
  ASSUME NEW d, NEW H, NEW p, NEW K, NEW Q, NEW x, Moved(d, H, p, K, Q, x),
         NEW v, ~ IsFunc(v), NEW q, q = AddConstant(p, v)
  PROVE  /\ Moved(d, H, q, K, Q, x) /\ Fn(q).locals = Fn(p).locals /\ Fn(q).depth = Fn(p).depth
         /\ ~ q.error => HasConstant(Fn(q), ConstantId(p)) /\ ConstantAt(Fn(q), ConstantId(p)) = v
<1>1. Fine(p) /\ text \in Texts /\ x \in Nat /\ x # 0 /\ Cert(Fn(p), K, Q, x)
  BY DEF Moved
<1>2. /\ Goes(p, K, q, K) /\ Cert(Fn(q), K, Q, x)
      /\ ~ q.error => HasConstant(Fn(q), ConstantId(p)) /\ ConstantAt(Fn(q), ConstantId(p)) = v
  BY <1>1, ConstantGoes
<1>. QED
  BY <1>1, <1>2, MovedGoes

(* The calls at the end of a scope know its locals.                        *)
LEMMA ScopedFits ==
  ASSUME NEW f, NEW H, NEW c, c.at \in {"end_scope", "for_condition"}, NEW u, NEW w, NEW d,
         LocalsTo(f, w, d)
  PROVE  /\ Fits(f, H, Rec(c, u, w, d)) /\ c.at \in Flexible /\ Sc(c) = 1 /\ c.at \notin Bases
         /\ c.at \notin ExprCalls \cup Takers
<1>1. /\ c.at \notin ExprCalls \cup Takers /\ c.at \in Flexible /\ Sc(c) = 1 /\ c.at \notin Bases
      /\ c.at \notin InFunction
  BY DEF ExprCalls, Immediate, PrefixCalls, Flexible, Sc, Scoped, Bases, InFunction, Takers
<1>2. FitsStatement(f, c, u, w) /\ FitsMarks(f, H, c, u) /\ FitsScope(f, c, w, d)
  BY <1>1 DEF FitsStatement, FitsMarks, FitsScope
<1>. QED
  BY <1>1, <1>2, FitsOther

(* A statement's call is on top, and then q is in a new scope.             *)
ScopeOpened(H, O, e, r, n, q) ==
  /\ Begun(H, O, e, r) /\ r[1].in = n /\ r[1].out = n /\ n \in Nat /\ r[1].depth \in Nat
  /\ Moved(r[1].depth, H, q, H, O, n) /\ Len(Fn(q).locals) = n
  /\ Fn(q).depth = r[1].depth + 1 /\ LocalsTo(Fn(q), n, r[1].depth)

(* So it is for a statement that begins one.                               *)
LEMMA OpensScope ==
  ASSUME CompilerInv, TextInv, BalanceInv, todo # << >>, Top.at \in {"statement", "for_statement"},
         NEW p, Mild(parser, p), p.fns = parser.fns, NEW q, q = BeginScope(p), Live(q)
  PROVE  \E H, O, e, r, n : ScopeOpened(H, O, e, r, n, q)
<1>1. /\ Fine(parser) /\ text \in Texts /\ ScopesOK(Fn(parser)) /\ Fine(p)
  BY TopIs DEF Mild, Tame
<1>2. Shifts(p, q) /\ Mild(parser, q)
  BY <1>1, BeginScopeIs, MildTrans DEF Shifts
<1>3. /\ Top.at \notin ExprCalls \cup {"var_defined"} /\ Top.at \notin Takers
      /\ Top.at \notin Flexible /\ Top.at \notin Bases /\ Top.at \in Level0 /\ Top.at \notin Holders
  BY DEF ExprCalls, Immediate, PrefixCalls, Takers, Flexible, Bases, InFunction, Level0, Holders
<1>4. PICK H, O, e, r, n : Opened(H, O, e, r, n)
  BY <1>2, <1>3, Opens
<1>5. /\ Begun(H, O, e, r) /\ n = Len(Fn(parser).locals) /\ n \in Nat /\ e = n
      /\ r[1].in = n /\ r[1].out \in Nat /\ Now(H, parser, H, O, n) /\ r[1].depth \in Nat
      /\ Fn(parser).depth = r[1].depth + Sc(Top)
  BY <1>3, <1>4 DEF Opened
<1>6. r[1].out = n
  BY <1>4, <1>5 DEF Opened, FitsStatement
<1>7. Sc(Top) = 0
  BY <1>3, OutsideLevel DEF Level0
<1>8. Fn(parser).depth = r[1].depth
  BY <1>5, <1>7
<1>9. Now(H, p, H, O, n) /\ Fn(p) = Fn(parser)
  BY <1>5, NowReads
<1>10. LocalsTo(Fn(parser), 1, 0) /\ Settled(Fn(parser))
  BY <1>3, <1>5, BegunSlots
<1>11. Moved(r[1].depth, H, p, H, O, n)
  BY <1>9, <1>10, MovedNow
<1>12. /\ Moved(r[1].depth, H, q, H, O, n) /\ Fn(q).locals = Fn(parser).locals
       /\ Fn(q).depth = r[1].depth + 1
  BY <1>8, <1>9, <1>11, MovedBegins
<1>13. LocalsTo(Fn(q), n, r[1].depth)
  <2>1. LocalsTo(Fn(parser), n, r[1].depth)
    BY <1>1, <1>5, <1>8, <1>10, SettledTo
  <2>. QED
    BY <1>12, <2>1 DEF LocalsTo
<1>. QED
  BY <1>5, <1>6, <1>12, <1>13 DEF ScopeOpened

(* In a new scope, the call on top goes on as one that knows its locals.   *)
LEMMA ScopedAs ==
  ASSUME CompilerInv, TextInv, todo # << >>, Top.at = "for_statement",
         NEW H, NEW O, NEW e, NEW r, NEW n, NEW p, ScopeOpened(H, O, e, r, n, p),
         NEW q, Mild(p, q), q.fns = p.fns,
         NEW a \in Calls, a.at = "for_condition"
  PROVE  /\ TypedBy(Fn(q), <<a>> \o Tail(todo))
         /\ \A c \in Calls : c.at \in {"var_declaration", "expression_statement"} =>
              TypedBy(Fn(q), <<c, a>> \o Tail(todo))
<1>1. /\ Begun(H, O, e, r) /\ r[1].in = n /\ r[1].out = n /\ n \in Nat /\ r[1].depth \in Nat
      /\ Moved(r[1].depth, H, p, H, O, n) /\ Len(Fn(p).locals) = n
      /\ Fn(p).depth = r[1].depth + 1 /\ LocalsTo(Fn(p), n, r[1].depth)
  BY DEF ScopeOpened
<1>2. Moved(r[1].depth, H, q, H, O, n) /\ Fn(q) = Fn(p)
  BY <1>1, MovedReads
<1>3. /\ Top.at \notin ExprCalls /\ Top.at \notin Bases /\ Top.at \notin Holders
  BY DEF ExprCalls, Immediate, PrefixCalls, Bases, InFunction, Holders
<1>4. /\ Fits(Fn(q), H, Rec(a, n, r[1].out, r[1].depth)) /\ a.at \in Flexible /\ Sc(a) = 1
      /\ a.at \notin Bases /\ a.at \notin ExprCalls \cup Takers
  BY <1>1, <1>2, ScopedFits
<1>5. TypedBy(Fn(q), <<a>> \o Tail(todo))
  <2>1. OnTop(a, n, n, Len(Fn(q).locals))
    BY <1>1, <1>2 DEF OnTop
  <2>2. Fn(q).depth = r[1].depth + Sc(a)
    BY <1>1, <1>2, <1>4
  <2>3. Held(O, O, Holds(a))
    BY <1>1, <1>3, HeldSame
  <2>. QED
    BY <1>1, <1>2, <1>3, <1>4, <2>1, <2>2, <2>3, MovedOne
<1>6. ASSUME NEW c \in Calls, c.at \in {"var_declaration", "expression_statement"}
      PROVE  TypedBy(Fn(q), <<c, a>> \o Tail(todo))
  <2>1. c.at \in Level0
    BY <1>6 DEF Level0
  <2>2. Sc(c) = 0 /\ c.at \notin Bases /\ Fits(Fn(q), H, Rec(c, n, n, r[1].depth + Sc(a)))
    BY <2>1, OutsideLevel, LevelFits
  <2>3. OnTop(c, n, n, Len(Fn(q).locals))
    BY <1>1, <1>2 DEF OnTop
  <2>4. Fn(q).depth = r[1].depth + Sc(a) + Sc(c)
    BY <1>1, <1>2, <1>4, <2>2
  <2>5. Held(O, O, Holds(a) \cup Holds(c))
    BY <1>1, <1>3, HeldSame
  <2>. QED
    BY <1>1, <1>2, <1>3, <1>4, <2>2, <2>3, <2>4, <2>5, MovedTwo
<1>. QED
  BY <1>5, <1>6

(* for_statement begins a scope, for its variable and its loop.            *)
LEMMA ForStatementBalances ==
  ASSUME CompilerInv, TextInv, BalanceInv, ForStatement
  PROVE  BalanceInv'
<1>. DEFINE a == Do("for_condition")  b == Do("var_declaration")  c == Do("expression_statement")
            p == BeginScope(parser)  q == Consume(p, "L_PAREN")  s == Advance(q)
<1>1. /\ todo # << >> /\ Top.at = "for_statement"
      /\ Then(s, <<a>>) \/ Then(s, <<b, a>>) \/ Then(q, <<c, a>>)
  BY DEF ForStatement, At
<1>2. /\ Fine(parser) /\ text \in Texts /\ Mild(parser, parser)
  BY <1>1, TopIs, ReadMild
<1>3. /\ a \in Calls /\ a.at = "for_condition" /\ b \in Calls /\ b.at = "var_declaration"
      /\ c \in Calls /\ c.at = "expression_statement"
  BY CallForms DEF PlainCalls
<1>01. p = BeginScope(parser)
  OBVIOUS
<1>4. q = Consume(p, "L_PAREN") /\ s = Advance(q)
  OBVIOUS
<1>. HIDE DEF a, b, c, p, q, s
<1>5. Shifts(parser, p) /\ Mild(parser, p) /\ Fine(p)
  BY <1>01, <1>2, BeginScopeIs DEF Shifts
<1>6. /\ Mild(p, q) /\ q.fns = p.fns /\ Fine(q)
      /\ Mild(q, s) /\ s.fns = q.fns
  BY <1>2, <1>4, <1>5, ReadMild, ReadIs
<1>7. Mild(p, s) /\ s.fns = p.fns /\ Mild(parser, q) /\ Mild(parser, s)
  BY <1>5, <1>6, MildTrans
<1>8. ASSUME NEW t, t \in {q, s}, Live(t)
      PROVE  /\ TypedBy(Fn(t), <<a>> \o Tail(todo))
             /\ TypedBy(Fn(t), <<b, a>> \o Tail(todo)) /\ TypedBy(Fn(t), <<c, a>> \o Tail(todo))
  <2>1. Mild(p, t) /\ t.fns = p.fns
    BY <1>6, <1>7, <1>8
  <2>2. Live(p)
    BY <1>8, <2>1, LiveBefore
  <2>3. PICK H, O, e, r, n : ScopeOpened(H, O, e, r, n, p)
    BY <1>01, <1>1, <1>2, <2>2, OpensScope
  <2>. QED
    BY <1>1, <1>3, <2>1, <2>3, ScopedAs
<1>9. CASE Then(s, <<a>>)
  BY <1>1, <1>7, <1>8, <1>9, BalanceNext
<1>10. CASE Then(s, <<b, a>>)
  BY <1>1, <1>7, <1>8, <1>10, BalanceNext
<1>11. CASE Then(q, <<c, a>>)
  BY <1>1, <1>7, <1>8, <1>11, BalanceNext
<1>. QED
  BY <1>1, <1>9, <1>10, <1>11

(* The function being compiled is in a scope, and its compiler is asked.   *)
InScope(f) == Joined /\ f.depth > 0

(* A local that waits for its value is added, or the last one waits no     *)
(* more.                                                                   *)
Adds(f, g) ==
  /\ Len(g.locals) = Len(f.locals) + 1 /\ g.depth = f.depth
  /\ g.locals[Len(g.locals)].depth = -1
  /\ \A i \in 1 .. Len(f.locals) : g.locals[i] = f.locals[i]
MarksLast(f, g) ==
  /\ Len(g.locals) = Len(f.locals) /\ g.depth = f.depth
  /\ g.locals[Len(g.locals)].depth = f.depth
  /\ \A i \in 1 .. Len(f.locals) - 1 : g.locals[i] = f.locals[i]

(* The scope asked is that of the function being compiled, or none.        *)
LEMMA InScopeIs ==
  ASSUME NEW p, Fine(p)
  PROVE  /\ ScopeDepth(p) > 0 <=> InScope(Fn(p))
         /\ ScopeDepth(p) = 0 <=> ~ InScope(Fn(p))
         /\ InScope(Fn(p)) => Locals(p) = Fn(p).locals
<1>1. Fn(p).depth \in Nat
  BY FineParts
<1>. QED
  BY <1>1 DEF ScopeDepth, InScope, Locals

(* add_local                                                               *)
LEMMA AddLocalIs ==
  ASSUME NEW p, Fine(p), text \in Texts, InScope(Fn(p)), NEW name \in NamesRead,
         NEW q, q = AddLocal(p, name)
  PROVE  Mild(p, q) /\ (~ q.error => Shifts(p, q) /\ Adds(Fn(p), Fn(q)))
<1>. DEFINE l == Fn(p).locals  x == Local(name, -1)  m == Append(l, x)
<1>1. l \in Seq(LocalSet) /\ Len(l) \in Nat /\ Fn(p).depth \in Nat
  BY FineFn, FineParts
<1>2. x \in LocalSet /\ x.depth = -1
  BY DEF Local, LocalSet
<1>3. q = IF Len(l) = SlotsMax THEN ErrorAt(p) ELSE WithFn(p, [Fn(p) EXCEPT !.locals = m])
  BY InScopeIs DEF AddLocal
<1>4. [Fn(p) EXCEPT !.locals = m] = Rescope(Fn(p), Fn(p).depth, m)
  <2>1. PICK S : Sound(p, S)
    BY DEF Fine
  <2>2. Fn(p) \in FnSet(S)
    BY <2>1, FnParts
  <2>. HIDE DEF m
  <2>. QED
    BY <2>2 DEF FnSet, Rescope
<1>. HIDE DEF l, x
<1>5. /\ m \in Seq(LocalSet) /\ Len(m) = Len(l) + 1 /\ m[Len(l) + 1] = x
      /\ \A i \in 1 .. Len(l) : m[i] = l[i]
  BY <1>1, <1>2, AppendProperties
<1>. HIDE DEF m
<1>6. CASE Len(l) = SlotsMax
  <2>1. q = ErrorAt(p)
    BY <1>3, <1>6
  <2>. QED
    BY <2>1, ReadMild, ErrorsStay
<1>7. CASE Len(l) # SlotsMax
  <2>1. q = WithFn(p, Rescope(Fn(p), Fn(p).depth, m))
    BY <1>3, <1>4, <1>7
  <2>2. Shifts(p, q) /\ Fn(q).depth = Fn(p).depth /\ Fn(q).locals = m
    BY <1>1, <1>5, <2>1, ScopesWith
  <2>3. Adds(Fn(p), Fn(q))
    BY <1>1, <1>2, <1>5, <2>2 DEF Adds, l
  <2>. QED
    BY <2>2, <2>3 DEF Shifts
<1>. QED
  BY <1>6, <1>7

(* mark_initialized                                                        *)
LEMMA MarkInitializedIs ==
  ASSUME NEW p, Fine(p), text \in Texts, Len(Fn(p).locals) >= 1, NEW q, q = MarkInitialized(p)
  PROVE  /\ Mild(p, q) /\ Fine(q)
         /\ ~ InScope(Fn(p)) => q = p
         /\ InScope(Fn(p)) => Shifts(p, q) /\ MarksLast(Fn(p), Fn(q))
<1>. DEFINE l == Fn(p).locals  n == Len(l)  d == Fn(p).depth
            x == [l[n] EXCEPT !.depth = d]  m == [l EXCEPT ![n] = x]
<1>1. l \in Seq(LocalSet) /\ n \in Nat /\ d \in Nat /\ n >= 1 /\ n \in 1 .. n
  BY FineFn, FineParts
<1>2. CASE ~ InScope(Fn(p))
  <2>1. q = p
    BY <1>2, InScopeIs DEF MarkInitialized
  <2>. QED
    BY <1>2, <2>1, ReadMild
<1>3. CASE InScope(Fn(p))
  <2>1. q = WithFn(p, [Fn(p) EXCEPT !.locals[Len(Fn(p).locals)].depth = Fn(p).depth])
    BY <1>3, InScopeIs DEF MarkInitialized
  <2>2. [Fn(p) EXCEPT !.locals[Len(Fn(p).locals)].depth = Fn(p).depth] = Rescope(Fn(p), d, m)
    <3>1. PICK S : Sound(p, S)
      BY DEF Fine
    <3>2. Fn(p) \in FnSet(S)
      BY <3>1, FnParts
    <3>. QED
      BY <1>1, <3>2 DEF FnSet, Rescope
  <2>. HIDE DEF d, l
  <2>3. x \in LocalSet /\ x.depth = d
    <3>1. l[n] \in LocalSet /\ d \in Int
      BY <1>1
    <3>. HIDE DEF n
    <3>. QED
      BY <3>1 DEF LocalSet
  <2>. HIDE DEF x
  <2>4. /\ m \in Seq(LocalSet) /\ Len(m) = n
        /\ \A i \in 1 .. n : m[i] = IF i = n THEN x ELSE l[i]
    BY <1>1, <2>3, ExceptSeq
  <2>. HIDE DEF m
  <2>5. Shifts(p, q) /\ Fn(q).depth = d /\ Fn(q).locals = m
    BY <1>1, <2>1, <2>2, <2>4, ScopesWith
  <2>. HIDE DEF n
  <2>6. m[n] = x /\ \A i \in 1 .. n - 1 : m[i] = l[i]
    BY <1>1, <2>4
  <2>7. MarksLast(Fn(p), Fn(q))
    BY <1>1, <2>3, <2>4, <2>5, <2>6 DEF MarksLast, l, n, d
  <2>. QED
    BY <1>3, <2>5, <2>7 DEF Shifts
<1>. QED
  BY <1>2, <1>3

(* parse_variable: a local more that waits, or a constant more.            *)
LEMMA DeclareIs ==
  ASSUME NEW p, Fine(p), text \in Texts, NEW q, q = DeclareVariable(p)
  PROVE  /\ Mild(p, q) /\ Fine(q)
         /\ ~ InScope(Fn(p)) => q = p
         /\ InScope(Fn(p)) /\ ~ q.error => Shifts(p, q) /\ Adds(Fn(p), Fn(q))
<1>1. CASE ~ InScope(Fn(p))
  <2>1. q = p
    BY <1>1, InScopeIs DEF DeclareVariable
  <2>. QED
    BY <1>1, <2>1, ReadMild
<1>2. CASE InScope(Fn(p))
  <2>. DEFINE name == p.previous.text  s == IF Redeclares(p, name) THEN ErrorAt(p) ELSE p
  <2>1. q = AddLocal(s, name)
    BY <1>2, InScopeIs DEF DeclareVariable
  <2>2. name \in NamesRead
    BY FineFn DEF NamesRead
  <2>3. s = p \/ (s = ErrorAt(p) /\ s.error)
    BY ErrorsStay
  <2>. HIDE DEF s, name
  <2>4. Mild(p, s) /\ Fine(s) /\ Fn(s) = Fn(p)
    BY <2>3, ReadMild, ReadIs
  <2>5. Mild(s, q) /\ (~ q.error => Shifts(s, q) /\ Adds(Fn(s), Fn(q)))
    BY <1>2, <2>1, <2>2, <2>4, AddLocalIs
  <2>6. Mild(p, q) /\ Fine(q)
    BY <2>4, <2>5, MildTrans DEF Mild, Tame
  <2>7. ~ q.error => s = p
    BY <2>3, <2>5 DEF Mild
  <2>. QED
    BY <1>2, <2>5, <2>6, <2>7
<1>. QED
  BY <1>1, <1>2

(* The constant of a name is one.                                          *)
LEMMA NameIs ==
  ASSUME NEW f, NEW k, NEW name, HasConstant(f, k) /\ ConstantAt(f, k) = Str(name)
  PROVE  IsName(f, k)
  BY DEF IsName, Str, IsWild

(* parse_variable: a name is read, and declared or made a constant.        *)
LEMMA ParseVariableIs ==
  ASSUME NEW p, Fine(p), text \in Texts, NEW q, q = ParseVariable(p)
  PROVE  \E s, name :
           /\ Mild(p, s) /\ s.fns = p.fns /\ Mild(s, q) /\ Mild(p, q) /\ Fine(q) /\ Fine(s)
           /\ ~ InScope(Fn(p)) => q = AddConstant(s, name) /\ name.type = "STR" /\ ~ IsFunc(name)
                                  /\ ~ IsWild(name)
           /\ InScope(Fn(p)) /\ ~ q.error => Shifts(s, q) /\ Adds(Fn(s), Fn(q))
<1>. DEFINE s == Consume(p, "IDENT")  t == DeclareVariable(s)  name == Str(t.previous.text)
<1>1. q = IF ScopeDepth(p) > 0 THEN t ELSE AddConstant(t, name)
  BY DEF ParseVariable
<1>2. name.type = "STR" /\ ~ IsFunc(name) /\ ~ IsWild(name)
  BY DEF Str, IsFunc, IsWild
<1>3. s = Consume(p, "IDENT") /\ t = DeclareVariable(s)
  OBVIOUS
<1>. HIDE DEF s, t, name
<1>4. Mild(p, s) /\ s.fns = p.fns /\ Fine(s) /\ Fn(s) = Fn(p)
  BY <1>3, ReadMild, ReadIs
<1>5. /\ Mild(s, t) /\ Fine(t)
      /\ ~ InScope(Fn(p)) => t = s
      /\ InScope(Fn(p)) /\ ~ t.error => Shifts(s, t) /\ Adds(Fn(s), Fn(t))
  BY <1>3, <1>4, DeclareIs
<1>6. CASE InScope(Fn(p))
  <2>1. q = t
    BY <1>1, <1>6, InScopeIs
  <2>. QED
    BY <1>4, <1>5, <1>6, <2>1, MildTrans
<1>7. CASE ~ InScope(Fn(p))
  <2>1. ~ (ScopeDepth(p) > 0) /\ t = s
    BY <1>5, <1>7, InScopeIs
  <2>2. q = AddConstant(s, name)
    BY <1>1, <2>1
  <2>3. Mild(s, q)
    BY <1>2, <1>4, <2>2, AddConstantMild
  <2>4. Mild(p, q) /\ Fine(q)
    BY <1>4, <2>3, MildTrans DEF Mild, Tame
  <2>. QED
    BY <1>2, <1>4, <1>7, <2>2, <2>3, <2>4
<1>. QED
  BY <1>6, <1>7
-----------------------------------------------------------------------------
(* The locals that are known stay so.                                      *)
LEMMA AddsLocals ==
  ASSUME NEW f, NEW g, Adds(f, g), Len(f.locals) \in Nat, Len(f.locals) >= 1
  PROVE  /\ \A n, y \in Nat : LocalsTo(f, n, y) => LocalsTo(g, n, y)
         /\ Slots(g) = Len(f.locals) /\ Len(g.locals) = Len(f.locals) + 1
<1>1. ASSUME NEW n \in Nat, NEW y \in Nat, LocalsTo(f, n, y)
      PROVE  LocalsTo(g, n, y)
  <2>1. n \in 1 .. Len(g.locals) /\ \A i \in 1 .. n : i \in 1 .. Len(f.locals)
    BY <1>1 DEF LocalsTo, Adds
  <2>2. \A i \in n + 1 .. Len(g.locals) :
          i = Len(g.locals) \/ (i \in n + 1 .. Len(f.locals) /\ i \in 1 .. Len(f.locals))
    BY DEF Adds
  <2>. QED
    BY <1>1, <2>1, <2>2 DEF LocalsTo, Adds
<1>2. Slots(g) = Len(f.locals)
  BY DEF Slots, Adds
<1>. QED
  BY <1>1, <1>2 DEF Adds

(* Those outside the scope stay known when a local in it gets its value.   *)
LEMMA MarksLocals ==
  ASSUME NEW f, NEW g, MarksLast(f, g), Len(f.locals) \in Nat, Len(f.locals) >= 1,
         f.locals[Len(f.locals)].depth = -1, f.depth \in Nat
  PROVE  \A n, y \in Nat : LocalsTo(f, n, y) /\ y < f.depth => LocalsTo(g, n, y)
<1>. SUFFICES ASSUME NEW n \in Nat, NEW y \in Nat, LocalsTo(f, n, y), y < f.depth
              PROVE  LocalsTo(g, n, y)
  OBVIOUS
<1>1. n # Len(f.locals)
  BY DEF LocalsTo
<1>2. n \in 1 .. Len(g.locals) /\ \A i \in 1 .. n : i \in 1 .. Len(f.locals) - 1
  BY <1>1 DEF LocalsTo, MarksLast
<1>3. \A i \in n + 1 .. Len(g.locals) :
        i = Len(g.locals) \/ (i \in n + 1 .. Len(f.locals) /\ i \in 1 .. Len(f.locals) - 1)
  BY DEF MarksLast
<1>4. g.locals[Len(g.locals)].depth > y
  BY DEF MarksLast
<1>. QED
  BY <1>2, <1>3, <1>4 DEF LocalsTo, MarksLast

(* The local that waits has no slot.                                       *)
LEMMA MovedAdds ==
  ASSUME NEW d, NEW H, NEW p, NEW K, NEW Q, NEW x, Moved(d, H, p, K, Q, x),
         NEW q, Shifts(p, q), Adds(Fn(p), Fn(q))
  PROVE  /\ Moved(d, H, q, K, Q, x) /\ Fn(q).depth = Fn(p).depth
         /\ Slots(Fn(q)) = Len(Fn(p).locals) /\ Len(Fn(q).locals) = Len(Fn(p).locals) + 1
<1>1. Fine(p) /\ LocalsTo(Fn(p), 1, 0)
  BY DEF Moved
<1>2. Len(Fn(p).locals) \in Nat
  BY <1>1, FineFn
<1>3. Len(Fn(p).locals) >= 1
  BY <1>1, <1>2 DEF LocalsTo
<1>4. /\ \A n, y \in Nat : LocalsTo(Fn(p), n, y) => LocalsTo(Fn(q), n, y)
      /\ Slots(Fn(q)) = Len(Fn(p).locals) /\ Len(Fn(q).locals) = Len(Fn(p).locals) + 1
  BY <1>2, <1>3, AddsLocals
<1>5. LocalsTo(Fn(q), 1, 0)
  BY <1>1, <1>4
<1>6. Moved(d, H, q, K, Q, x)
  BY <1>4, <1>5, MovedShifts
<1>. QED
  BY <1>4, <1>6 DEF Adds

(* the last local waits; the scope is as deep as d *)
Waits(f) == Slots(f) < Len(f.locals)
Deep(d, f) == d <= f.depth

(* It has one when its value is there.                                     *)
LEMMA MovedMarks ==
  ASSUME NEW d \in Nat, NEW H, NEW p, NEW K, NEW Q, NEW x, Moved(d, H, p, K, Q, x),
         Waits(Fn(p)), InScope(Fn(p)), Deep(d, Fn(p)),
         NEW q, q = MarkInitialized(p)
  PROVE  /\ Moved(d, H, q, K, Q, x) /\ Fn(q).depth = Fn(p).depth
         /\ Len(Fn(q).locals) = Len(Fn(p).locals) /\ Slots(Fn(q)) = Len(Fn(p).locals)
<1>1. Fine(p) /\ LocalsTo(Fn(p), 1, 0) /\ text \in Texts
  BY DEF Moved
<1>2. Len(Fn(p).locals) \in Nat /\ Fn(p).depth \in Nat /\ Fn(p).depth > 0
  BY <1>1, FineFn DEF InScope
<1>3. Len(Fn(p).locals) >= 1
  BY <1>1, <1>2 DEF LocalsTo
<1>4. Fn(p).locals[Len(Fn(p).locals)].depth = -1
  BY <1>2 DEF Slots, Waits
<1>5. Shifts(p, q) /\ MarksLast(Fn(p), Fn(q))
  BY <1>1, <1>3, MarkInitializedIs
<1>6. \A n, y \in Nat : LocalsTo(Fn(p), n, y) /\ y < Fn(p).depth => LocalsTo(Fn(q), n, y)
  BY <1>2, <1>3, <1>4, <1>5, MarksLocals
<1>7. LocalsTo(Fn(q), 1, 0)
  BY <1>1, <1>2, <1>6
<1>8. \A n, y \in Nat : LocalsTo(Fn(p), n, y) /\ y < d => LocalsTo(Fn(q), n, y)
  <2>1. \A y \in Nat : y < d => y < Fn(p).depth
    BY <1>2 DEF Deep
  <2>. QED
    BY <1>6, <2>1
<1>9. Moved(d, H, q, K, Q, x)
  BY <1>5, <1>7, <1>8, MovedShifts
<1>. QED
  BY <1>2, <1>5, <1>9 DEF MarksLast, Slots

(* A variable's name is parsed: there is a local of it, which waits, or    *)
(* its constant.                                                           *)
Parsed(f, g, k) ==
  /\ g.depth = f.depth
  /\ IF InScope(f) THEN Slots(g) = Len(f.locals) /\ Len(g.locals) = Len(f.locals) + 1
     ELSE g.locals = f.locals /\ IsName(g, k)

(* So parse_variable goes.                                                 *)
LEMMA MovedParses ==
  ASSUME NEW d, NEW H, NEW p, NEW K, NEW Q, NEW x, Moved(d, H, p, K, Q, x),
         NEW q, q = ParseVariable(p), ~ q.error
  PROVE  Moved(d, H, q, K, Q, x) /\ Parsed(Fn(p), Fn(q), VariableId(p))
<1>1. Fine(p) /\ text \in Texts
  BY DEF Moved
<1>2. PICK s, name :
        /\ Mild(p, s) /\ s.fns = p.fns /\ Mild(s, q) /\ Mild(p, q) /\ Fine(q) /\ Fine(s)
        /\ ~ InScope(Fn(p)) => q = AddConstant(s, name) /\ name.type = "STR" /\ ~ IsFunc(name)
                               /\ ~ IsWild(name)
        /\ InScope(Fn(p)) /\ ~ q.error => Shifts(s, q) /\ Adds(Fn(s), Fn(q))
  BY <1>1, ParseVariableIs
<1>3. Moved(d, H, s, K, Q, x) /\ Fn(s) = Fn(p)
  BY <1>2, MovedReads
<1>4. CASE InScope(Fn(p))
  <2>1. Shifts(s, q) /\ Adds(Fn(s), Fn(q))
    BY <1>2, <1>4
  <2>2. /\ Moved(d, H, q, K, Q, x) /\ Fn(q).depth = Fn(s).depth
        /\ Slots(Fn(q)) = Len(Fn(s).locals) /\ Len(Fn(q).locals) = Len(Fn(s).locals) + 1
    BY <1>3, <2>1, MovedAdds
  <2>. QED
    BY <1>3, <1>4, <2>2 DEF Parsed
<1>5. CASE ~ InScope(Fn(p))
  <2>1. q = AddConstant(s, name) /\ name.type = "STR" /\ ~ IsFunc(name) /\ ~ IsWild(name)
    BY <1>2, <1>5
  <2>2. /\ Moved(d, H, q, K, Q, x) /\ Fn(q).locals = Fn(s).locals /\ Fn(q).depth = Fn(s).depth
        /\ ~ q.error => HasConstant(Fn(q), ConstantId(s)) /\ ConstantAt(Fn(q), ConstantId(s)) = name
    BY <1>3, <2>1, MovedConstant
  <2>3. ConstantId(s) = ConstantId(p) /\ VariableId(p) = ConstantId(p)
    BY <1>1, <1>3, <1>5, InScopeIs DEF ConstantId, TooMany, VariableId
  <2>4. IsName(Fn(q), VariableId(p))
    BY <2>1, <2>2, <2>3 DEF IsName
  <2>. QED
    BY <1>3, <1>5, <2>2, <2>4 DEF Parsed
<1>. QED
  BY <1>4, <1>5

(* The locals with a value are those that were there.                      *)
LEMMA ParsedSlots ==
  ASSUME NEW f, NEW g, NEW k, Parsed(f, g, k), Slots(f) = Len(f.locals)
  PROVE  Slots(g) = Len(f.locals)
<1>1. CASE InScope(f)
  BY <1>1 DEF Parsed
<1>2. CASE ~ InScope(f)
  <2>1. g.locals = f.locals
    BY <1>2 DEF Parsed
  <2>. QED
    BY <2>1 DEF Slots
<1>. QED
  BY <1>1, <1>2

(* The kind of the call that defines a variable.                           *)
LEMMA DefinedIs ==
  ASSUME NEW a, a.at = "var_defined"
  PROVE  /\ Sc(a) = 0 /\ a.at \notin Bases /\ a.at \notin Flexible /\ a.at \notin Holders
         /\ a.at \in Takers /\ a.at \notin ExprCalls /\ a.at \notin Scoped /\ a.at \notin InFunction
         /\ a.at \notin Bodied /\ ~ Gives(a)
  BY DEF ExprCalls, Immediate, PrefixCalls, Sc, Scoped, Bases, InFunction, Flexible, Holders,
     Takers,
         Bodied, Gives

(* What is declared waits for its value.                                   *)
LEMMA DefinedFits ==
  ASSUME NEW f, NEW g, NEW k, Parsed(f, g, k), Slots(f) = Len(f.locals),
         NEW n \in Nat, n = Len(f.locals), NEW h, h.locals = g.locals, h.depth = g.depth,
         ~ InScope(f) => IsName(h, k),
         NEW a, a.at = "var_defined", a.global = k, NEW w, NEW d, NEW H
  PROVE  Fits(h, H, Rec(a, n + 1, w, d))
<1>1. a.at \notin ExprCalls /\ a.at \notin Scoped /\ a.at \notin InFunction
  BY DefinedIs
<1>2. InScope(h) <=> InScope(f)
  BY DEF InScope, Parsed
<1>3. Slots(h) = Slots(g) /\ Len(h.locals) = Len(g.locals) /\ Slots(g) = n
  BY ParsedSlots DEF Slots
<1>4. CASE InScope(f)
  <2>1. Slots(h) = n /\ Len(h.locals) = n + 1 /\ Joined /\ h.depth > 0
    BY <1>2, <1>3, <1>4 DEF Parsed, InScope
  <2>2. FitsStatement(h, a, n + 1, w)
    BY <2>1 DEF FitsStatement
  <2>3. FitsMarks(h, H, a, n + 1) /\ FitsScope(h, a, w, d)
    BY <1>1 DEF FitsMarks, FitsScope
  <2>. QED
    BY <1>1, <2>1, <2>2, <2>3, FitsOther
<1>5. CASE ~ InScope(f)
  <2>2. Slots(h) = n /\ Len(h.locals) = n /\ ~ (Joined /\ h.depth > 0) /\ IsName(h, k)
    BY <1>2, <1>3, <1>5 DEF Parsed, InScope
  <2>3. FitsStatement(h, a, n + 1, w)
    BY <2>2 DEF FitsStatement
  <2>4. FitsMarks(h, H, a, n + 1) /\ FitsScope(h, a, w, d)
    BY <1>1 DEF FitsMarks, FitsScope
  <2>. QED
    BY <1>1, <2>2, <2>3, <2>4, FitsOther
<1>. QED
  BY <1>4, <1>5

(* A variable's initializer is compiled while its local waits.             *)
LEMMA VarDeclarationBalances ==
  ASSUME CompilerInv, TextInv, BalanceInv, VarDeclaration
  PROVE  BalanceInv'
<1>. DEFINE k == VariableId(parser)  a == [at |-> "var_defined", global |-> k]  c == Expression
            q == ParseVariable(parser)  s == Advance(q)  t == EmitOp(q, "NIL")
<1>1. /\ todo # << >> /\ Top.at = "var_declaration" /\ (Then(s, <<c, a>>) \/ Then(t, <<a>>))
  BY DEF VarDeclaration, At
<1>2. /\ Fine(parser) /\ text \in Texts /\ Mild(parser, parser)
  BY <1>1, TopIs, ReadMild
<1>3. /\ c \in Calls /\ c.at = "precedence"
      /\ a \in Calls /\ a.at = "var_defined" /\ a.global = k
  <2>1. a \in [at : {"var_defined"} \cup InFunction, global : Bytes]
    BY <1>2, VariableIdIsByte
  <2>. QED
    BY <2>1, CallForms DEF Calls
<1>01. q = ParseVariable(parser) /\ k = VariableId(parser)
  OBVIOUS
<1>4. s = Advance(q) /\ t = EmitOp(q, "NIL")
  OBVIOUS
<1>. HIDE DEF a, c, q, s, t, k
<1>5. Mild(parser, q) /\ Fine(q)
  BY <1>01, <1>2, ParseVariableIs
<1>6. Mild(q, s) /\ s.fns = q.fns /\ Mild(q, t)
  BY <1>2, <1>4, <1>5, ReadMild, ReadIs, EmitOpMild DEF Emitted
<1>7. Mild(parser, s) /\ Mild(parser, t)
  BY <1>5, <1>6, MildTrans
<1>8. /\ Top.at \notin ExprCalls \cup {"var_defined"} /\ Top.at \notin Takers
      /\ Top.at \notin Bases /\ Top.at \in Level0 /\ Top.at \notin Holders
      /\ c.at \in ExprCalls /\ c.at # "finish" /\ c.at \notin Bases /\ c.at \notin Scoped
      /\ c.at \notin Holders
  BY <1>1, <1>3 DEF ExprCalls, Immediate, PrefixCalls, Takers, Bases, InFunction, Level0,
     Holders, Scoped
<1>9. ASSUME NEW p, p \in {s, t}, Live(p)
      PROVE  \E H, O, e, r, n :
               /\ Opened(H, O, e, r, n) /\ Moved(r[1].depth, H, q, H, O, n)
               /\ Parsed(Fn(parser), Fn(q), k) /\ Fn(q).depth = r[1].depth
  <2>1. Mild(q, p) /\ Live(q)
    BY <1>6, <1>9, LiveBefore
  <2>2. PICK H, O, e, r, n : Opened(H, O, e, r, n)
    BY <1>1, <1>5, <1>8, <2>1, Opens
  <2>3. Begun(H, O, e, r) /\ Now(H, parser, H, O, n) /\ Fn(parser).depth = r[1].depth + Sc(Top)
        /\ r[1].depth \in Nat
    BY <1>8, <2>2 DEF Opened
  <2>4. Sc(Top) = 0
    BY <1>8, OutsideLevel
  <2>5. LocalsTo(Fn(parser), 1, 0)
    BY <1>1, <2>3, BegunSlots
  <2>6. Moved(r[1].depth, H, parser, H, O, n)
    BY <2>3, <2>5, MovedNow
  <2>7. Moved(r[1].depth, H, q, H, O, n) /\ Parsed(Fn(parser), Fn(q), k)
    BY <1>01, <2>1, <2>6, MovedParses DEF Live
  <2>8. Fn(q).depth = r[1].depth
    BY <2>3, <2>4, <2>7 DEF Parsed
  <2>. QED
    BY <2>2, <2>7, <2>8
<1>10. CASE Then(s, <<c, a>>)
  <2>1. ASSUME Live(s) PROVE TypedBy(Fn(s), <<c, a>> \o Tail(todo))
    <3>1. PICK H, O, e, r, n :
            /\ Opened(H, O, e, r, n) /\ Moved(r[1].depth, H, q, H, O, n)
            /\ Parsed(Fn(parser), Fn(q), k) /\ Fn(q).depth = r[1].depth
      BY <1>9, <2>1
    <3>2. Moved(r[1].depth, H, s, H, O, n) /\ Fn(s) = Fn(q)
      BY <1>6, <3>1, MovedReads
    <3>3. /\ Begun(H, O, e, r) /\ n \in Nat /\ n = Len(Fn(parser).locals)
          /\ Slots(Fn(parser)) = n /\ r[1].depth \in Nat
      BY <3>1 DEF Opened
    <3>4. ~ InScope(Fn(parser)) => IsName(Fn(s), k)
      BY <3>1, <3>2 DEF Parsed
    <3>5. /\ Fits(Fn(s), H, Rec(a, n + 1, r[1].out, r[1].depth)) /\ Sc(a) = 0
          /\ a.at \notin Bases /\ a.at \notin Flexible /\ Slots(Fn(s)) = n
      <4>. DEFINE f == Fn(parser)  g == Fn(q)  h == Fn(s)  w == r[1].out  d == r[1].depth
      <4>1. /\ Parsed(f, g, k) /\ Slots(f) = Len(f.locals) /\ n \in Nat /\ n = Len(f.locals)
            /\ h.locals = g.locals /\ h.depth = g.depth /\ (~ InScope(f) => IsName(h, k))
            /\ a.at = "var_defined" /\ a.global = k
        BY <1>3, <3>1, <3>2, <3>3, <3>4
      <4>. HIDE DEF f, g, h, w, d
      <4>2. Fits(h, H, Rec(a, n + 1, w, d))
        BY <4>1, DefinedFits
      <4>3. /\ Sc(a) = 0 /\ a.at \notin Bases /\ a.at \notin Flexible /\ Slots(h) = n
        BY <4>1, DefinedIs, ParsedSlots DEF Slots
      <4>. QED
        BY <4>2, <4>3 DEF h, w, d
    <3>6. Fits(Fn(s), H, Rec(c, n, n + 1, r[1].depth + Sc(a)))
      <4>1. FitsExpression(Fn(s), c, n, n + 1)
        BY <1>3, <3>3, <3>5 DEF FitsExpression
      <4>. QED
        BY <1>8, <4>1, FitsExpr
    <3>7. OnTop(c, n, n, Len(Fn(s).locals)) /\ Sc(c) = 0
      BY <1>8 DEF OnTop, Sc
    <3>8. Fn(s).depth = r[1].depth + Sc(a) + Sc(c)
      BY <3>1, <3>2, <3>3, <3>5, <3>7
    <3>9. Held(O, O, Holds(a) \cup Holds(c))
      BY <1>1, <1>8, HeldSame
    <3>10. n + 1 \in Nat
      BY <3>3
    <3>. QED
      BY <1>1, <1>3, <1>8, <3>2, <3>3, <3>5, <3>6, <3>7, <3>8, <3>9, <3>10, MovedTwo
  <2>. QED
    BY <1>1, <1>7, <1>10, <2>1, BalanceNext
<1>11. CASE Then(t, <<a>>)
  <2>1. ASSUME Live(t) PROVE TypedBy(Fn(t), <<a>> \o Tail(todo))
    <3>1. PICK H, O, e, r, n :
            /\ Opened(H, O, e, r, n) /\ Moved(r[1].depth, H, q, H, O, n)
            /\ Parsed(Fn(parser), Fn(q), k) /\ Fn(q).depth = r[1].depth
      BY <1>9, <2>1
    <3>2. /\ Begun(H, O, e, r) /\ n \in Nat /\ n = Len(Fn(parser).locals)
          /\ Slots(Fn(parser)) = n /\ r[1].depth \in Nat
      BY <3>1 DEF Opened
    <3>3. /\ "NIL" \in OneByteOps /\ OneSuits(Fn(q), "NIL", n, n + 1)
          /\ n + 1 \in Nat /\ n + 1 # 0
      BY <3>2 DEF OneByteOps, OneSuits
    <3>4. PICK L : Moved(r[1].depth, H, t, L, O, n + 1) /\ Goes(q, H, t, L)
      BY <1>4, <3>1, <3>3, MovedOp
    <3>5. /\ Fn(t).locals = Fn(q).locals /\ Fn(t).depth = Fn(q).depth
          /\ Typed(Fn(q)) /\ Typed(Fn(t)) /\ Extends(Fn(q), Fn(t))
      BY <3>4 DEF Goes, Level, Onto
    <3>6. ~ InScope(Fn(parser)) => IsName(Fn(t), k)
      BY <3>1, <3>5, NameStays DEF Parsed
    <3>7. /\ Fits(Fn(t), L, Rec(a, n + 1, r[1].out, r[1].depth)) /\ Sc(a) = 0
          /\ a.at \notin Bases /\ a.at \notin Flexible /\ a.at \in Takers
      <4>. DEFINE f == Fn(parser)  g == Fn(q)  h == Fn(t)  w == r[1].out  d == r[1].depth
      <4>1. Parsed(f, g, k) /\ Slots(f) = Len(f.locals) /\ n \in Nat /\ n = Len(f.locals)
        BY <3>1, <3>2
      <4>2. h.locals = g.locals /\ h.depth = g.depth /\ (~ InScope(f) => IsName(h, k))
        BY <3>5, <3>6
      <4>3. a.at = "var_defined" /\ a.global = k
        BY <1>3
      <4>. HIDE DEF f, g, h, w, d, a
      <4>4. Fits(h, L, Rec(a, n + 1, w, d))
        BY <4>1, <4>2, <4>3, DefinedFits
      <4>5. Sc(a) = 0 /\ a.at \notin Bases /\ a.at \notin Flexible /\ a.at \in Takers
        BY <4>3, DefinedIs
      <4>. QED
        BY <4>4, <4>5 DEF f, h, w, d
    <3>8. OnTop(a, n + 1, n + 1, Len(Fn(t).locals))
      BY <3>7 DEF OnTop
    <3>9. Fn(t).depth = r[1].depth + Sc(a)
      BY <3>1, <3>2, <3>5, <3>7
    <3>10. Held(O, O, Holds(a))
      BY <1>1, <1>8, HeldSame
    <3>. QED
      BY <1>1, <1>3, <1>8, <3>2, <3>3, <3>4, <3>7, <3>8, <3>9, <3>10, MovedOne
  <2>. QED
    BY <1>1, <1>7, <1>11, <2>1, BalanceNext
<1>. QED
  BY <1>1, <1>10, <1>11

(* A variable is to be defined: its value is in the slot of the local that *)
(* waits, or above the locals and the name is a constant.                  *)
Awaits(f, x, k) ==
  IF InScope(f) THEN Waits(f) /\ x = Len(f.locals)
  ELSE Slots(f) = Len(f.locals) /\ x = Len(f.locals) + 1 /\ IsName(f, k)

(* define_variable                                                         *)
LEMMA DefineGlobalIs ==
  ASSUME NEW p, Fine(p), text \in Texts, Len(Fn(p).locals) >= 1, NEW k \in Bytes,
         NEW q, q = DefineGlobal(p, k)
  PROVE  /\ Mild(p, q)
         /\ q = IF InScope(Fn(p)) THEN MarkInitialized(p) ELSE Emit(p, WithOne("DEFINE_GLOBAL", k))
<1>1. q = IF InScope(Fn(p)) THEN MarkInitialized(p) ELSE Emit(p, WithOne("DEFINE_GLOBAL", k))
  BY InScopeIs DEF DefineGlobal, WithOne
<1>2. WithOne("DEFINE_GLOBAL", k) \in Seq(Bytes)
  BY OpcodeIsByte DEF Emitted, WithOne
<1>3. CASE InScope(Fn(p))
  BY <1>1, <1>3, MarkInitializedIs
<1>4. CASE ~ InScope(Fn(p))
  BY <1>1, <1>2, <1>4, EmitMild
<1>. QED
  BY <1>1, <1>3, <1>4

(* q is p with the variable defined, with n locals, each of a value *)
Defined(d, H, p, q, L, Q, n) ==
  /\ Moved(d, H, q, L, Q, n) /\ Len(Fn(q).locals) = n
  /\ Fn(q).depth = Fn(p).depth /\ Slots(Fn(q)) = n

(* So define_variable goes.                                                *)
LEMMA MovedDefines ==
  ASSUME NEW d \in Nat, NEW H, NEW p, NEW K, NEW Q, NEW x, Moved(d, H, p, K, Q, x),
         Deep(d, Fn(p)), NEW k \in Bytes, Awaits(Fn(p), x, k), NEW q, q = DefineGlobal(p, k),
         NEW n, n = Len(Fn(p).locals)
  PROVE  \E L : Defined(d, H, p, q, L, Q, n)
<1>1. Fine(p) /\ text \in Texts /\ LocalsTo(Fn(p), 1, 0)
  BY DEF Moved
<1>2. n \in Nat /\ n >= 1
  BY <1>1, SlotsAre
<1>3. q = IF InScope(Fn(p)) THEN MarkInitialized(p) ELSE Emit(p, WithOne("DEFINE_GLOBAL", k))
  BY <1>1, <1>2, DefineGlobalIs
<1>4. CASE InScope(Fn(p))
  <2>1. q = MarkInitialized(p) /\ Waits(Fn(p)) /\ x = n
    BY <1>3, <1>4 DEF Awaits
  <2>2. /\ Moved(d, H, q, K, Q, x) /\ Fn(q).depth = Fn(p).depth
        /\ Len(Fn(q).locals) = Len(Fn(p).locals) /\ Slots(Fn(q)) = Len(Fn(p).locals)
    BY SMTT(30), <1>4, <2>1, MovedMarks
  <2>. QED
    BY <2>1, <2>2 DEF Defined
<1>5. CASE ~ InScope(Fn(p))
  <2>1. /\ q = Emit(p, WithOne("DEFINE_GLOBAL", k))
        /\ Slots(Fn(p)) = n /\ x = n + 1 /\ IsName(Fn(p), k)
    BY <1>3, <1>5 DEF Awaits
  <2>2. "DEFINE_GLOBAL" \in TwoByteOps /\ TwoSuits(Fn(p), "DEFINE_GLOBAL", k, x, n) /\ n # 0
    BY <1>2, <2>1 DEF TwoByteOps, TwoSuits
  <2>3. PICK L : Moved(d, H, q, L, Q, n) /\ Goes(p, K, q, L)
    BY <1>2, <2>1, <2>2, MovedOperand
  <2>4. Fn(q).locals = Fn(p).locals /\ Fn(q).depth = Fn(p).depth
    BY <2>3 DEF Goes, Level
  <2>5. Slots(Fn(q)) = n
    BY <2>1, <2>4 DEF Slots
  <2>. QED
    BY <2>3, <2>4, <2>5 DEF Defined
<1>. QED
  BY <1>4, <1>5

(* The value is in the local's slot, or OP_DEFINE_GLOBAL takes it.         *)
LEMMA VarDefinedBalances ==
  ASSUME CompilerInv, TextInv, BalanceInv, VarDefined
  PROVE  BalanceInv'
<1>. DEFINE q == Consume(parser, "SEMICOLON")  s == DefineGlobal(q, Top.global)
<1>1. todo # << >> /\ Top.at = "var_defined" /\ Then(s, << >>)
  BY DEF VarDefined, At, Return
<1>2. /\ Fine(parser) /\ text \in Texts /\ ScopesOK(Fn(parser)) /\ Top \in Calls
  BY <1>1, TopIs
<1>3. Top.global \in Bytes
  BY <1>1, <1>2 DEF Calls, PlainCalls, PrefixCalls, InFunction
<1>4. q = Consume(parser, "SEMICOLON") /\ s = DefineGlobal(q, Top.global)
  OBVIOUS
<1>. HIDE DEF q, s
<1>5. Mild(parser, q) /\ Fine(q) /\ q.fns = parser.fns /\ Fn(q) = Fn(parser)
  BY <1>2, <1>4, ReadMild, ReadIs
<1>6. Len(Fn(q).locals) >= 1
  BY <1>2, <1>5, FineFn DEF ScopesOK
<1>7. Mild(q, s) /\ Mild(parser, s)
  BY <1>2, <1>3, <1>4, <1>5, <1>6, DefineGlobalIs, MildTrans
<1>8. /\ Sc(Top) = 0 /\ Top.at \notin Bases /\ Top.at \notin Flexible /\ Top.at \notin Holders
      /\ Top.at \notin ExprCalls /\ Top.at \notin Bodied
  BY <1>1, DefinedIs
<1>9. ASSUME Live(s) PROVE TypedBy(Fn(s), << >> \o Tail(todo))
  <2>1. PICK H, O, e, r : Begun(H, O, e, r)
    BY <1>1, <1>7, <1>9, Begins
  <2>2. /\ r[1].in \in Nat /\ r[1].depth \in Nat /\ e = r[1].in
        /\ Fn(parser).depth = r[1].depth + Sc(Top)
    BY <1>1, <1>8, <2>1, BegunTop
  <2>3. FitsStatement(Fn(parser), Top, r[1].in, r[1].out)
    BY <1>1, <2>1, BegunFits
  <2>4. Awaits(Fn(parser), e, Top.global)
    BY <1>1, <2>2, <2>3 DEF Awaits, Waits, InScope, FitsStatement
  <2>5. Moved(r[1].depth, H, q, H, O, e)
    <3>1. Now(H, parser, H, O, e) /\ LocalsTo(Fn(parser), 1, 0)
      BY <1>1, <2>1, NowBegins, BegunSlots
    <3>2. Moved(r[1].depth, H, parser, H, O, e)
      BY <3>1, MovedNow
    <3>. QED
      BY <1>5, <3>2, MovedReads
  <2>. DEFINE n == Len(Fn(q).locals)
  <2>6. Deep(r[1].depth, Fn(q)) /\ Fn(q).depth = r[1].depth /\ Awaits(Fn(q), e, Top.global)
    BY <1>5, <1>8, <2>2, <2>4 DEF Deep
  <2>. HIDE DEF n
  <2>7. PICK L : Defined(r[1].depth, H, q, s, L, O, n)
    <3>1. n = Len(Fn(q).locals)
      BY DEF n
    <3>. DEFINE d == r[1].depth  k == Top.global
    <3>2. /\ d \in Nat /\ Moved(d, H, q, H, O, e) /\ Deep(d, Fn(q)) /\ k \in Bytes
          /\ Awaits(Fn(q), e, k) /\ s = DefineGlobal(q, k)
      BY <1>3, <1>4, <2>2, <2>5, <2>6
    <3>. HIDE DEF d, k
    <3>3. \E L : Defined(d, H, q, s, L, O, n)
      BY <3>1, <3>2, MovedDefines
    <3>. QED
      BY <3>3 DEF d
  <2>8. Held(O, O, {})
    BY <1>1, <1>8, HeldSame
  <2>. QED
    BY <1>1, <1>8, <2>1, <2>6, <2>7, <2>8, MovedZero DEF Defined
<1>. QED
  BY <1>1, <1>7, <1>9, BalanceNext

(* There is no function among no constants.                                *)
LEMMA NoFunction == Functions(<< >>) = {}
<1>1. DOMAIN << >> = {}
  OBVIOUS
<1>. QED
  BY <1>1 DEF Functions

(* A function of no code is certified, with its slot.                      *)
LEMMA EmptyCert ==
  ASSUME NEW f, f.code = << >>, f.arity = 0, NEW H, H = {<<0, 1>>}
  PROVE  Cert(f, H, {}, 1)
<1>1. Len(f.code) = 0
  OBVIOUS
<1>2. H \subseteq (0 .. Len(f.code)) \X (Nat \ {0})
  BY <1>1
<1>3. \A s, t \in H : s[1] = t[1] => s = t
  OBVIOUS
<1>4. <<0, f.arity + 1>> \in H /\ <<Len(f.code), 1>> \in H
  <2>1. f.arity + 1 = 1
    OBVIOUS
  <2>. QED
    BY <1>1, <2>1
<1>5. \A s \in H : ~ (s[1] < Len(f.code))
  BY <1>1
<1>. QED
  BY <1>2, <1>3, <1>4, <1>5 DEF Cert

(* The record of one call alone.                                           *)
LEMMA OneRec ==
  ASSUME NEW r, NEW s \in RecSet, r = <<s>>
  PROVE  r \in Seq(RecSet) /\ Len(r) = 1 /\ r[1] = s
  OBVIOUS

(* So it is when it begins, for a call that compiles it.                   *)
LEMMA NewTyped ==
  ASSUME NEW f, Typed(f), f.code = << >>, f.arity = 0, Len(f.locals) = 1, f.locals[1].depth = 0,
         NEW c \in Calls, c.at \in Bases, NEW d \in Nat, f.depth = d,
         FitsScope(f, c, 1, d), NEW t \in Seq(Calls), Len(t) >= 1, t[1] = c
  PROVE  TypedBy(f, t)
<1>. DEFINE H == {<<0, 1>>}  s == Rec(c, 1, 1, d)  r == <<s>>
<1>1. Cert(f, H, {}, 1)
  BY EmptyCert
<1>2. s \in RecSet /\ s.call = c /\ s.in = 1 /\ s.out = 1 /\ s.depth = d
  BY DEF RecSet, Rec
<1>. HIDE DEF s, H
<1>3. r \in Seq(RecSet) /\ Len(r) = 1 /\ r[1] = s
  BY <1>2, OneRec
<1>. HIDE DEF r
<1>4. LocalsTo(f, 1, 0)
  <2>1. 1 \in 1 .. Len(f.locals) /\ \A i \in 1 + 1 .. Len(f.locals) : FALSE
    OBVIOUS
  <2>2. \A i \in 1 .. 1 : i = 1
    OBVIOUS
  <2>. QED
    BY <2>1, <2>2 DEF LocalsTo
<1>5. /\ c.at \notin ExprCalls /\ c.at \notin Takers /\ c.at \in Flexible /\ c.at \notin Scoped
      /\ c.at \notin Holders
  BY DEF Bases, InFunction, ExprCalls, Immediate, PrefixCalls, Takers, Flexible, Scoped, Holders
<1>6. Fits(f, H, s)
  <2>1. FitsStatement(f, c, 1, 1) /\ FitsMarks(f, H, c, 1)
    BY DEF Bases, InFunction, FitsStatement, FitsMarks
  <2>2. Fits(f, H, Rec(c, 1, 1, d))
    BY <1>5, <2>1, FitsOther
  <2>. QED
    BY <2>2 DEF s
<1>7. Arranged(r)
  <2>1. \A i \in 1 .. Len(r) - 1 : FALSE
    BY <1>3
  <2>2. \A i \in 1 .. Len(r) : i = 1 /\ i = Len(r) /\ \A j \in 1 .. i - 1 : FALSE
    BY <1>3
  <2>. QED
    BY <1>2, <1>3, <2>1, <2>2 DEF Arranged
<1>8. Stack(f, H, r)
  <2>1. \A i \in 1 .. Len(r) : i = 1
    BY <1>3
  <2>. QED
    BY <1>3, <1>6, <1>7, <2>1 DEF Stack
<1>9. TopOK(f, 1, r[1])
  BY <1>2, <1>3, <1>5 DEF TopOK, Sc
<1>10. Matches(r, t)
  <2>1. \A i \in 1 .. Len(r) : i = 1
    BY <1>3
  <2>. QED
    BY <1>2, <1>3, <2>1 DEF Matches
<1>11. Typing(f, H, {}, 1, r)
  BY <1>1, <1>4, <1>8, <1>9 DEF Typing
<1>. QED
  BY <1>10, <1>11 DEF TypedBy

(* A function begins: those declared stay.                                 *)
LEMMA BeginFuncIs ==
  ASSUME NEW p, Fine(p), NEW q, q = [p EXCEPT !.fns = Append(@, NewFunc("FUNC"))]
  PROVE  /\ Fine(q) /\ Made(q) \subseteq Made(p) /\ q.error = p.error
         /\ Fn(q) = NewFunc("FUNC")
<1>1. /\ Fine(q) /\ Len(q.fns) = Len(p.fns) + 1 /\ Fn(q) = NewFunc("FUNC")
      /\ \A n \in 1 .. Len(p.fns) : q.fns[n] = p.fns[n]
  BY NewFuncKeeps
<1>2. Len(p.fns) \in Nat /\ Fn(q) = q.fns[Len(q.fns)]
  BY <1>1, FineFn
<1>3. q.error = p.error
  <2>1. PICK S : Sound(p, S)
    BY DEF Fine
  <2>. QED
    BY <2>1 DEF Sound, ParserSet
<1>4. Functions(NewFunc("FUNC").consts) = {}
  BY NoFunction DEF NewFunc
<1>5. \A n \in 1 .. Len(q.fns) : n \in 1 .. Len(p.fns) \/ n = Len(q.fns)
  BY <1>1, <1>2
<1>6. Made(q) \subseteq Made(p)
  <2>. SUFFICES ASSUME NEW n \in 1 .. Len(q.fns), NEW g \in Functions(q.fns[n].consts)
                PROVE  g \in Made(p)
    BY DEF Made
  <2>1. n \in 1 .. Len(p.fns) /\ q.fns[n] = p.fns[n]
    BY <1>1, <1>2, <1>4, <1>5
  <2>. QED
    BY <2>1 DEF Made
<1>. QED
  BY <1>1, <1>3, <1>6

(* The record of the function that begins.                                 *)
LEMMA NewFuncParts ==
  /\ NewFunc("FUNC").code = << >> /\ NewFunc("FUNC").arity = 0 /\ NewFunc("FUNC").depth = 0
  /\ NewFunc("FUNC").type = "FUNC"
  /\ Len(NewFunc("FUNC").locals) = 1 /\ NewFunc("FUNC").locals[1].depth = 0
<1>. DEFINE l == Local(None, 0)
<1>1. l.depth = 0
  BY DEF Local
<1>2. NewFunc("FUNC").locals = <<l>>
  BY DEF NewFunc
<1>. HIDE DEF l
<1>3. Len(<<l>>) = 1 /\ <<l>>[1] = l
  OBVIOUS
<1>. QED
  BY <1>1, <1>2, <1>3 DEF NewFunc

(* func_declaration begins a function, with its slot and no code.          *)
LEMMA FuncDeclarationBalances ==
  ASSUME CompilerInv, TextInv, BalanceInv, FuncDeclaration
  PROVE  BalanceInv'
<1>. DEFINE v == ParseVariable(parser)
            q == MarkInitialized(v)
            o == [q EXCEPT !.fns = Append(@, NewFunc("FUNC"))]
            r == BeginScope(o)
            s == Consume(r, "L_PAREN")
            c == [at |-> IF Check(s, "R_PAREN") THEN "func_body" ELSE "parameter",
                  global |-> VariableId(parser)]
            t == <<c>> \o Tail(todo)
<1>1. /\ todo # << >> /\ Top.at = "func_declaration" /\ Fine(parser) /\ text \in Texts
      /\ ScopesOK(Fn(parser)) /\ Settled(Fn(parser)) /\ todo \in Seq(Calls)
      /\ Then(s, <<c>>)
  BY TopIs DEF FuncDeclaration, At, ExprCalls, Immediate, PrefixCalls, CompilerInv, TodoOK
<1>2. c \in Calls /\ c.at \in {"func_body", "parameter"}
  <2>1. c \in [at : {"var_defined"} \cup InFunction, global : Bytes]
    BY <1>1, VariableIdIsByte DEF InFunction
  <2>. QED
    BY <2>1 DEF Calls
<1>3. text' = text /\ parser' = s /\ todo' = t
  BY <1>1 DEF Then
<1>4. t \in Seq(Calls) /\ Len(t) >= 1 /\ t[1] = c
  <2>. HIDE DEF c
  <2>1. Tail(todo) \in Seq(Calls)
    BY <1>1
  <2>2. t \in Seq(Calls) /\ Len(t) = Len(Tail(todo)) + 1 /\ t[1] = c /\ Len(Tail(todo)) \in Nat
    BY <1>2, <2>1
  <2>. QED
    BY <2>2
<1>01. v = ParseVariable(parser)
  OBVIOUS
<1>02. q = MarkInitialized(v)
  OBVIOUS
<1>03. o = [q EXCEPT !.fns = Append(@, NewFunc("FUNC"))]
  OBVIOUS
<1>04. r = BeginScope(o)
  OBVIOUS
<1>05. s = Consume(r, "L_PAREN")
  OBVIOUS
<1>. HIDE DEF c, t, v, q, o, r, s
<1>5. Mild(parser, v) /\ Fine(v) /\ Len(Fn(v).locals) >= 1
  <2>1. Mild(parser, v) /\ Fine(v)
    BY <1>01, <1>1, ParseVariableIs
  <2>2. ScopesOK(Fn(v))
    BY <1>01, <1>1, ParseVariableKeeps
  <2>. QED
    BY <2>1, <2>2, FineFn DEF ScopesOK
<1>6. Mild(v, q) /\ Fine(q)
  BY <1>02, <1>1, <1>5, MarkInitializedIs
<1>7. Mild(parser, q)
  BY <1>5, <1>6, MildTrans
<1>8. Fine(o) /\ Made(o) \subseteq Made(q) /\ o.error = q.error /\ Fn(o) = NewFunc("FUNC")
  BY <1>03, <1>6, BeginFuncIs
<1>9. Shifts(o, r) /\ Fn(r).locals = Fn(o).locals /\ Fn(r).depth = Fn(o).depth + 1 /\ Fine(r)
  BY <1>04, <1>8, BeginScopeIs DEF Shifts
<1>10. Mild(r, s) /\ Fine(s) /\ s.fns = r.fns /\ Fn(s) = Fn(r)
  BY <1>05, <1>1, <1>9, ReadMild, ReadIs
<1>11. Mild(o, s)
  BY <1>9, <1>10, MildTrans DEF Shifts
<1>12. ~ s.error /\ Plain => \E D : Good(D) /\ Made(s) \subseteq D
  <2>1. Made(s) \subseteq Made(parser) /\ (parser.error => s.error)
    BY <1>7, <1>8, <1>11 DEF Mild, Tame
  <2>. QED
    BY <2>1 DEF BalanceInv
<1>13. TypedBy(Fn(s), t)
  <2>. DEFINE f == Fn(s)
  <2>1. /\ Typed(f) /\ f.code = << >> /\ f.arity = 0 /\ f.type = "FUNC" /\ f.depth = 1
        /\ Len(f.locals) = 1 /\ f.locals[1].depth = 0
    BY <1>8, <1>9, <1>10, NewFuncParts DEF Shifts, SameCode
  <2>. HIDE DEF f
  <2>2. c.at \in Bases /\ FitsScope(f, c, 1, 1)
    BY <1>2, <2>1 DEF Bases, InFunction, FitsScope, Scoped
  <2>. QED
    BY <1>2, <1>4, <2>1, <2>2, NewTyped DEF f
<1>14. t # << >>
  BY <1>4
<1>. QED
  BY <1>3, <1>12, <1>13, <1>14, BalanceAfter

(* A parameter is counted.                                                 *)
LEMMA CountIs ==
  ASSUME NEW p, Fine(p), NEW a \in Nat, NEW q, q = WithFn(p, [Fn(p) EXCEPT !.arity = a])
  PROVE  /\ Mild(p, q) /\ Fine(q) /\ q.error = p.error /\ Typed(Fn(p)) /\ Typed(Fn(q))
         /\ Fn(q).arity = a /\ Fn(q).code = Fn(p).code /\ Fn(q).consts = Fn(p).consts
         /\ Fn(q).type = Fn(p).type /\ Level(Fn(p), Fn(q))
<1>1. PICK S : Sound(p, S)
  BY DEF Fine
<1>. DEFINE f == [Fn(p) EXCEPT !.arity = a]
<1>2. Fn(p) \in FnSet(S) /\ Typed(Fn(p)) /\ q = WithFn(p, f)
  BY <1>1, FnParts
<1>3. /\ f \in FnSet(S) /\ f.arity = a /\ f.code = Fn(p).code /\ f.consts = Fn(p).consts
      /\ f.type = Fn(p).type /\ f.locals = Fn(p).locals /\ f.depth = Fn(p).depth
  BY <1>2 DEF FnSet
<1>. HIDE DEF f
<1>4. Functions(f.consts) = Functions(Fn(p).consts)
  BY <1>3
<1>5. Mild(p, q) /\ Fn(q) = f /\ q.error = p.error
  BY <1>1, <1>2, <1>3, <1>4, MildWith, TameWith
<1>6. Fine(q)
  BY <1>5 DEF Mild, Tame
<1>7. Typed(f)
  BY <1>2, <1>3 DEF Typed
<1>. QED
  BY <1>2, <1>3, <1>5, <1>6, <1>7 DEF Level

(* The call that compiles a function has none of its calls below.          *)
LEMMA BaseAlone ==
  ASSUME CompilerInv, todo # << >>, Top.at \in Bases,
         NEW H, NEW O, NEW e, NEW r, Begun(H, O, e, r)
  PROVE  O = {} /\ Arranged(r) /\ Len(r) = 1
<1>1. /\ Typing(Fn(parser), H, O, e, r) /\ Matches(r, todo) /\ Arranged(r)
  BY DEF Begun, Typing, Stack
<1>2. r[1].call = Top
  BY BegunTop
<1>3. Len(r) = 1
  <2>1. Len(r) \in Nat /\ Len(r) >= 1
    BY <1>1 DEF Arranged
  <2>2. 1 \in 1 .. Len(r)
    BY <2>1
  <2>3. r[1].call.at \in Bases <=> 1 = Len(r)
    BY <1>1, <2>2 DEF Arranged
  <2>. QED
    BY <1>2, <2>3
<1>4. Holds(Top) = {}
  <2>1. Top \in Calls /\ Top.at \notin Holders
    BY TopIs DEF Bases, InFunction, Holders
  <2>. QED
    BY <2>1, HoldsNothing DEF Holders
<1>5. HeldIn(r) = {}
  <2>1. \A i \in 1 .. Len(r) : i = 1
    BY <1>3
  <2>. QED
    BY <1>2, <1>4, <2>1 DEF HeldIn
<1>6. O = {}
  BY <1>1, <1>5 DEF Typing
<1>. QED
  BY <1>1, <1>3, <1>6

(* It goes on, with the certificate made anew.                             *)
LEMMA BaseGoing ==
  ASSUME CompilerInv, todo # << >>, Top.at \in Bases,
         NEW H, NEW O, NEW e, NEW r, Begun(H, O, e, r),
         NEW d, NEW L, NEW q, NEW K, NEW Q, NEW x, Moved(d, L, q, K, Q, x)
  PROVE  Going(Fn(parser), H, O, e, r, Fn(q), K, Q, x)
<1>1. Arranged(r) /\ Len(r) = 1
  BY BaseAlone
<1>2. Typing(Fn(parser), H, O, e, r) /\ Matches(r, todo)
  BY DEF Begun
<1>3. todo \in Seq(Calls)
  BY DEF CompilerInv, TodoOK
<1>4. Typed(Fn(q)) /\ Cert(Fn(q), K, Q, x) /\ LocalsTo(Fn(q), 1, 0)
  BY DEF Moved
<1>5. Rest(Fn(q), K, r)
  <2>1. \A i \in 2 .. Len(r) : FALSE
    BY <1>1
  <2>. QED
    BY <1>1, <2>1 DEF Rest
<1>. QED
  BY <1>2, <1>3, <1>4, <1>5 DEF Going

(* A parameter is a slot more from the start.                              *)
LEMMA MovedCounts ==
  ASSUME CompilerInv, todo # << >>, Top.at \in InFunction,
         NEW H, NEW O, NEW e, NEW r, Begun(H, O, e, r),
         NEW q, q = WithFn(parser, [Fn(parser) EXCEPT !.arity = Fn(parser).arity + 1])
  PROVE  \E K : Moved(1, {}, q, K, {}, e + 1)
<1>1. /\ Fine(parser) /\ text \in Texts /\ Typed(Fn(parser))
      /\ Cert(Fn(parser), H, O, e) /\ e \in Nat /\ e # 0
  BY BegunCert
<1>2. O = {}
  BY BaseAlone DEF Bases
<1>3. Fn(parser).type # "SCRIPT"
  BY BegunFits DEF FitsScope
<1>. DEFINE a == Fn(parser).arity + 1  f == Fn(parser)  g == Fn(q)
<1>4. Fn(parser).arity \in Nat /\ a \in Nat
  BY <1>1, FineParts
<1>5. /\ Mild(parser, q) /\ Fine(q) /\ Typed(g) /\ g.arity = f.arity + 1 /\ g.code = f.code
      /\ g.consts = f.consts /\ g.type = f.type /\ Level(f, g)
  <2>1. q = WithFn(parser, [Fn(parser) EXCEPT !.arity = a]) /\ a = f.arity + 1
    OBVIOUS
  <2>. HIDE DEF a
  <2>. QED
    BY <1>1, <1>4, <2>1, CountIs
<1>6. LocalsTo(f, 1, 0)
  BY BegunSlots
<1>. HIDE DEF f, g, a
<1>7. Cert(g, Raised(H), {}, e + 1)
  BY <1>1, <1>2, <1>3, <1>4, <1>5, RaisedCert DEF f
<1>8. Onto(f, {}, g, Raised(H))
  <2>1. Len(f.code) <= Len(g.code) /\ Len(f.consts) <= Len(g.consts)
    BY <1>1, <1>5 DEF Typed, f
  <2>2. Extends(f, g)
    BY <1>5, <2>1 DEF Extends
  <2>. QED
    BY <1>5, <2>2 DEF Onto
<1>9. LocalsTo(g, 1, 0) /\ \A n, y \in Nat : LocalsTo(f, n, y) => LocalsTo(g, n, y)
  BY <1>5, <1>6 DEF LocalsTo, Level
<1>10. e + 1 \in Nat /\ e + 1 # 0
  BY <1>1
<1>11. Moved(1, {}, q, Raised(H), {}, e + 1)
  BY <1>1, <1>5, <1>7, <1>8, <1>9, <1>10 DEF Moved, f, g
<1>. QED
  BY <1>11

(* A parameter is a variable that has its value.                           *)
LEMMA MovedDeclares ==
  ASSUME NEW d \in Nat, NEW H, NEW p, NEW K, NEW Q, NEW x, Moved(d, H, p, K, Q, x),
         Slots(Fn(p)) = Len(Fn(p).locals), x = Len(Fn(p).locals) + 1, Deep(d, Fn(p)),
         NEW v, v = ParseVariable(p), NEW q, q = DefineGlobal(v, VariableId(p)), ~ q.error
  PROVE  \E L, n : Defined(d, H, p, q, L, Q, n)
<1>1. Fine(p) /\ text \in Texts /\ LocalsTo(Fn(p), 1, 0)
  BY DEF Moved
<1>2. Mild(p, v) /\ Fine(v)
  BY <1>1, ParseVariableIs
<1>3. VariableId(p) \in Bytes
  BY <1>1, VariableIdIsByte
<1>4. ~ InScope(Fn(v)) => q = Emit(v, WithOne("DEFINE_GLOBAL", VariableId(p)))
  BY <1>2, InScopeIs DEF DefineGlobal, WithOne
<1>5. ~ v.error
  <2>1. CASE v.error
    <3>1. q = MarkInitialized(v) \/ q = Emit(v, WithOne("DEFINE_GLOBAL", VariableId(p)))
      BY DEF DefineGlobal, WithOne
    <3>2. q.error
      <4>1. IsParser(v)
        BY <1>1, <1>2, FineIsParser
      <4>2. Still(v, q)
        BY <4>1, HelpersStill
      <4>. QED
        BY <2>1, <4>2 DEF Still
    <3>. QED
      BY <3>2
  <2>. QED
    BY <2>1
<1>. DEFINE k == VariableId(p)
<1>6. Moved(d, H, v, K, Q, x) /\ Parsed(Fn(p), Fn(v), k)
  BY <1>5, MovedParses
<1>. HIDE DEF k
<1>7. Awaits(Fn(v), x, k)
  <2>1. Slots(Fn(v)) = Len(Fn(p).locals)
    BY <1>6, ParsedSlots
  <2>2. InScope(Fn(v)) <=> InScope(Fn(p))
    BY <1>6 DEF InScope, Parsed
  <2>3. Len(Fn(p).locals) \in Nat
    BY <1>1, FineFn
  <2>4. CASE InScope(Fn(p))
    <3>1. Len(Fn(v).locals) = Len(Fn(p).locals) + 1
      BY <1>6, <2>4 DEF Parsed
    <3>. QED
      BY <2>1, <2>2, <2>3, <2>4, <3>1 DEF Awaits, Waits
  <2>5. CASE ~ InScope(Fn(p))
    <3>1. Fn(v).locals = Fn(p).locals /\ IsName(Fn(v), k)
      BY <1>6, <2>5 DEF Parsed
    <3>. QED
      BY <2>1, <2>2, <2>5, <3>1 DEF Awaits
  <2>. QED
    BY <2>4, <2>5
<1>8. Deep(d, Fn(v)) /\ Fn(v).depth = Fn(p).depth
  BY <1>6 DEF Deep, Parsed
<1>. DEFINE n == Len(Fn(v).locals)
<1>9. k \in Bytes /\ q = DefineGlobal(v, k) /\ n = Len(Fn(v).locals)
  BY <1>3 DEF k
<1>. HIDE DEF n
<1>10. \E L : Defined(d, H, v, q, L, Q, n)
  BY <1>6, <1>7, <1>8, <1>9, MovedDefines
<1>11. PICK L : Defined(d, H, v, q, L, Q, n)
  BY <1>10
<1>12. Defined(d, H, p, q, L, Q, n)
  BY <1>8, <1>11 DEF Defined
<1>. QED
  BY <1>12

(* function counts a parameter, whose slot is there from the start.        *)
LEMMA ParameterBalances ==
  ASSUME CompilerInv, TextInv, BalanceInv, Parameter
  PROVE  BalanceInv'
<1>. DEFINE arity == Fn(parser).arity + 1
            o == WithFn(parser, [Fn(parser) EXCEPT !.arity = arity])
            q == IF arity > ByteMax THEN ErrorAt(o) ELSE o
            v == ParseVariable(q)
            p == DefineGlobal(v, VariableId(q))
            s == IF Check(p, "COMMA") THEN Advance(p) ELSE p
            a == IF Check(p, "COMMA") THEN Top ELSE [Top EXCEPT !.at = "func_body"]
<1>1. /\ todo # << >> /\ Top.at = "parameter" /\ Fine(parser) /\ text \in Texts
      /\ Top \in Calls /\ ScopesOK(Fn(parser)) /\ Settled(Fn(parser))
  BY TopIs DEF Parameter, At, ExprCalls, Immediate, PrefixCalls
<1>2. Then(s, <<a>>)
  BY DEF Parameter
<1>3. a \in Calls /\ a.at \in {"parameter", "func_body"}
  <2>0. Top \in [at : {"var_defined"} \cup InFunction, global : Bytes]
    BY <1>1 DEF Calls, PlainCalls, PrefixCalls, InFunction
  <2>1. a \in [at : {"var_defined"} \cup InFunction, global : Bytes]
    BY <2>0 DEF InFunction
  <2>2. a \in Calls
    BY <2>1 DEF Calls
  <2>3. a.at \in {"parameter", "func_body"}
    BY <1>1, <2>0
  <2>. QED
    BY <2>2, <2>3
<1>01. o = WithFn(parser, [Fn(parser) EXCEPT !.arity = arity]) /\ arity = Fn(parser).arity + 1
  OBVIOUS
<1>02. q = o \/ q = ErrorAt(o)
  OBVIOUS
<1>03. v = ParseVariable(q)
  OBVIOUS
<1>04. p = DefineGlobal(v, VariableId(q))
  OBVIOUS
<1>05. s = p \/ s = Advance(p)
  OBVIOUS
<1>. HIDE DEF o, q, v, p, s, a
<1>4. Mild(parser, o) /\ Fine(o)
  <2>1. arity \in Nat
    BY <1>1, FineParts
  <2>. HIDE DEF arity
  <2>. QED
    BY <1>01, <1>1, <2>1, CountIs
<1>5. Mild(o, q) /\ Fine(q) /\ q.fns = o.fns
  BY <1>02, <1>1, <1>4, ReadMild, ReadIs
<1>6. Mild(q, v) /\ Fine(v) /\ Len(Fn(v).locals) >= 1
  <2>1. Mild(q, v) /\ Fine(v)
    BY <1>03, <1>1, <1>5, ParseVariableIs
  <2>2. ScopesOK(Fn(q)) /\ Settled(Fn(q))
    <3>1. Fn(q).locals = Fn(parser).locals /\ Fn(q).depth = Fn(parser).depth
      <4>1. arity \in Nat
        BY <1>1, FineParts
      <4>. HIDE DEF arity
      <4>2. Level(Fn(parser), Fn(o))
        BY <1>01, <1>1, <4>1, CountIs
      <4>3. Fn(q) = Fn(o)
        BY <1>5 DEF Fn
      <4>. QED
        BY <4>2, <4>3 DEF Level
    <3>. QED
      BY <1>1, <3>1 DEF ScopesOK, Settled
  <2>3. ScopesOK(Fn(v))
    BY <1>03, <1>1, <1>5, <2>2, ParseVariableKeeps
  <2>. QED
    BY <2>1, <2>3, FineFn DEF ScopesOK
<1>7. Mild(v, p) /\ Fine(p)
  <2>1. VariableId(q) \in Bytes
    BY <1>1, <1>5, VariableIdIsByte
  <2>2. Mild(v, p)
    BY <1>04, <1>1, <1>6, <2>1, DefineGlobalIs
  <2>. QED
    BY <2>2 DEF Mild, Tame
<1>8. Mild(p, s) /\ s.fns = p.fns
  BY <1>05, <1>1, <1>7, ReadMild, ReadIs
<1>9. Mild(q, s) /\ Mild(parser, s)
  <2>1. Mild(parser, q) /\ Mild(q, p)
    BY <1>4, <1>5, <1>6, <1>7, MildTrans
  <2>. QED
    BY <1>8, <2>1, MildTrans
<1>10. ASSUME Live(s) PROVE TypedBy(Fn(s), <<a>> \o Tail(todo))
  <2>1. PICK H, O, e, r : Begun(H, O, e, r)
    BY <1>1, <1>9, <1>10, Begins
  <2>2. Top.at \in InFunction /\ Top.at \in Bases /\ Top.at \notin ExprCalls \cup Takers /\ Sc(Top) = 0
    BY <1>1 DEF InFunction, Bases, ExprCalls, Immediate, PrefixCalls, Takers, Sc, Scoped
  <2>3. PICK K : Moved(1, {}, o, K, {}, e + 1)
    BY <1>01, <1>1, <2>1, <2>2, MovedCounts
  <2>4. Moved(1, {}, q, K, {}, e + 1) /\ Fn(q) = Fn(o)
    BY <1>5, <2>3, MovedReads
  <2>5. /\ e = Len(Fn(parser).locals) /\ Slots(Fn(parser)) = e
        /\ Fn(parser).depth = r[1].depth + Sc(Top) /\ r[1].depth \in Nat
    BY <1>1, <2>1, <2>2, BegunTop, BegunSlots DEF Takers
  <2>6. FitsScope(Fn(parser), Top, r[1].out, r[1].depth)
    BY <1>1, <2>1, BegunFits
  <2>7. r[1].depth = 1 /\ Fn(parser).type # "SCRIPT"
    BY <2>2, <2>6 DEF FitsScope
  <2>8. Level(Fn(parser), Fn(q)) /\ Fn(q).type = Fn(parser).type
    <3>1. arity \in Nat
      BY <1>1, FineParts
    <3>. HIDE DEF arity
    <3>2. Level(Fn(parser), Fn(o)) /\ Fn(o).type = Fn(parser).type
      BY <1>01, <1>1, <3>1, CountIs
    <3>. QED
      BY <2>4, <3>2
  <2>9. /\ Slots(Fn(q)) = Len(Fn(q).locals) /\ e + 1 = Len(Fn(q).locals) + 1
        /\ Fn(q).depth = 1 /\ Deep(1, Fn(q))
    BY <2>2, <2>5, <2>7, <2>8 DEF Level, Slots, Deep
  <2>10. ~ p.error
    BY <1>8, <1>10 DEF Live, Mild
  <2>11. PICK L, n : Defined(1, {}, q, p, L, {}, n)
    <3>. DEFINE x == e + 1
    <3>1. Moved(1, {}, q, K, {}, x) /\ x = Len(Fn(q).locals) + 1 /\ 1 \in Nat
      BY <2>4, <2>9
    <3>. HIDE DEF x
    <3>. QED
      BY <1>03, <1>04, <2>9, <2>10, <3>1, MovedDeclares
  <2>12. Moved(1, {}, s, L, {}, n) /\ Fn(s) = Fn(p)
    BY <1>8, <2>11, MovedReads DEF Defined
  <2>13. Going(Fn(parser), H, O, e, r, Fn(s), L, {}, n)
    BY <1>1, <2>1, <2>2, <2>12, BaseGoing
  <2>14. n \in Nat /\ Len(Fn(s).locals) = n /\ Fn(s).depth = 1
    BY <2>9, <2>11, <2>12 DEF Defined, Moved
  <2>15. Fn(s).type # "SCRIPT"
    <3>1. Onto(Fn(parser), {}, Fn(s), L)
      BY <2>12 DEF Moved
    <3>. QED
      BY <2>7, <3>1 DEF Onto
  <2>. DEFINE c == Rec(a, n, r[1].out, r[1].depth)
  <2>16. /\ a.at \in Bases /\ a.at \in InFunction /\ a.at \notin Scoped /\ a.at \in Flexible
         /\ a.at \notin ExprCalls /\ a.at \notin Takers
    BY <1>3 DEF Bases, InFunction, Scoped, Flexible, ExprCalls, Immediate, PrefixCalls, Takers
  <2>17. Fits(Fn(s), L, c)
    <3>1. FitsStatement(Fn(s), a, n, r[1].out) /\ FitsMarks(Fn(s), L, a, n)
      BY <1>3 DEF FitsStatement, FitsMarks
    <3>2. FitsScope(Fn(s), a, r[1].out, r[1].depth)
      BY <1>3, <2>7, <2>15, <2>16 DEF FitsScope, InFunction
    <3>. QED
      BY <2>16, <3>1, <3>2, FitsOther
  <2>18. TopOK(Fn(s), n, c)
    <3>1. c.call = a /\ c.depth = 1
      BY <2>7 DEF Rec
    <3>. HIDE DEF c
    <3>. QED
      BY <2>14, <2>16, <3>1 DEF TopOK, Sc
  <2>19. Held({}, O, Holds(a))
    BY DEF Held
  <2>20. c = Rec(a, n, r[1].out, r[1].depth)
    OBVIOUS
  <2>. HIDE DEF c
  <2>. QED
    BY <1>3, <2>2, <2>13, <2>14, <2>16, <2>17, <2>18, <2>19, <2>20, TypedOne
<1>. QED
  BY <1>1, <1>2, <1>9, <1>10, BalanceNext

(* parser_end_func: the function that ended is a constant of the one that  *)
(* declares it.                                                            *)
LEMMA FuncIs ==
  ASSUME NEW F
  PROVE  IsFunc(Func(F)) /\ Func(F).func = F
BY DEF IsFunc, Func

(* It is one of the function around, if the constants have room.           *)
LEMMA AddFunctionIs ==
  ASSUME NEW p, Fine(p), text \in Texts, NEW F, NEW v, v = Func(F), NEW q, q = AddConstant(p, v)
  PROVE  /\ Fine(q) /\ Made(q) \subseteq Made(p) \cup {F} /\ F \in Functions(Fn(q).consts)
         /\ p.error => q.error
         /\ Level(Fn(p), Fn(q))
<1>1. PICK R : Sound(p, R)
  BY DEF Fine
<1>. DEFINE S == R \cup {v}  c == Append(Fn(p).consts, v)  f == [Fn(p) EXCEPT !.consts = c]
            w == WithFn(p, f)
<1>2. Sound(p, S)
  BY <1>1, SoundMore
<1>3. /\ Fn(p) \in FnSet(S) /\ Typed(Fn(p)) /\ Fn(p).consts \in Seq(S)
      /\ DOMAIN Fn(p).consts = 1 .. Len(Fn(p).consts)
  BY <1>2, FnParts
<1>. DEFINE n == Len(Fn(p).consts)
<1>4. /\ c \in Seq(S) /\ c[n + 1] = v /\ \A i \in 1 .. n : c[i] = Fn(p).consts[i]
      /\ DOMAIN c = 1 .. n + 1 /\ n \in Nat
  BY <1>3, AppendProperties DEF Typed
<1>. HIDE DEF c
<1>5. f \in FnSet(S) /\ f.consts = c /\ Level(Fn(p), f)
  BY <1>3, <1>4 DEF FnSet, Level
<1>6. IsFunc(v) /\ v.func = F
  BY FuncIs
<1>7. F \in Functions(c)
  <2>1. n + 1 \in DOMAIN c
    BY <1>4
  <2>. QED
    BY <1>4, <1>6, <2>1 DEF Functions
<1>8. Functions(c) \subseteq Functions(Fn(p).consts) \cup {F}
  <2>. SUFFICES ASSUME NEW k \in DOMAIN c, IsFunc(c[k])
                PROVE  c[k].func \in Functions(Fn(p).consts) \cup {F}
    BY DEF Functions
  <2>1. CASE k = n + 1
    BY <1>4, <1>6, <2>1
  <2>2. CASE k # n + 1
    <3>1. k \in 1 .. n
      BY <1>4, <2>2
    <3>2. c[k] = Fn(p).consts[k] /\ k \in DOMAIN Fn(p).consts
      BY <1>3, <1>4, <3>1
    <3>. QED
      BY <3>2 DEF Functions
  <2>. QED
    BY <2>1, <2>2
<1>. HIDE DEF f, S, n
<1>9. /\ Sound(w, S) /\ Fn(w) = f /\ Len(w.fns) = Len(p.fns)
      /\ \A k \in 1 .. Len(p.fns) - 1 : w.fns[k] = p.fns[k]
      /\ w.fns[Len(p.fns)] = f
  BY <1>2, <1>5, SoundWith
<1>10. Len(p.fns) \in Nat /\ Fn(p) = p.fns[Len(p.fns)] /\ Len(p.fns) \in 1 .. Len(p.fns)
  BY <1>2, FnIs
<1>11. q = IF TooMany(p) THEN ErrorAt(w) ELSE w
  BY DEF AddConstant, c, f
<1>12. w.error = p.error
  <2>1. p \in ParserSet(S)
    BY <1>2 DEF Sound
  <2>. QED
    BY <2>1 DEF WithFn, ParserSet
<1>. HIDE DEF w
<1>13. Made(w) \subseteq Made(p) \cup {F}
  <2>. SUFFICES ASSUME NEW k \in 1 .. Len(w.fns), NEW g \in Functions(w.fns[k].consts)
                PROVE  g \in Made(p) \cup {F}
    BY DEF Made
  <2>1. CASE k = Len(p.fns)
    BY <1>5, <1>8, <1>9, <1>10, <2>1 DEF Made
  <2>2. CASE k # Len(p.fns)
    <3>1. k \in 1 .. Len(p.fns) - 1 /\ k \in 1 .. Len(p.fns)
      BY <1>9, <1>10, <2>2
    <3>. QED
      BY <1>9, <3>1 DEF Made
  <2>. QED
    BY <2>1, <2>2
<1>14. Fine(w)
  BY <1>9 DEF Fine
<1>15. Fine(q) /\ q.fns = w.fns /\ Fn(q) = Fn(w) /\ (w.error => q.error)
  BY <1>11, <1>14, ReadIs, ReadMild DEF Mild
<1>16. Made(q) = Made(w)
  BY <1>15 DEF Made
<1>. QED
  BY <1>5, <1>7, <1>9, <1>12, <1>13, <1>15, <1>16

(* A function that returns nil at its end is balanced (parser_end_func,    *)
(* tr_parser_compile).                                                     *)
LEMMA FunctionBalances ==
  ASSUME CompilerInv, BalanceInv, todo # << >>, Top.at \in Bases,
         NEW p, Mild(parser, p), Fine(p), p.fns = parser.fns, Live(p),
         NEW q, q = Emit(p, <<Opcode["NIL"], Opcode["RETURN"]>>),
         NEW F, F = Function(Fn(q).arity, Fn(q).code, Fn(q).consts),
         NEW isScript \in BOOLEAN, isScript => Top.at = "script"
  PROVE  Balanced(F, isScript)
<1>1. PICK H, O, e, r : Begun(H, O, e, r)
  BY Begins
<1>2. O = {}
  BY <1>1, BaseAlone
<1>. DEFINE f == Fn(parser)  b == <<Opcode["NIL"], Opcode["RETURN"]>>
<1>3. Typed(f) /\ Cert(f, H, O, e) /\ e \in Nat /\ Fine(parser)
  BY <1>1, BegunCert
<1>4. b \in Seq(Bytes)
  <2>1. Opcode["NIL"] \in Bytes /\ Opcode["RETURN"] \in Bytes
    BY OpcodeIsByte DEF Emitted
  <2>. QED
    BY <2>1
<1>5. Fn(p) = f
  BY DEF Fn
<1>6. /\ Fn(q).arity = f.arity /\ Fn(q).code = f.code \o b /\ Fn(q).consts = f.consts
  <2>1. q = Emit(p, b)
    OBVIOUS
  <2>. HIDE DEF b, f
  <2>. QED
    BY <1>4, <1>5, <2>1, EmitIs DEF Appends
<1>7. F = Function(f.arity, f.code \o b, f.consts)
  BY <1>6
<1>8. ASSUME isScript
      PROVE  f.type = "SCRIPT" /\ e = 1
  <2>1. Top.at = "script"
    BY <1>8
  <2>2. FitsScope(f, Top, r[1].out, r[1].depth)
    BY <1>1, BegunFits
  <2>3. f.type = "SCRIPT" /\ r[1].depth = 0
    BY <2>1, <2>2 DEF FitsScope
  <2>4. Top.at \notin ExprCalls \cup Takers /\ Sc(Top) = 0 /\ Top.at # "var_defined"
    BY <2>1 DEF ExprCalls, Immediate, PrefixCalls, Takers, Sc, Scoped
  <2>5. e = Len(f.locals) /\ f.depth = 0
    <3>1. /\ Top.at \notin ExprCalls \cup Takers => e = Len(f.locals)
          /\ f.depth = r[1].depth + Sc(Top)
      BY <1>1, BegunTop
    <3>. HIDE DEF f
    <3>. QED
      BY <2>3, <2>4, <3>1
  <2>6. LocalsTo(f, 1, 0) /\ Settled(f) /\ Len(f.locals) \in Nat
    BY <1>1, <2>4, BegunSlots
  <2>7. ScopesOK(f)
    BY TopIs
  <2>8. Len(f.locals) = 1
    <3>. HIDE DEF f
    <3>1. Len(f.locals) >= 1
      BY <2>6 DEF LocalsTo
    <3>2. SUFFICES ASSUME Len(f.locals) # 1
                   PROVE  FALSE
      OBVIOUS
    <3>6. 2 \in 1 .. Len(f.locals)
      <4>. DEFINE n == Len(f.locals)
      <4>1. n \in Nat /\ n >= 1 /\ n # 1
        BY <2>6, <3>1, <3>2
      <4>. HIDE DEF n
      <4>2. 2 \in 1 .. n
        BY <4>1
      <4>. QED
        BY <4>2 DEF n
    <3>3. f.locals[2].depth \in -1 .. 0 /\ f.locals[2].depth # -1
      BY <2>5, <2>6, <2>7, <3>6 DEF ScopesOK, Settled
    <3>4. 2 \in 1 + 1 .. Len(f.locals)
      BY <2>6, <3>6
    <3>5. f.locals[2].depth = -1 \/ f.locals[2].depth > 0
      BY <2>6, <3>4 DEF LocalsTo
    <3>. QED
      BY <3>3, <3>5
  <2>. QED
    BY <2>3, <2>5, <2>8
<1>. HIDE DEF f
<1>9. F = Function(f.arity, f.code \o <<Opcode["NIL"], Opcode["RETURN"]>>, f.consts)
  BY <1>7
<1>10. Cert(f, H, {}, e)
  BY <1>2, <1>3
<1>. HIDE DEF b
<1>. QED
  BY <1>3, <1>8, <1>9, <1>10, Finished

(* The script returns: nothing of it is left to compile.                   *)
LEMMA ScriptEndBalances ==
  ASSUME CompilerInv, TextInv, BalanceInv, ScriptEnd
  PROVE  BalanceInv'
<1>. DEFINE b == <<Opcode["NIL"], Opcode["RETURN"]>>
            p == Advance(parser)  o == Emit(p, b)  q == Consume(o, "EOF")
            t == << >> \o Tail(todo)
<1>1. /\ todo # << >> /\ Top.at = "script" /\ Fine(parser) /\ text \in Texts
      /\ todo \in Seq(Calls) /\ Then(q, << >>)
  BY TopIs DEF ScriptEnd, At, Return, CompilerInv, TodoOK
<1>2. text' = text /\ parser' = q /\ todo' = t
  BY <1>1 DEF Then
<1>3. t = << >>
  <2>1. Len(todo) = 1
    BY <1>1, TopReads
  <2>2. Tail(todo) \in Seq(Calls) /\ Len(Tail(todo)) = 0
    BY <1>1, <2>1
  <2>3. Tail(todo) = << >>
    BY <2>2, EmptySeq
  <2>. QED
    BY <2>3
<1>01. p = Advance(parser)
  OBVIOUS
<1>02. o = Emit(p, b) /\ b = <<Opcode["NIL"], Opcode["RETURN"]>>
  OBVIOUS
<1>03. q = Consume(o, "EOF")
  OBVIOUS
<1>4. b \in Seq(Bytes)
  <2>1. Opcode["NIL"] \in Bytes /\ Opcode["RETURN"] \in Bytes
    BY OpcodeIsByte DEF Emitted
  <2>. QED
    BY <2>1
<1>. HIDE DEF p, o, q, t, b
<1>5. Mild(parser, p) /\ Fine(p) /\ p.fns = parser.fns
  BY <1>01, <1>1, ReadMild, ReadIs
<1>6. Mild(p, o) /\ Fine(o)
  BY <1>02, <1>4, <1>5, EmitMild, EmitIs
<1>7. Mild(o, q) /\ q.fns = o.fns
  BY <1>03, <1>1, <1>6, ReadMild, ReadIs
<1>8. Mild(parser, q) /\ Mild(p, q)
  BY <1>5, <1>6, <1>7, MildTrans
<1>9. ~ q.error /\ Plain => \E D : Good(D) /\ Made(q) \subseteq D
  BY <1>8 DEF Mild, Tame, BalanceInv
<1>10. ASSUME Live(q)
       PROVE  Balanced(Function(Fn(q).arity, Fn(q).code, Fn(q).consts), TRUE)
  <2>1. Live(p)
    BY <1>8, <1>10, LiveBefore
  <2>2. Fn(q) = Fn(o)
    BY <1>7 DEF Fn
  <2>. DEFINE F == Function(Fn(o).arity, Fn(o).code, Fn(o).consts)
  <2>3. o = Emit(p, <<Opcode["NIL"], Opcode["RETURN"]>>)
    BY <1>02
  <2>4. F = Function(Fn(o).arity, Fn(o).code, Fn(o).consts)
    OBVIOUS
  <2>5. Top.at \in Bases
    BY <1>1 DEF Bases
  <2>. HIDE DEF F
  <2>6. Balanced(F, TRUE)
    BY <1>1, <1>5, <2>1, <2>3, <2>4, <2>5, FunctionBalances
  <2>. QED
    BY <2>2, <2>6 DEF F
<1>. QED
  BY <1>2, <1>3, <1>9, <1>10, BalanceAfter

(* The function around goes on without the one that ended.                 *)
LEMMA DropMade ==
  ASSUME NEW p, Fine(p), Len(p.fns) >= 2, NEW q, q = [p EXCEPT !.fns = SubSeq(@, 1, Len(@) - 1)]
  PROVE  Fine(q) /\ Made(q) \subseteq Made(p) /\ q.error = p.error
<1>1. /\ Fine(q) /\ Len(q.fns) = Len(p.fns) - 1
      /\ \A n \in 1 .. Len(p.fns) - 1 : q.fns[n] = p.fns[n]
  BY DropKeeps
<1>2. q.error = p.error
  <2>1. PICK S : Sound(p, S)
    BY DEF Fine
  <2>. QED
    BY <2>1 DEF Sound, ParserSet
<1>3. Len(p.fns) \in Nat
  BY FineFn
<1>4. Made(q) \subseteq Made(p)
  <2>. SUFFICES ASSUME NEW n \in 1 .. Len(q.fns), NEW g \in Functions(q.fns[n].consts)
                PROVE  g \in Made(p)
    BY DEF Made
  <2>1. n \in 1 .. Len(p.fns) - 1 /\ n \in 1 .. Len(p.fns)
    BY <1>1, <1>3
  <2>. QED
    BY <1>1, <2>1 DEF Made
<1>. QED
  BY <1>1, <1>2, <1>4

(* A function more that is balanced, if it has no other as a constant.     *)
LEMMA GoodMore ==
  ASSUME NEW D, Good(D), NEW F, Functions(F.consts) \subseteq D,
         Functions(F.consts) = {} => Balanced(F, FALSE)
  PROVE  Good(D \cup {F})
BY DEF Good

(* The constants of the function being compiled are among those of all.    *)
LEMMA FnMade ==
  ASSUME NEW p, Fine(p)
  PROVE  Functions(Fn(p).consts) \subseteq Made(p)
<1>1. Len(p.fns) \in 1 .. Len(p.fns) /\ Fn(p) = p.fns[Len(p.fns)]
  BY FineFn
<1>. QED
  BY <1>1 DEF Made

(* The function that ends is balanced, and a constant of the one around,   *)
(* which is not from now on.                                               *)
LEMMA FuncEndBalances ==
  ASSUME CompilerInv, TextInv, BalanceInv, FuncEnd
  PROVE  BalanceInv'
<1>. DEFINE n == Emit(parser, <<Opcode["NIL"], Opcode["RETURN"]>>)
            f == Fn(n)
            F == Function(f.arity, f.code, f.consts)
            o == [parser EXCEPT !.fns = SubSeq(@, 1, Len(@) - 1)]
            q == EmitOp(o, "CLOSURE")
            v == Func(F)
            a == AddConstant(q, v)
            r == Emit(a, <<Opcode["CONSTANT"], ConstantId(q)>>)
            e == Emit(r, <<ConstantId(q)>>)
            s == DefineGlobal(e, Top.global)
            t == << >> \o Tail(todo)
<1>1. /\ todo # << >> /\ Top.at = "func_end" /\ Fine(parser) /\ text \in Texts
      /\ Top \in Calls /\ todo \in Seq(Calls) /\ Then(s, << >>)
  BY TopIs DEF FuncEnd, At, Return, CompilerInv, TodoOK, EmitConstant
<1>2. Top.global \in Bytes /\ Top.at \in Bases
  BY <1>1 DEF Calls, PlainCalls, PrefixCalls, InFunction, Bases
<1>3. text' = text /\ parser' = s /\ todo' = t
  BY <1>1 DEF Then
<1>4. Len(parser.fns) >= 2
  <2>1. Cardinality(FunctionCalls) \in Nat /\ Cardinality(FunctionCalls) >= 1
    BY <1>1, FunctionEnds DEF InFunction
  <2>2. Len(parser.fns) = 1 + Cardinality(FunctionCalls)
    BY DEF CompilerInv, DepthsOK
  <2>. QED
    BY <2>1, <2>2
<1>01. n = Emit(parser, <<Opcode["NIL"], Opcode["RETURN"]>>)
  OBVIOUS
<1>02. F = Function(Fn(n).arity, Fn(n).code, Fn(n).consts)
  OBVIOUS
<1>03. o = [parser EXCEPT !.fns = SubSeq(@, 1, Len(@) - 1)]
  OBVIOUS
<1>04. q = EmitOp(o, "CLOSURE")
  OBVIOUS
<1>05. v = Func(F) /\ a = AddConstant(q, v)
  OBVIOUS
<1>06. r = Emit(a, <<Opcode["CONSTANT"], ConstantId(q)>>)
  OBVIOUS
<1>07. e = Emit(r, <<ConstantId(q)>>)
  OBVIOUS
<1>08. s = DefineGlobal(e, Top.global)
  OBVIOUS
<1>09. F.consts = Fn(n).consts
  BY DEF Function
<1>. HIDE DEF n, f, F, o, q, v, a, r, e, s, t
<1>5. Fine(o) /\ Made(o) \subseteq Made(parser) /\ o.error = parser.error
  BY <1>03, <1>1, <1>4, DropMade
<1>6. Mild(o, q) /\ Fine(q)
  <2>1. "CLOSURE" \in Emitted
    BY DEF Emitted
  <2>2. Mild(o, q)
    BY <1>04, <1>5, <2>1, EmitOpMild
  <2>. QED
    BY <2>2 DEF Mild, Tame
<1>7. /\ Fine(a) /\ Made(a) \subseteq Made(q) \cup {F} /\ F \in Functions(Fn(a).consts)
      /\ q.error => a.error
  BY <1>05, <1>1, <1>6, AddFunctionIs
<1>8. /\ <<Opcode["CONSTANT"], ConstantId(q)>> \in Seq(Bytes) /\ <<ConstantId(q)>> \in Seq(Bytes)
  <2>1. ConstantId(q) \in Bytes
    BY <1>1, <1>6, HelpersKeep
  <2>2. Opcode["CONSTANT"] \in Bytes
    BY OpcodeIsByte DEF Emitted
  <2>. QED
    BY <2>1, <2>2
<1>9. Mild(a, r) /\ Fine(r)
  BY <1>06, <1>7, <1>8, EmitMild, EmitIs
<1>10. Mild(r, e) /\ Fine(e)
  BY <1>07, <1>8, <1>9, EmitMild, EmitIs
<1>11. Len(Fn(e).locals) >= 1
  <2>. DEFINE N == Len(parser.fns)
  <2>1. N \in Nat /\ N >= 2
    BY <1>1, <1>4, FineFn
  <2>2. Fn(o) = parser.fns[N - 1]
    BY <1>03, <1>1, <1>4, DropKeeps
  <2>3. \A k \in 1 .. N : k < N => ScopesOK(parser.fns[k])
    BY DEF CompilerInv, LocalsOK
  <2>. HIDE DEF N
  <2>4. ScopesOK(Fn(o))
    <3>1. N - 1 \in 1 .. N /\ N - 1 < N
      BY <2>1
    <3>. QED
      BY <2>2, <2>3, <3>1
  <2>5. Level(Fn(o), Fn(q))
    <3>1. <<Opcode["CLOSURE"]>> \in Seq(Bytes)
      <4>1. Opcode["CLOSURE"] \in Bytes
        BY OpcodeIsByte DEF Emitted
      <4>. QED
        BY <4>1
    <3>2. q = Emit(o, <<Opcode["CLOSURE"]>>)
      BY <1>04 DEF EmitOp
    <3>. QED
      BY <1>5, <3>1, <3>2, EmitIs
  <2>6. Level(Fn(q), Fn(a))
    BY <1>05, <1>1, <1>6, AddFunctionIs
  <2>7. Level(Fn(a), Fn(r)) /\ Level(Fn(r), Fn(e))
    BY <1>06, <1>07, <1>7, <1>8, <1>9, EmitIs
  <2>8. Fn(e).locals = Fn(o).locals
    BY <2>5, <2>6, <2>7 DEF Level
  <2>9. Len(Fn(o).locals) \in Nat
    BY <1>5, FineFn
  <2>. QED
    BY <2>4, <2>8, <2>9 DEF ScopesOK
<1>12. Mild(e, s)
  BY <1>08, <1>1, <1>2, <1>10, <1>11, DefineGlobalIs
<1>13. Mild(a, s)
  BY <1>9, <1>10, <1>12, MildTrans
<1>14. F \in Functions(Fn(s).consts)
  BY <1>7, <1>13 DEF Mild, Tame
<1>15. Made(s) \subseteq Made(parser) \cup {F} /\ (parser.error => s.error)
  BY <1>5, <1>6, <1>7, <1>13 DEF Mild, Tame
<1>16. F.consts = Fn(parser).consts
  <2>. DEFINE b == <<Opcode["NIL"], Opcode["RETURN"]>>
  <2>1. b \in Seq(Bytes)
    <3>1. Opcode["NIL"] \in Bytes /\ Opcode["RETURN"] \in Bytes
      BY OpcodeIsByte DEF Emitted
    <3>. QED
      BY <3>1
  <2>2. n = Emit(parser, b)
    BY <1>01
  <2>. HIDE DEF b
  <2>. QED
    BY <1>09, <1>1, <2>1, <2>2, EmitIs
<1>17. ASSUME ~ s.error, Plain
       PROVE  \E D : Good(D) /\ Made(s) \subseteq D
  <2>1. ~ parser.error
    BY <1>15, <1>17
  <2>2. PICK D : Good(D) /\ Made(parser) \subseteq D
    BY <1>17, <2>1 DEF BalanceInv
  <2>3. Functions(F.consts) \subseteq D
    BY <1>1, <1>16, <2>2, FnMade
  <2>4. ASSUME Functions(F.consts) = {}
        PROVE  Balanced(F, FALSE)
    <3>1. Live(parser)
      BY <1>16, <1>17, <2>1, <2>4 DEF Live
    <3>2. Mild(parser, parser)
      BY <1>1, ReadMild
    <3>. QED
      BY <1>01, <1>02, <1>1, <1>2, <3>1, <3>2, FunctionBalances
  <2>5. Good(D \cup {F})
    BY <2>2, <2>3, <2>4, GoodMore
  <2>6. Made(s) \subseteq D \cup {F}
    BY <1>15, <2>2
  <2>. QED
    BY <2>5, <2>6
<1>18. ~ Live(s)
  BY <1>14 DEF Live
<1>. QED
  BY <1>3, <1>17, <1>18, BalanceAfter

(* The script that begins has no code and no constants.                    *)
LEMMA BalanceInitially == Init => BalanceInv
<1>. SUFFICES ASSUME Init
              PROVE  BalanceInv
  OBVIOUS
<1>. DEFINE f == NewFunc("SCRIPT")  l == Local(None, 0)  c == Do("compile")  t == <<c>>
<1>1. CompilerInv
  BY InitHolds
<1>2. parser.fns = <<f>> /\ todo = t
  BY DEF Init
<1>3. Len(parser.fns) = 1 /\ Fn(parser) = f /\ \A n \in 1 .. 1 : parser.fns[n] = f
  <2>. HIDE DEF f
  <2>1. Len(<<f>>) = 1 /\ <<f>>[1] = f /\ \A n \in 1 .. 1 : n = 1
    OBVIOUS
  <2>. QED
    BY <1>2, <2>1 DEF Fn
<1>4. Fine(parser) /\ todo \in Seq(Calls)
  BY <1>1, <1>2, TopIs DEF CompilerInv, TodoOK
<1>5. f.code = << >> /\ f.arity = 0 /\ f.depth = 0 /\ f.type = "SCRIPT" /\ f.consts = << >>
  BY DEF NewFunc
<1>6. Len(f.locals) = 1 /\ f.locals[1].depth = 0
  <2>1. l.depth = 0 /\ f.locals = <<l>>
    BY DEF NewFunc, Local
  <2>. HIDE DEF l, f
  <2>2. Len(<<l>>) = 1 /\ <<l>>[1] = l
    OBVIOUS
  <2>. QED
    BY <2>1, <2>2
<1>7. c.at = "compile" /\ Len(t) = 1 /\ t[1] = c
  <2>1. c.at = "compile"
    BY DEF Do
  <2>. HIDE DEF c
  <2>. QED
    BY <2>1
<1>. HIDE DEF f, c, t
<1>8. Functions(f.consts) = {}
  BY <1>5, NoFunction
<1>9. Made(parser) = {}
  BY <1>3, <1>8 DEF Made
<1>10. \E D : Good(D) /\ Made(parser) \subseteq D
  <2>1. Good({}) /\ Made(parser) \subseteq {}
    BY <1>9 DEF Good
  <2>. QED
    BY <2>1
<1>11. TypedBy(f, t)
  <2>1. Typed(f)
    BY <1>3, <1>4, FineParts
  <2>2. t \in Seq(Calls) /\ Len(t) >= 1 /\ t[1] = c
    BY <1>2, <1>4, <1>7
  <2>3. c \in Calls
    BY SMTT(30), <1>7, <2>2
  <2>4. c.at \in Bases /\ FitsScope(f, c, 1, 0)
    BY <1>5, <1>7 DEF Bases, FitsScope, Scoped, InFunction
  <2>. QED
    BY <1>5, <1>6, <2>1, <2>2, <2>3, <2>4, NewTyped
<1>12. todo # << >>
  BY <1>2, <1>7
<1>. QED
  BY <1>2, <1>3, <1>10, <1>11, <1>12 DEF BalanceInv

(* A step that changes nothing keeps it.                                   *)
LEMMA BalanceStutters == BalanceInv /\ UNCHANGED vars => BalanceInv'
<1>. SUFFICES ASSUME BalanceInv, UNCHANGED vars
              PROVE  BalanceInv'
  OBVIOUS
<1>1. text' = text /\ parser' = parser /\ todo' = todo
  BY DEF vars
<1>. DEFINE q == parser  t == todo
<1>2. text' = text /\ parser' = q /\ todo' = t
  BY <1>1
<1>3. /\ ~ q.error /\ Plain => \E D : Good(D) /\ Made(q) \subseteq D
      /\ t # << >> /\ Live(q) => TypedBy(Fn(q), t)
      /\ t = << >> /\ Live(q) => Balanced(Function(Fn(q).arity, Fn(q).code, Fn(q).consts), TRUE)
  BY DEF BalanceInv, Compiled
<1>. QED
  BY <1>2, <1>3, BalanceAfter

(* Every action keeps it.                                                  *)
LEMMA BalanceKept == CompilerInv /\ TextInv /\ BalanceInv /\ Next => BalanceInv'
<1>. SUFFICES ASSUME CompilerInv, TextInv, BalanceInv, Next
              PROVE  BalanceInv'
  OBVIOUS
<1>1. CASE Compile \/ Script \/ ScriptEnd \/ Declaration \/ Declared \/ Synchronize
  BY <1>1, CompileBalances, ScriptBalances, ScriptEndBalances, DeclarationBalances,
     DeclaredBalances, SynchronizeBalances
<1>2. CASE FinishCall \/ Statement \/ ExpressionStatement \/ Block \/ ScopeEnds
  BY <1>2, FinishCallBalances, StatementBalances, ExpressionStatementBalances, BlockBalances,
     ScopeEndsBalances
<1>3. CASE VarDeclaration \/ VarDefined \/ IfStatement \/ IfThen \/ IfElse \/ IfEnd
  BY <1>3, VarDeclarationBalances, VarDefinedBalances, IfStatementBalances, IfThenBalances,
     IfElseBalances, IfEndBalances
<1>4. CASE WhileStatement \/ WhileBody \/ LoopEnd
  BY <1>4, WhileStatementBalances, WhileBodyBalances, LoopEndBalances
<1>5. CASE ForStatement \/ ForCondition \/ ForExit \/ ForIncrement \/ ForStep
  BY <1>5, ForStatementBalances, ForConditionBalances, ForExitBalances, ForIncrementBalances,
     ForStepBalances
<1>6. CASE FuncDeclaration \/ Parameter \/ FuncBody \/ FuncEnd \/ ReturnStatement
  BY <1>6, FuncDeclarationBalances, ParameterBalances, FuncBodyBalances, FuncEndBalances,
     ReturnStatementBalances
<1>7. CASE PrefixRule \/ InfixRule \/ Constant \/ LiteralValue \/ Grouping \/ Unary
  BY <1>7, PrefixRuleBalances, InfixRuleBalances, ConstantBalances, LiteralValueBalances,
     GroupingBalances, UnaryBalances
<1>8. CASE BinaryRight \/ BinaryEnd \/ Call \/ Arguments \/ Variable
  BY <1>8, BinaryRightBalances, BinaryEndBalances, CallBalances, ArgumentsBalances,
     VariableBalances
<1>. QED
  BY <1>1, <1>2, <1>3, <1>4, <1>5, <1>6, <1>7, <1>8 DEF Next

(* For every text, and whatever the limits: the code emitted so far has    *)
(* one height for each of its offsets, which the calls of the parse        *)
(* functions in progress will leave as the interpreter needs it; and every *)
(* function declared so far without functions of its own is balanced.      *)
THEOREM BalanceHolds == Spec => []BalanceInv
<1>1. Init => BalanceInv
  BY BalanceInitially
<1>2. CompilerInv /\ TextInv /\ BalanceInv /\ [Next]_vars => BalanceInv'
  BY BalanceKept, BalanceStutters
<1>. QED
  BY <1>1, <1>2, CompilerInvariant, TextHolds, PTL DEF Spec
-----------------------------------------------------------------------------
(* What a function declares, and what those declare, is good if its        *)
(* functions are.                                                          *)
LEMMA BodiesGood ==
  ASSUME NEW f, NEW D, Good(D), Functions(f.consts) \subseteq D, NEW n \in Nat
  PROVE  Bodies(f, n) \subseteq {f} \cup D
<1>. DEFINE U == {f} \cup D  X == SUBSET U  b == {f}
            Add(T) == T \cup UNION {Functions(g.consts) : g \in T}
            G == [T \in X |-> Add(T)]
            Is(r) == r = [k \in 0 .. n |-> IF k = 0 THEN b ELSE Add(r[k - 1])]
<1>1. \A g \in U : Functions(g.consts) \subseteq U
  BY DEF Good
<1>2. b \in X /\ G \in [X -> X]
  BY <1>1
<1>. HIDE DEF G, b, X
<1>3. PICK r : Iterates(r, n, X, b, G)
  BY <1>2, CanIterate
<1>4. \A k \in 0 .. n : k # 0 => G[r[k - 1]] = Add(r[k - 1])
  <2>1. \A k \in 0 .. n : k # 0 => k - 1 \in 0 .. n
    OBVIOUS
  <2>2. \A k \in 0 .. n : k # 0 => r[k - 1] \in X
    BY <1>3, <2>1 DEF Iterates
  <2>. QED
    BY <2>2 DEF G
<1>5. Is(r)
  BY <1>3, <1>4 DEF Iterates
<1>6. Bodies(f, n) = (CHOOSE g : Is(g))[n]
  BY DEF Bodies, b
<1>. DEFINE h == CHOOSE g : Is(g)
<1>7. Is(h)
  BY <1>5
<1>. HIDE DEF h
<1>8. \A k \in 0 .. n : h[k] \subseteq U
  <2>. DEFINE Out == {k \in 0 .. n : ~ (h[k] \subseteq U)}
  <2>1. SUFFICES ASSUME Out # {}
                 PROVE  FALSE
    OBVIOUS
  <2>8. Out \in SUBSET Nat
    OBVIOUS
  <2>2. PICK m \in Out : \A k \in Out : m <= k
    BY <2>1, <2>8, LeastOf
  <2>3. m \in 0 .. n /\ h[m] = IF m = 0 THEN b ELSE Add(h[m - 1])
    BY <1>7, <2>2
  <2>4. m # 0
    BY <2>2, <2>3 DEF b
  <2>5. m - 1 \in 0 .. n /\ ~ (m <= m - 1)
    BY <2>3, <2>4
  <2>6. h[m - 1] \subseteq U
    BY <2>2, <2>5
  <2>7. h[m] \subseteq U
    BY <1>1, <2>3, <2>4, <2>6
  <2>. QED
    BY <2>2, <2>7
<1>9. Bodies(f, n) \in {h[k] : k \in 0 .. n}
  <2>1. n \in 0 .. n
    OBVIOUS
  <2>. QED
    BY <1>6, <2>1 DEF h
<1>. QED
  BY <1>8, <1>9

(* An accepted plain text has been compiled: every function of it that has *)
(* none as a constant is balanced.                                         *)
LEMMA BalanceIsEnough ==
  ASSUME CompilerInv, BalanceInv
  PROVE  CodeBalanced
<1>. SUFFICES ASSUME Accepted, Plain, NEW f \in AllBodies, Functions(f.consts) = {}
              PROVE  Balanced(f, f = Compiled)
  BY DEF CodeBalanced
<1>1. todo = << >> /\ ~ parser.error
  BY DEF Accepted, Done
<1>2. Fine(parser) /\ text \in Seq(Tokens)
  BY TextIs DEF CompilerInv
<1>3. Compiled.consts = Fn(parser).consts
  BY DEF Compiled, Function
<1>4. PICK D : Good(D) /\ Made(parser) \subseteq D
  BY <1>1 DEF BalanceInv
<1>. DEFINE n == Cardinality({i \in 1 .. Len(text) : text[i].type = "FUNC"})
<1>5. n \in Nat
  <2>1. Len(text) \in Nat
    BY <1>2
  <2>2. IsFiniteSet(1 .. Len(text))
    BY <2>1, FS_Interval
  <2>3. {i \in 1 .. Len(text) : text[i].type = "FUNC"} \subseteq 1 .. Len(text)
    OBVIOUS
  <2>4. IsFiniteSet({i \in 1 .. Len(text) : text[i].type = "FUNC"})
    BY <2>2, <2>3, FS_Subset
  <2>. QED
    BY <2>4, FS_CardinalityType
<1>6. f \in Bodies(Compiled, n)
  BY DEF AllBodies
<1>. HIDE DEF n
<1>7. f \in {Compiled} \cup D
  <2>. DEFINE F == Compiled
  <2>1. Functions(F.consts) \subseteq D
    BY <1>2, <1>3, <1>4, FnMade
  <2>2. f \in Bodies(F, n)
    BY <1>6
  <2>. HIDE DEF F
  <2>3. Bodies(F, n) \subseteq {F} \cup D
    BY <1>4, <1>5, <2>1, BodiesGood
  <2>. QED
    BY <2>2, <2>3 DEF F
<1>8. CASE f = Compiled
  <2>1. Live(parser)
    BY <1>1, <1>3, <1>8 DEF Live
  <2>2. Balanced(Compiled, TRUE)
    BY <1>1, <2>1 DEF BalanceInv
  <2>. QED
    BY <1>8, <2>2
<1>9. CASE f # Compiled
  <2>1. Balanced(f, FALSE)
    BY <1>4, <1>7, <1>9 DEF Good
  <2>. QED
    BY <1>9, <2>1
<1>. QED
  BY <1>8, <1>9

(* For every text, and whatever the limits: the code of an accepted plain  *)
(* text without nested functions is what the interpreter needs.            *)
THEOREM CodeIsBalanced == Spec => []CodeBalanced
<1>1. CompilerInv /\ BalanceInv => CodeBalanced
  BY BalanceIsEnough
<1>. QED
  BY <1>1, CompilerInvariant, BalanceHolds, PTL
===========================================================================
