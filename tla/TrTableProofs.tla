---------------------------- MODULE TrTableProofs ----------------------------
(***************************************************************************)
(* Proofs about the hash table, for any keys, any hash function and any    *)
(* growth constant of at least 2: the layout invariant of open addressing, *)
(* and that the table implements the map of GlobalsMap.                    *)
(***************************************************************************)
EXTENDS TrTable, FiniteSetTheorems, TLAPS
-----------------------------------------------------------------------------
(* Arithmetic of the cyclic probe path.                                    *)

LEMMA HomeInRange ==
  ASSUME NEW cap \in Nat, cap > 0, NEW k \in Keys
  PROVE  Home(k, cap) \in 0 .. cap - 1
  BY TableAssumption DEF Home

LEMMA NextSlot ==
  ASSUME NEW cap \in Nat, cap > 0, NEW i \in 0 .. cap - 1
  PROVE  (i + 1) % cap = IF i + 1 = cap THEN 0 ELSE i + 1
  OBVIOUS

(* A step of a probe adds to its path the slot it leaves.                  *)
LEMMA PathStep ==
  ASSUME NEW cap \in Nat, cap > 0, NEW h \in 0 .. cap - 1,
         NEW i \in 0 .. cap - 1, (i + 1) % cap # h
  PROVE  Path(h, (i + 1) % cap, cap) = Path(h, i, cap) \cup {i}
  BY NextSlot DEF Path

(* A probe that would come back to its home has seen every slot.           *)
LEMMA PathFull ==
  ASSUME NEW cap \in Nat, cap > 0, NEW h \in 0 .. cap - 1,
         NEW i \in 0 .. cap - 1, (i + 1) % cap = h
  PROVE  0 .. cap - 1 \subseteq Path(h, i, cap) \cup {i}
  BY NextSlot DEF Path

LEMMA PathStart ==
  ASSUME NEW cap \in Nat, NEW h \in 0 .. cap - 1
  PROVE  Path(h, h, cap) = {}
  BY DEF Path

(* Of two slots one lies on the path to the other, and a path to a slot of *)
(* a path is a part of it.                                                 *)
LEMMA PathTotal ==
  ASSUME NEW cap \in Nat, NEW h \in 0 .. cap - 1,
         NEW i \in 0 .. cap - 1, NEW j \in 0 .. cap - 1, i # j
  PROVE  i \in Path(h, j, cap) \/ j \in Path(h, i, cap)
  BY DEF Path

LEMMA PathPrefix ==
  ASSUME NEW cap \in Nat, NEW h \in 0 .. cap - 1,
         NEW i \in 0 .. cap - 1, NEW t \in Path(h, i, cap)
  PROVE  /\ t \in 0 .. cap - 1
         /\ Path(h, t, cap) \subseteq Path(h, i, cap)
  BY DEF Path
-----------------------------------------------------------------------------
(* The layout of an array of entries.                                      *)

LEMMA UsedFinite ==
  ASSUME NEW cap \in Nat, NEW A \in [0 .. cap - 1 -> Entry]
  PROVE  /\ IsFiniteSet(Used(A))
         /\ Cardinality(Used(A)) \in Nat
<1>1. Used(A) \subseteq 0 .. cap - 1
  BY DEF Used
<1>2. IsFiniteSet(0 .. cap - 1)
  BY FS_Interval
<1>3. IsFiniteSet(Used(A))
  BY <1>1, <1>2, FS_Subset
<1>. QED
  BY <1>3, FS_CardinalityType

(* An array with fewer used slots than slots has a never used one.         *)
LEMMA EmptySlotExists ==
  ASSUME NEW cap \in Nat, NEW A \in [0 .. cap - 1 -> Entry],
         Cardinality(Used(A)) < cap
  PROVE  \E s \in 0 .. cap - 1 : IsEmpty(A[s])
<1>1. SUFFICES ASSUME \A s \in 0 .. cap - 1 : ~IsEmpty(A[s])
               PROVE  FALSE
  OBVIOUS
<1>2. Used(A) = 0 .. cap - 1
  BY <1>1 DEF Used
<1>3. Cardinality(0 .. cap - 1) = cap
  BY FS_Interval
<1>. QED
  BY <1>2, <1>3

(* Writing an entry that is not empty uses its slot and no other.          *)
LEMMA PutUses ==
  ASSUME NEW cap \in Nat, NEW A \in [0 .. cap - 1 -> Entry],
         NEW B \in [0 .. cap - 1 -> Entry], NEW i \in 0 .. cap - 1,
         ~IsEmpty(B[i]), \A j \in 0 .. cap - 1 : j # i => B[j] = A[j]
  PROVE  Cardinality(Used(B)) = IF IsEmpty(A[i])
                                THEN Cardinality(Used(A)) + 1
                                ELSE Cardinality(Used(A))
<1>1. Used(B) = Used(A) \cup {i}
  BY DEF Used
<1>2. i \in Used(A) <=> ~IsEmpty(A[i])
  BY DEF Used
<1>3. Cardinality(Used(A) \cup {i}) =
        IF i \in Used(A) THEN Cardinality(Used(A)) ELSE Cardinality(Used(A)) + 1
  BY UsedFinite, FS_AddElement
<1>. QED
  BY <1>1, <1>2, <1>3

(* A never used slot on the probe path of a key shows the key absent.      *)
LEMMA AbsentAtEmptySlot ==
  ASSUME NEW cap \in Nat, cap > 0, NEW A \in [0 .. cap - 1 -> Entry],
         ReachableIn(A, cap), NEW k \in Keys, NEW i \in 0 .. cap - 1,
         IsEmpty(A[i]),
         \A x \in Path(Home(k, cap), i, cap) : A[x].key # k
  PROVE  ~Holds(A, k)
<1>1. SUFFICES ASSUME NEW s \in 0 .. cap - 1, A[s].key = k
               PROVE  FALSE
  BY DEF Holds
<1>2. Home(k, cap) \in 0 .. cap - 1
  BY HomeInRange
<1>3. A[s].key # NULL /\ A[i].key = NULL
  BY <1>1, TableAssumption DEF IsEmpty
<1>4. i \notin Path(Home(k, cap), s, cap)
  BY <1>1, <1>3 DEF ReachableIn
<1>5. s \in Path(Home(k, cap), i, cap)
  BY <1>2, <1>3, <1>4, PathTotal
<1>. QED
  BY <1>1, <1>5

(* Keys stay unique and reachable when an entry is written where its key   *)
(* belongs: over its own slot or at the end of a path of used slots.  A    *)
(* tombstone may be written anywhere.                                      *)
LEMMA PutKeepsLayout ==
  ASSUME NEW cap \in Nat, cap > 0, NEW A \in [0 .. cap - 1 -> Entry],
         UniqueIn(A), ReachableIn(A, cap),
         NEW i \in 0 .. cap - 1, NEW e \in Entry, ~IsEmpty(e),
         e.key # NULL =>
           /\ \A s \in 0 .. cap - 1 : A[s].key = e.key => s = i
           /\ \A x \in Path(Home(e.key, cap), i, cap) : ~IsEmpty(A[x]),
         NEW B, B = [A EXCEPT ![i] = e]
  PROVE  UniqueIn(B) /\ ReachableIn(B, cap)
<1>1. B \in [0 .. cap - 1 -> Entry] /\ DOMAIN A = 0 .. cap - 1
  OBVIOUS
<1>2. UniqueIn(B)
  BY <1>1 DEF UniqueIn
<1>3. \A x \in 0 .. cap - 1 : ~IsEmpty(A[x]) => ~IsEmpty(B[x])
  OBVIOUS
<1>4. ASSUME NEW s \in 0 .. cap - 1, B[s].key # NULL,
             NEW x \in Path(Home(B[s].key, cap), s, cap)
      PROVE  ~IsEmpty(B[x])
  <2>1. x \in 0 .. cap - 1
    BY <1>4 DEF Path
  <2>2. ~IsEmpty(A[x])
    BY <1>4 DEF ReachableIn
  <2>. QED
    BY <2>1, <2>2, <1>3
<1>5. ReachableIn(B, cap)
  BY <1>4 DEF ReachableIn
<1>. QED
  BY <1>2, <1>5
-----------------------------------------------------------------------------
(* The inductive invariant, one action at a time.                          *)

LEMMA InitTableInv == Init => TableInv
<1>. SUFFICES ASSUME Init PROVE TableInv
  OBVIOUS
<1>. USE DEF Init, Rehashing
<1>1. TypeOK
  BY TableAssumption DEF TypeOK, Entry, Calls, NoCall, NoSlot, Reply, Void
<1>2. CallOK /\ LoadBounded /\ GrowthFaithful /\ FindCorrect
  BY DEF CallOK, LoadBounded, GrowthFaithful, FindCorrect, NoCall
<1>3. CountExact
  <2>1. Used(Array) = {}
    BY DEF Used, Array
  <2>. QED
    BY <2>1, FS_EmptySet DEF CountExact
<1>4. KeysUnique /\ KeysReachable
  BY DEF KeysUnique, KeysReachable, UniqueIn, ReachableIn
<1>. QED
  BY <1>1, <1>2, <1>3, <1>4 DEF TableInv

(* What a state of the invariant says of the array being probed.           *)
LEMMA ProbedArray ==
  ASSUME TableInv, pc \in {"find", "refind", "found", "refound"}
  PROVE  /\ ArrayCap \in Nat /\ ArrayCap > 0
         /\ Array \in [0 .. ArrayCap - 1 -> Entry]
         /\ SoughtKey \in Keys
         /\ UniqueIn(Array) /\ ReachableIn(Array, ArrayCap)
         /\ Cardinality(Used(Array)) < ArrayCap
         /\ index \in 0 .. ArrayCap - 1
         /\ Home(SoughtKey, ArrayCap) \in 0 .. ArrayCap - 1
<1>1. /\ capacity \in Nat /\ count \in Nat /\ index \in Nat
      /\ entries \in [0 .. capacity - 1 -> Entry] 
      /\ op \in Calls \cup {NoCall}
      /\ Rehashing =>
           fresh \in [0 .. NewCapacity - 1 -> Entry] /\ scan \in 0 .. capacity
      /\ index < ArrayCap
      /\ count = Cardinality(Used(Array))
  BY DEF TableInv, TypeOK, FindCorrect, Walked, Landed, CountExact
<1>2. CASE Rehashing
  <2>1. pc \in {"refind", "refound"}
    BY <1>2 DEF Rehashing
  <2>2. Array = fresh /\ ArrayCap = NewCapacity /\ SoughtKey = entries[scan].key
    BY <1>2 DEF Array, ArrayCap, SoughtKey
  <2>3. scan < capacity /\ entries[scan].key # NULL /\ count <= scan
    BY <1>2, <2>1 DEF TableInv, GrowthFaithful
  <2>4. scan \in Nat /\ entries[scan] \in Entry
    BY <1>1, <1>2, <2>3
  <2>5. SoughtKey \in Keys
    BY <2>2, <2>3, <2>4 DEF Entry
  <2>6. NewCapacity \in Nat /\ NewCapacity > capacity
    BY <1>1, TableAssumption DEF NewCapacity
  <2>7. UniqueIn(fresh) /\ ReachableIn(fresh, NewCapacity)
    BY <1>2 DEF TableInv, KeysUnique, KeysReachable
  <2>8. Cardinality(Used(Array)) < ArrayCap
    BY <1>1, <2>2, <2>3, <2>4, <2>6
  <2>9. /\ ArrayCap \in Nat /\ ArrayCap > 0 /\ index \in 0 .. ArrayCap - 1
        /\ Array \in [0 .. ArrayCap - 1 -> Entry]
    BY <1>1, <1>2, <2>2, <2>6
  <2>. QED
    BY <2>2, <2>5, <2>7, <2>8, <2>9, HomeInRange
<1>3. CASE ~Rehashing
  <2>1. pc \in {"find", "found"}
    BY <1>3 DEF Rehashing
  <2>2. Array = entries /\ ArrayCap = capacity /\ SoughtKey = op.key
    BY <1>3 DEF Array, ArrayCap, SoughtKey
  <2>3. SoughtKey \in Keys
    BY <1>1, <2>1, <2>2 DEF TableInv, CallOK, Calls, NoCall
  <2>4. capacity > 0 /\ 10 * count <= 7 * capacity
    BY <1>3, <2>1 DEF TableInv, LoadBounded
  <2>5. UniqueIn(entries) /\ ReachableIn(entries, capacity)
    BY DEF TableInv, KeysUnique, KeysReachable
  <2>6. /\ Cardinality(Used(Array)) < ArrayCap /\ index \in 0 .. ArrayCap - 1
        /\ ArrayCap \in Nat /\ ArrayCap > 0
        /\ Array \in [0 .. ArrayCap - 1 -> Entry]
    BY <1>1, <2>2, <2>4
  <2>. QED
    BY <2>2, <2>3, <2>5, <2>6, HomeInRange
<1>. QED
  BY <1>2, <1>3

(* A probe never returns to its home slot, so each step extends its path.  *)
LEMMA ProbeStep ==
  ASSUME TableInv, pc \in {"find", "refind"}, ~IsEmpty(Array[index]),
         Array[index].key # SoughtKey
  PROVE  LET next == (index + 1) % ArrayCap
             home == Home(SoughtKey, ArrayCap)
         IN  /\ next \in 0 .. ArrayCap - 1
             /\ Path(home, next, ArrayCap) = Path(home, index, ArrayCap) \cup {index}
             /\ \A x \in Path(home, next, ArrayCap) :
                  ~IsEmpty(Array[x]) /\ Array[x].key # SoughtKey
<1>. DEFINE next == (index + 1) % ArrayCap
            home == Home(SoughtKey, ArrayCap)
<1>1. /\ ArrayCap \in Nat /\ ArrayCap > 0
      /\ index \in 0 .. ArrayCap - 1
      /\ home \in 0 .. ArrayCap - 1
      /\ Array \in [0 .. ArrayCap - 1 -> Entry]
      /\ Cardinality(Used(Array)) < ArrayCap
  BY ProbedArray
<1>2. \A x \in Path(home, index, ArrayCap) :
        ~IsEmpty(Array[x]) /\ Array[x].key # SoughtKey
  BY DEF TableInv, FindCorrect, Walked
<1>3. next # home
  <2>1. SUFFICES ASSUME next = home PROVE FALSE
    OBVIOUS
  <2>2. 0 .. ArrayCap - 1 \subseteq Path(home, index, ArrayCap) \cup {index}
    BY <1>1, <2>1, PathFull
  <2>3. PICK s \in 0 .. ArrayCap - 1 : IsEmpty(Array[s])
    BY <1>1, EmptySlotExists
  <2>. QED
    BY <1>2, <2>2, <2>3
<1>4. Path(home, next, ArrayCap) = Path(home, index, ArrayCap) \cup {index}
  BY <1>1, <1>3, PathStep
<1>5. next \in 0 .. ArrayCap - 1
  BY <1>1, NextSlot
<1>. QED
  BY <1>2, <1>4, <1>5

LEMMA ProbeKeepsInv == TableInv /\ Probe => TableInv'
<1>. SUFFICES ASSUME TableInv, Probe PROVE TableInv'
  OBVIOUS
<1>. DEFINE home == Home(SoughtKey, ArrayCap)
<1>1. /\ UNCHANGED <<entries, capacity, count, op, fresh, scan, reply>>
      /\ pc \in {"find", "refind"}
  BY DEF Probe, tableVars, growVars
<1>2. /\ ArrayCap \in Nat /\ ArrayCap > 0
      /\ index \in 0 .. ArrayCap - 1
      /\ home \in 0 .. ArrayCap - 1
      /\ Array \in [0 .. ArrayCap - 1 -> Entry]
      /\ SoughtKey \in Keys /\ SoughtKey # NULL
      /\ ReachableIn(Array, ArrayCap)
  BY <1>1, ProbedArray, TableAssumption
<1>3. /\ \A x \in Path(home, index, ArrayCap) :
           ~IsEmpty(Array[x]) /\ Array[x].key # SoughtKey
      /\ tombstone # NoSlot =>
           /\ tombstone \in Path(home, index, ArrayCap)
           /\ IsTombstone(Array[tombstone])
  BY <1>1 DEF TableInv, FindCorrect, Walked
<1>4. CASE pc' = pc
  <2>1. \/ /\ IsTombstone(Array[index])
           /\ tombstone' = IF tombstone = NoSlot THEN index ELSE tombstone
        \/ /\ Array[index].key \notin {NULL, SoughtKey}
           /\ tombstone' = tombstone
    BY <1>1, <1>4 DEF Probe, FindReturns
  <2>2. index' = (index + 1) % ArrayCap
    BY <1>1, <1>4 DEF Probe, FindReturns, ProbeOn
  <2>3. ~IsEmpty(Array[index]) /\ Array[index].key # SoughtKey
    BY <2>1, <1>2 DEF IsTombstone, IsEmpty
  <2>4. /\ index' \in 0 .. ArrayCap - 1
        /\ Path(home, index', ArrayCap) = Path(home, index, ArrayCap) \cup {index}
        /\ \A x \in Path(home, index', ArrayCap) :
             ~IsEmpty(Array[x]) /\ Array[x].key # SoughtKey
    BY <1>1, <2>2, <2>3, ProbeStep
  <2>5. tombstone' # NoSlot =>
           /\ tombstone' \in Path(home, index', ArrayCap)
           /\ IsTombstone(Array[tombstone'])
    BY <2>1, <2>4, <1>3
  <2>6. UNCHANGED <<Rehashing, Array, ArrayCap, SoughtKey, NewCapacity>>
    BY <1>1, <1>4 DEF Rehashing, Array, ArrayCap, SoughtKey, NewCapacity
  <2>7. FindCorrect'
    <3>1. Walked(Array, ArrayCap, SoughtKey, index', tombstone')
      BY <1>2, <2>4, <2>5 DEF Walked
    <3>. QED
      BY <3>1, <1>1, <1>4, <2>6 DEF FindCorrect
  <2>8. TypeOK'
    BY <1>1, <1>2, <1>4, <2>1, <2>4, <2>6 DEF TableInv, TypeOK
  <2>9. (CallOK /\ CountExact /\ LoadBounded /\ KeysUnique /\ KeysReachable
           /\ GrowthFaithful)'
    BY <1>1, <1>4, <2>6 DEF TableInv, CallOK, CountExact, LoadBounded,
         KeysUnique, KeysReachable, GrowthFaithful, UniqueIn, ReachableIn
  <2>. QED
    BY <2>7, <2>8, <2>9 DEF TableInv
<1>5. CASE pc' # pc
  <2>1. /\ pc' = IF pc = "refind" THEN "refound" ELSE "found"
        /\ tombstone' = tombstone
        /\ \/ /\ IsEmpty(Array[index])
              /\ index' = IF tombstone # NoSlot THEN tombstone ELSE index
           \/ /\ Array[index].key = SoughtKey
              /\ index' = index
    BY <1>1, <1>5 DEF Probe, FindReturns, ProbeOn
  <2>2. UNCHANGED <<Rehashing, Array, ArrayCap, SoughtKey, NewCapacity>>
    BY <1>1, <2>1 DEF Rehashing, Array, ArrayCap, SoughtKey, NewCapacity
  <2>3. /\ index' \in 0 .. ArrayCap - 1
        /\ Array[index'].key \in {NULL, SoughtKey}
        /\ Array[index'].key = NULL => ~Holds(Array, SoughtKey)
        /\ \A x \in Path(home, index', ArrayCap) : ~IsEmpty(Array[x])
    <3>1. CASE Array[index].key = SoughtKey /\ index' = index
      BY <3>1, <1>2, <1>3
    <3>2. CASE IsEmpty(Array[index]) /\ index' = index
      BY <3>2, <1>2, <1>3, AbsentAtEmptySlot DEF IsEmpty
    <3>3. CASE IsEmpty(Array[index]) /\ tombstone # NoSlot /\ index' = tombstone
      <4>1. ~Holds(Array, SoughtKey)
        BY <3>3, <1>2, <1>3, AbsentAtEmptySlot
      <4>2. /\ tombstone \in 0 .. ArrayCap - 1
            /\ Path(home, tombstone, ArrayCap) \subseteq Path(home, index, ArrayCap)
        BY <3>3, <1>2, <1>3, PathPrefix
      <4>. QED
        BY <3>3, <4>1, <4>2, <1>3 DEF IsTombstone
    <3>. QED
      BY <2>1, <3>1, <3>2, <3>3
  <2>4. FindCorrect'
    <3>1. Landed(Array, ArrayCap, SoughtKey, index')
      BY <1>2, <2>3 DEF Landed
    <3>. QED
      BY <3>1, <1>1, <2>1, <2>2 DEF FindCorrect
  <2>5. TypeOK'
    BY <1>1, <1>2, <2>1, <2>2, <2>3 DEF TableInv, TypeOK
  <2>6. (CallOK /\ CountExact /\ LoadBounded /\ KeysUnique /\ KeysReachable
           /\ GrowthFaithful)'
    BY <1>1, <2>1, <2>2 DEF TableInv, CallOK, CountExact, LoadBounded,
         KeysUnique, KeysReachable, GrowthFaithful, UniqueIn, ReachableIn
  <2>. QED
    BY <2>4, <2>5, <2>6 DEF TableInv
<1>. QED
  BY <1>4, <1>5

(* An action outside a rehash that leaves the table alone leaves its layout. *)
LEMMA SameTable ==
  ASSUME TableInv, UNCHANGED tableVars, ~Rehashing, ~Rehashing'
  PROVE  (CountExact /\ KeysUnique /\ KeysReachable /\ GrowthFaithful)'
<1>1. UNCHANGED <<entries, capacity, count>>
  BY DEF tableVars
<1>2. Array = entries /\ Array' = entries'
  BY DEF Array
<1>. QED
  BY <1>1, <1>2 DEF TableInv, CountExact, KeysUnique, KeysReachable,
       GrowthFaithful, UniqueIn, ReachableIn

(* A probe starts with nothing walked. *)
LEMMA StartWalks ==
  ASSUME NEW cap \in Nat, cap > 0, NEW k \in Keys, NEW A
  PROVE  /\ Home(k, cap) \in Nat
         /\ Walked(A, cap, k, Home(k, cap), NoSlot)
  BY HomeInRange, PathStart DEF Walked, NoSlot

LEMMA CallKeepsInv == TableInv /\ Call => TableInv'
<1>. SUFFICES ASSUME TableInv, Call PROVE TableInv'
  OBVIOUS
<1>1. ~Rehashing /\ ~Rehashing' /\ pc = "idle" /\ pc' = "called"
  BY DEF Call, Rehashing
<1>2. (CountExact /\ KeysUnique /\ KeysReachable /\ GrowthFaithful)'
  BY <1>1, SameTable DEF Call
<1>3. (TypeOK /\ CallOK /\ LoadBounded /\ FindCorrect)'
  BY <1>1 DEF Call, TableInv, TypeOK, CallOK, LoadBounded, FindCorrect, tableVars,
       growVars, findVars, Calls, NoCall
<1>. QED
  BY <1>2, <1>3 DEF TableInv

(* The three actions that start or skip a probe and leave the table alone. *)
LEMMA FindsKeepInv == TableInv /\ (InsertFinds \/ LookupFinds) => TableInv'
<1>. SUFFICES ASSUME TableInv, InsertFinds \/ LookupFinds PROVE TableInv'
  OBVIOUS
<1>1. /\ ~Rehashing /\ ~Rehashing' /\ pc = "called" /\ pc' = "find"
      /\ op.kind \in {"insert", "get", "delete"}
      /\ op.kind = "insert" => ~Overloaded
      /\ op.kind # "insert" => count # 0
      /\ index' = Home(op.key, capacity) /\ tombstone' = NoSlot
      /\ UNCHANGED <<tableVars, op, growVars, reply>>
  BY DEF InsertFinds, LookupFinds, Rehashing, StartFind
<1>2. (CountExact /\ KeysUnique /\ KeysReachable /\ GrowthFaithful)'
  BY <1>1, SameTable
<1>3. /\ capacity \in Nat /\ count \in Nat /\ op \in Calls
      /\ 10 * count <= 7 * capacity
  BY <1>1 DEF TableInv, TypeOK, CallOK, LoadBounded
<1>4. op.key \in Keys
  BY <1>1, <1>3 DEF Calls
<1>5. capacity > 0 /\ (op.kind = "insert" => 10 * (count + 1) <= 7 * capacity)
  BY <1>1, <1>3 DEF Overloaded
<1>6. /\ index' \in Nat
      /\ Walked(entries, capacity, op.key, index', tombstone')
  BY <1>1, <1>3, <1>4, <1>5, StartWalks
<1>7. FindCorrect'
  BY <1>1, <1>6 DEF FindCorrect, Array, ArrayCap, SoughtKey, tableVars
<1>8. (CallOK /\ LoadBounded)'
  BY <1>1, <1>3, <1>5 DEF TableInv, CallOK, LoadBounded, tableVars
<1>9. TypeOK'
  BY <1>1, <1>6 DEF TableInv, TypeOK, tableVars, growVars
<1>. QED
  BY <1>2, <1>7, <1>8, <1>9 DEF TableInv

LEMMA LookupEmptyKeepsInv == TableInv /\ LookupEmpty => TableInv'
<1>. SUFFICES ASSUME TableInv, LookupEmpty PROVE TableInv'
  OBVIOUS
<1>1. ~Rehashing /\ ~Rehashing' /\ pc' = "idle"
  BY DEF LookupEmpty, Rehashing, Return
<1>2. (CountExact /\ KeysUnique /\ KeysReachable /\ GrowthFaithful)'
  BY <1>1, SameTable DEF LookupEmpty
<1>3. (TypeOK /\ CallOK /\ LoadBounded /\ FindCorrect)'
  BY <1>1 DEF LookupEmpty, TableInv, TypeOK, CallOK, LoadBounded, FindCorrect,
       tableVars, growVars, Return, Void, Reply
<1>. QED
  BY <1>2, <1>3 DEF TableInv

LEMMA FreeKeepsInv == TableInv /\ Free => TableInv'
<1>. SUFFICES ASSUME TableInv, Free PROVE TableInv'
  OBVIOUS
<1>1. /\ ~Rehashing' /\ ~Rehashing /\ pc' = "idle" /\ op' = NoCall /\ capacity' = 0
      /\ count' = 0 /\ entries' = [s \in {} |-> Unused]
      /\ reply' = Void /\ index' = 0 /\ tombstone' = NoSlot
      /\ UNCHANGED <<fresh, scan>>
  BY DEF Free, Rehashing, Return, growVars
<1>2. CountExact'
  <2>1. Used(entries') = {} /\ Array' = entries'
    BY <1>1 DEF Used, Array
  <2>. QED
    BY <1>1, <2>1, FS_EmptySet DEF CountExact
<1>3. (KeysUnique /\ KeysReachable /\ GrowthFaithful)'
  BY <1>1 DEF KeysUnique, KeysReachable, GrowthFaithful, UniqueIn, ReachableIn
<1>4. (CallOK /\ LoadBounded /\ FindCorrect)'
  BY <1>1 DEF CallOK, LoadBounded, FindCorrect
<1>5. TypeOK'
  BY <1>1 DEF TypeOK, Void, Reply
<1>. QED
  BY <1>2, <1>3, <1>4, <1>5 DEF TableInv

LEMMA GetDoneKeepsInv == TableInv /\ GetDone => TableInv'
<1>. SUFFICES ASSUME TableInv, GetDone PROVE TableInv'
  OBVIOUS
<1>1. ~Rehashing /\ ~Rehashing' /\ pc = "found" /\ pc' = "idle" /\ op' = NoCall
  BY DEF GetDone, Rehashing, Return
<1>2. (CountExact /\ KeysUnique /\ KeysReachable /\ GrowthFaithful)'
  BY <1>1, SameTable DEF GetDone
<1>3. entries[index] \in Entry
  BY <1>1, ProbedArray DEF Array
<1>4. (TypeOK /\ CallOK /\ LoadBounded /\ FindCorrect)'
  BY <1>1, <1>3 DEF GetDone, TableInv, TypeOK, CallOK, LoadBounded, FindCorrect,
       tableVars, growVars, Return, Void, Reply, Entry
<1>. QED
  BY <1>2, <1>4 DEF TableInv

LEMMA DeleteDoneKeepsInv == TableInv /\ DeleteDone => TableInv'
<1>. SUFFICES ASSUME TableInv, DeleteDone PROVE TableInv'
  OBVIOUS
<1>. DEFINE grave == [key |-> NULL, value |-> Deleted]
<1>1. /\ ~Rehashing /\ ~Rehashing' /\ pc = "found" /\ pc' = "idle" /\ op' = NoCall
      /\ UNCHANGED <<count, capacity, fresh, scan>>
      /\ index' = 0 /\ tombstone' = NoSlot
      /\ reply' \in {Void, Reply(TRUE, NULL)}
      /\ \/ entries' = entries
         \/ /\ entries[index].key # NULL
            /\ entries' = [entries EXCEPT ![index] = grave]
  BY DEF DeleteDone, Rehashing, Return, growVars
<1>2. /\ capacity \in Nat /\ capacity > 0
      /\ entries \in [0 .. capacity - 1 -> Entry]
      /\ UniqueIn(entries) /\ ReachableIn(entries, capacity)
      /\ index \in 0 .. capacity - 1
      /\ count = Cardinality(Used(entries))
  BY <1>1, ProbedArray DEF Array, ArrayCap, TableInv, CountExact
<1>3. grave \in Entry /\ ~IsEmpty(grave) /\ grave.key = NULL
  BY TableAssumption DEF Entry, IsEmpty
<1>. HIDE DEF grave
<1>4. /\ UniqueIn(entries') /\ ReachableIn(entries', capacity)
      /\ entries' \in [0 .. capacity - 1 -> Entry]
  BY <1>1, <1>2, <1>3, PutKeepsLayout
<1>5. count = Cardinality(Used(entries'))
  <2>1. CASE entries' = entries
    BY <2>1, <1>2
  <2>2. CASE /\ entries[index].key # NULL
             /\ entries' = [entries EXCEPT ![index] = grave]
    <3>1. ~IsEmpty(entries[index])
      BY <2>2 DEF IsEmpty
    <3>2. /\ ~IsEmpty(entries'[index])
          /\ \A j \in 0 .. capacity - 1 : j # index => entries'[j] = entries[j]
      BY <2>2, <1>2, <1>3
    <3>. QED
      BY <3>1, <3>2, <1>2, <1>4, PutUses
  <2>. QED
    BY <1>1, <2>1, <2>2
<1>6. (CountExact /\ KeysUnique /\ KeysReachable /\ GrowthFaithful)'
  <2>1. Array' = entries'
    BY <1>1 DEF Array
  <2>2. CountExact'
    BY <1>1, <1>4, <1>5, <2>1 DEF CountExact
  <2>3. KeysUnique'
    BY <1>1, <1>4, <1>5 DEF KeysUnique
  <2>4. KeysReachable'
    BY <1>1, <1>4, <1>5 DEF KeysReachable
  <2>5. GrowthFaithful'
    BY <1>1 DEF GrowthFaithful
  <2>. QED
    BY <2>2, <2>3, <2>4, <2>5
<1>7. reply' \in [ok : BOOLEAN, val : Values \cup {NULL}]
  <2>1. Void \in [ok : BOOLEAN, val : Values \cup {NULL}]
    BY DEF Void, Reply
  <2>2. Reply(TRUE, NULL) \in [ok : BOOLEAN, val : Values \cup {NULL}]
    BY DEF Reply
  <2>. QED
    BY <1>1, <2>1, <2>2
<1>8. (TypeOK /\ CallOK /\ LoadBounded /\ FindCorrect)'
  BY <1>1, <1>4, <1>7
  DEF TableInv, TypeOK, CallOK, LoadBounded, FindCorrect
<1>. QED
  BY <1>6, <1>8 DEF TableInv

(* The insert writes its key over the key's own slot, or over a tombstone  *)
(* or the never used slot at the end of the key's path.                    *)
LEMMA InsertDoneKeepsInv == TableInv /\ InsertDone => TableInv'
<1>. SUFFICES ASSUME TableInv, InsertDone PROVE TableInv'
  OBVIOUS
<1>. DEFINE entry == [key |-> op.key, value |-> op.val]
<1>1. /\ ~Rehashing /\ ~Rehashing' /\ pc = "found" /\ pc' = "idle" /\ op' = NoCall
      /\ op.kind = "insert"
      /\ UNCHANGED <<capacity, fresh, scan>>
      /\ index' = 0 /\ tombstone' = NoSlot
      /\ reply' = Reply(entries[index].key = NULL, NULL)
      /\ entries' = [entries EXCEPT ![index] = entry]
      /\ count' = IF IsEmpty(entries[index]) THEN count + 1 ELSE count
  BY DEF InsertDone, Rehashing, Return, growVars
<1>2. /\ capacity \in Nat /\ capacity > 0 /\ count \in Nat
      /\ entries \in [0 .. capacity - 1 -> Entry]
      /\ UniqueIn(entries) /\ ReachableIn(entries, capacity)
      /\ index \in 0 .. capacity - 1
      /\ count = Cardinality(Used(entries))
      /\ 10 * (count + 1) <= 7 * capacity
      /\ op \in Calls
  BY <1>1, ProbedArray
  DEF Array, ArrayCap, TableInv, CountExact, LoadBounded, TypeOK, CallOK
<1>3. op.key \in Keys /\ op.val \in Values
  BY <1>1, <1>2 DEF Calls
<1>4. entry \in Entry /\ entry.key # NULL /\ ~IsEmpty(entry)
  BY <1>3, TableAssumption DEF Entry, IsEmpty
<1>5. Landed(entries, capacity, op.key, index)
  BY <1>1 DEF TableInv, FindCorrect, Array, ArrayCap, SoughtKey
<1>6. \A s \in 0 .. capacity - 1 : entries[s].key = op.key => s = index
  <2>1. CASE entries[index].key = op.key
    BY <2>1, <1>2, <1>3, TableAssumption DEF UniqueIn
  <2>2. CASE entries[index].key # op.key
    BY SMTT(30), <2>2, <1>2, <1>5 DEF Landed, Holds
  <2>. QED
    BY <2>1, <2>2
<1>7. \A x \in Path(Home(op.key, capacity), index, capacity) : ~IsEmpty(entries[x])
  BY <1>5 DEF Landed
<1>8. entry.key = op.key
  OBVIOUS
<1>. HIDE DEF entry
<1>9. /\ UniqueIn(entries') /\ ReachableIn(entries', capacity)
      /\ entries' \in [0 .. capacity - 1 -> Entry]
  BY <1>1, <1>2, <1>4, <1>6, <1>7, <1>8, PutKeepsLayout
<1>10. /\ ~IsEmpty(entries'[index])
       /\ \A j \in 0 .. capacity - 1 : j # index => entries'[j] = entries[j]
  BY <1>1, <1>2, <1>4
<1>11. Cardinality(Used(entries')) = IF IsEmpty(entries[index])
                                     THEN Cardinality(Used(entries)) + 1
                                     ELSE Cardinality(Used(entries))
  BY SMTT(30), <1>2, <1>9, <1>10, PutUses
<1>12. count' = Cardinality(Used(entries')) /\ count' \in Nat /\ count' <= count + 1
  BY <1>1, <1>2, <1>11
<1>13. (CountExact /\ KeysUnique /\ KeysReachable /\ GrowthFaithful)'
  <2>1. Array' = entries'
    BY <1>1 DEF Array
  <2>2. CountExact'
    BY <1>12, <2>1 DEF CountExact
  <2>3. KeysUnique'
    BY <1>1, <1>9 DEF KeysUnique
  <2>4. KeysReachable'
    BY <1>1, <1>9 DEF KeysReachable
  <2>5. GrowthFaithful'
    BY <1>1 DEF GrowthFaithful
  <2>. QED
    BY <2>2, <2>3, <2>4, <2>5
<1>14. LoadBounded'
  BY <1>1, <1>2, <1>12 DEF LoadBounded
<1>15. reply' \in [ok : BOOLEAN, val : Values \cup {NULL}]
  <2>1. Reply(entries[index].key = NULL, NULL)
          \in [ok : BOOLEAN, val : Values \cup {NULL}]
    BY DEF Reply
  <2>. QED
    BY <1>1, <2>1
<1>16. (TypeOK /\ CallOK /\ FindCorrect)'
  BY <1>1, <1>9, <1>12, <1>15 DEF TableInv, TypeOK, CallOK, FindCorrect
<1>. QED
  BY <1>13, <1>14, <1>16 DEF TableInv

(* Growing starts with an array of never used slots and nothing scanned.   *)
LEMMA InsertGrowsKeepsInv == TableInv /\ InsertGrows => TableInv'
<1>. SUFFICES ASSUME TableInv, InsertGrows PROVE TableInv'
  OBVIOUS
<1>1. /\ ~Rehashing /\ Rehashing' /\ pc = "called" /\ pc' = "rehash"
      /\ op.kind = "insert"
      /\ fresh' = [s \in 0 .. NewCapacity - 1 |-> Unused]
      /\ scan' = 0 /\ count' = 0
      /\ UNCHANGED <<entries, capacity, op, index, tombstone, reply>>
  BY DEF InsertGrows, Rehashing, findVars
<1>2. /\ capacity \in Nat /\ NewCapacity \in Nat /\ NewCapacity' = NewCapacity
      /\ Unused \in Entry
  BY <1>1, TableAssumption DEF TableInv, TypeOK, NewCapacity, Unused, Entry
<1>3. fresh' \in [0 .. NewCapacity - 1 -> Entry]
  BY <1>1, <1>2
<1>4. \A s \in 0 .. NewCapacity - 1 : fresh'[s] = Unused /\ fresh'[s].key = NULL
  BY <1>1 DEF Unused
<1>5. CountExact'
  <2>1. Array' = fresh'
    BY <1>1 DEF Array
  <2>2. Used(fresh') = {}
    BY <1>1 DEF Used, IsEmpty, Unused
  <2>. QED
    BY <1>1, <2>1, <2>2, FS_EmptySet DEF CountExact
<1>6. KeysUnique'
  <2>1. UniqueIn(fresh')
    BY <1>3, <1>4 DEF UniqueIn
  <2>. QED
    BY <1>1, <2>1 DEF TableInv, KeysUnique
<1>7. KeysReachable'
  <2>1. ReachableIn(fresh', NewCapacity)
    BY <1>4 DEF ReachableIn
  <2>. QED
    BY <1>1, <1>2, <2>1 DEF TableInv, KeysReachable
<1>8. GrowthFaithful'
  BY <1>1, <1>3, <1>4 DEF GrowthFaithful
<1>9. (TypeOK /\ CallOK /\ LoadBounded /\ FindCorrect)'
  BY <1>1, <1>2, <1>3
  DEF TableInv, TypeOK, CallOK, LoadBounded, FindCorrect
<1>. QED
  BY <1>5, <1>6, <1>7, <1>8, <1>9 DEF TableInv

LEMMA RehashSkipKeepsInv == TableInv /\ RehashSkip => TableInv'
<1>. SUFFICES ASSUME TableInv, RehashSkip PROVE TableInv'
  OBVIOUS
<1>1. /\ Rehashing /\ Rehashing' /\ pc = "rehash" /\ pc' = "rehash"
      /\ scan < capacity /\ entries[scan].key = NULL /\ scan' = scan + 1
      /\ UNCHANGED <<entries, capacity, count, op, fresh, index, tombstone, reply>>
  BY DEF RehashSkip, Rehashing, tableVars, findVars
<1>2. /\ scan \in 0 .. capacity /\ capacity \in Nat /\ count \in Nat
      /\ NewCapacity' = NewCapacity
  BY <1>1 DEF TableInv, TypeOK, NewCapacity
<1>3. Array' = fresh' /\ Array = fresh
  BY <1>1 DEF Array
<1>4. (CountExact /\ KeysUnique /\ KeysReachable)'
  BY <1>1, <1>2, <1>3 DEF TableInv, CountExact, KeysUnique, KeysReachable
<1>5. GrowthFaithful'
  <2>1. 0 .. scan' - 1 = 0 .. scan - 1 \cup {scan}
    BY <1>1, <1>2
  <2>. QED
    BY <1>1, <1>2, <2>1 DEF TableInv, GrowthFaithful
<1>6. (TypeOK /\ CallOK /\ LoadBounded /\ FindCorrect)'
  BY <1>1, <1>2
  DEF TableInv, TypeOK, CallOK, LoadBounded, FindCorrect
<1>. QED
  BY <1>4, <1>5, <1>6 DEF TableInv

LEMMA RehashFindKeepsInv == TableInv /\ RehashFind => TableInv'
<1>. SUFFICES ASSUME TableInv, RehashFind PROVE TableInv'
  OBVIOUS
<1>1. /\ Rehashing /\ Rehashing' /\ pc = "rehash" /\ pc' = "refind"
      /\ scan < capacity /\ entries[scan].key # NULL
      /\ index' = Home(entries[scan].key, NewCapacity) /\ tombstone' = NoSlot
      /\ UNCHANGED <<entries, capacity, count, op, fresh, scan, reply>>
  BY DEF RehashFind, Rehashing, StartFind, tableVars, growVars
<1>2. /\ scan \in 0 .. capacity /\ capacity \in Nat
      /\ entries \in [0 .. capacity - 1 -> Entry]
  BY <1>1 DEF TableInv, TypeOK
<1>3. entries[scan].key \in Keys
  BY <1>1, <1>2 DEF Entry
<1>4. NewCapacity \in Nat /\ NewCapacity > 0 /\ NewCapacity' = NewCapacity
  BY <1>1, <1>2, TableAssumption DEF NewCapacity
<1>5. Array' = fresh /\ Array = fresh
  BY <1>1 DEF Array
<1>6. (CountExact /\ KeysUnique /\ KeysReachable)'
  BY <1>1, <1>4, <1>5 DEF TableInv, CountExact, KeysUnique, KeysReachable
<1>7. GrowthFaithful'
  BY <1>1 DEF TableInv, GrowthFaithful
<1>8. index' \in Nat /\ Walked(fresh, NewCapacity, entries[scan].key, index', tombstone')
  BY <1>1, <1>3, <1>4, StartWalks
<1>9. FindCorrect'
  <2>1. ArrayCap' = NewCapacity /\ SoughtKey' = entries[scan].key
    BY <1>1, <1>4 DEF ArrayCap, SoughtKey
  <2>. QED
    BY <1>1, <1>5, <1>8, <2>1 DEF FindCorrect
<1>10. (TypeOK /\ CallOK /\ LoadBounded)'
  BY <1>1, <1>4, <1>8 DEF TableInv, TypeOK, CallOK, LoadBounded
<1>. QED
  BY <1>6, <1>7, <1>9, <1>10 DEF TableInv

(* A moved key is new to the fresh array, which has no tombstone, so it    *)
(* takes a never used slot: nothing is overwritten and count stays exact.  *)
LEMMA RehashMoveKeepsInv == TableInv /\ RehashMove => TableInv'
<1>. SUFFICES ASSUME TableInv, RehashMove PROVE TableInv'
  OBVIOUS
<1>. DEFINE k == entries[scan].key
<1>1. /\ Rehashing /\ Rehashing' /\ pc = "refound" /\ pc' = "rehash"
      /\ fresh' = [fresh EXCEPT ![index] = entries[scan]]
      /\ count' = count + 1 /\ scan' = scan + 1
      /\ UNCHANGED <<entries, capacity, op, index, tombstone, reply>>
  BY DEF RehashMove, Rehashing, findVars
<1>2. /\ NewCapacity \in Nat /\ NewCapacity > 0 /\ index \in 0 .. NewCapacity - 1
      /\ fresh \in [0 .. NewCapacity - 1 -> Entry]
      /\ UniqueIn(fresh) /\ ReachableIn(fresh, NewCapacity)
      /\ NewCapacity' = NewCapacity
  BY <1>1, ProbedArray DEF Array, ArrayCap, NewCapacity
<1>3. /\ capacity \in Nat /\ count \in Nat /\ scan \in Nat
      /\ entries \in [0 .. capacity - 1 -> Entry]
      /\ scan < capacity /\ k # NULL /\ entries[scan] \in Entry
      /\ count <= scan /\ count = Cardinality(Used(fresh))
      /\ op.kind = "insert" /\ op # NoCall
  BY <1>1 DEF TableInv, TypeOK, GrowthFaithful, CountExact, Array, CallOK
<1>4. Landed(fresh, NewCapacity, k, index)
  BY <1>1 DEF TableInv, FindCorrect, Array, ArrayCap, SoughtKey
<1>5. \A t \in 0 .. NewCapacity - 1 : fresh[t].key # k
  <2>1. SUFFICES ASSUME NEW t \in 0 .. NewCapacity - 1, fresh[t].key = k
                 PROVE  FALSE
    OBVIOUS
  <2>2. PICK s \in 0 .. scan - 1 : entries[s] = fresh[t]
    BY <1>1, <1>2, <1>3, <2>1 DEF TableInv, GrowthFaithful
  <2>3. entries[s].key = entries[scan].key /\ s # scan /\ s \in 0 .. capacity - 1
    BY <1>3, <2>1, <2>2
  <2>. QED
    BY <1>3, <2>3 DEF TableInv, KeysUnique, UniqueIn
<1>6. fresh[index] = Unused /\ IsEmpty(fresh[index])
  BY <1>1, <1>2, <1>4, <1>5 DEF TableInv, GrowthFaithful, Landed, IsEmpty, Unused
<1>7. ~IsEmpty(entries[scan])
  BY <1>3 DEF IsEmpty
<1>8. \A x \in Path(Home(k, NewCapacity), index, NewCapacity) : ~IsEmpty(fresh[x])
  BY <1>4 DEF Landed
<1>9. /\ UniqueIn(fresh') /\ ReachableIn(fresh', NewCapacity)
      /\ fresh' \in [0 .. NewCapacity - 1 -> Entry]
  BY <1>1, <1>2, <1>3, <1>5, <1>7, <1>8, PutKeepsLayout
<1>10. /\ fresh'[index] = entries[scan]
       /\ \A j \in 0 .. NewCapacity - 1 : j # index => fresh'[j] = fresh[j]
  BY <1>1, <1>2
<1>11. Cardinality(Used(fresh')) = count + 1
  <2>1. ~IsEmpty(fresh'[index])
    BY <1>7, <1>10
  <2>2. Cardinality(Used(fresh')) = Cardinality(Used(fresh)) + 1
    BY <1>2, <1>6, <1>9, <1>10, <2>1, PutUses
  <2>. QED
    BY <1>3, <2>2
<1>12. CountExact'
  <2>1. Array' = fresh'
    BY <1>1 DEF Array
  <2>. QED
    BY <1>1, <1>11, <2>1 DEF CountExact
<1>13. KeysUnique'
  BY <1>1, <1>9 DEF TableInv, KeysUnique
<1>14. KeysReachable'
  BY <1>1, <1>2, <1>9 DEF TableInv, KeysReachable
<1>15. GrowthFaithful'
  <2>1. count' <= scan'
    BY <1>1, <1>3
  <2>2. \A t \in DOMAIN fresh' : fresh'[t].key = NULL => fresh'[t] = Unused
    BY <1>1, <1>2, <1>3, <1>9, <1>10 DEF TableInv, GrowthFaithful
  <2>3. ASSUME NEW t \in DOMAIN fresh', fresh'[t].key # NULL
        PROVE  \E s \in 0 .. scan : entries[s] = fresh'[t]
    <3>1. CASE t = index
      BY <3>1, <1>3, <1>10
    <3>2. CASE t # index
      BY <3>2, <2>3, <1>1, <1>2, <1>3, <1>9, <1>10 DEF TableInv, GrowthFaithful
    <3>. QED
      BY <3>1, <3>2
  <2>4. ASSUME NEW s \in 0 .. scan, entries[s].key # NULL
        PROVE  \E t \in DOMAIN fresh' : fresh'[t] = entries[s]
    <3>1. CASE s = scan
      BY <3>1, <1>2, <1>9, <1>10
    <3>2. CASE s # scan
      <4>1. PICK t \in 0 .. NewCapacity - 1 : fresh[t] = entries[s]
        BY <3>2, <2>4, <1>1, <1>2, <1>3 DEF TableInv, GrowthFaithful
      <4>2. t # index
        BY <4>1, <2>4, <1>6 DEF Unused
      <4>. QED
        BY <4>1, <4>2, <1>9, <1>10
    <3>. QED
      BY <3>1, <3>2
  <2>5. 0 .. scan' - 1 = 0 .. scan
    BY <1>1, <1>3
  <2>6. \A t \in DOMAIN fresh' : fresh'[t].key # NULL =>
          \E s \in 0 .. scan' - 1 : entries'[s] = fresh'[t]
    BY <1>1, <2>3, <2>5
  <2>7. \A s \in 0 .. scan' - 1 : entries'[s].key # NULL =>
          \E t \in DOMAIN fresh' : fresh'[t] = entries'[s]
    BY <1>1, <2>4, <2>5
  <2>8. pc' = "rehash"
    BY <1>1
  <2>. QED
    BY <2>1, <2>2, <2>6, <2>7, <2>8 DEF GrowthFaithful
<1>16. (TypeOK /\ CallOK /\ LoadBounded /\ FindCorrect)'
  BY <1>1, <1>2, <1>3, <1>9
  DEF TableInv, TypeOK, CallOK, LoadBounded, FindCorrect
<1>. QED
  BY <1>12, <1>13, <1>14, <1>15, <1>16 DEF TableInv

(* The grown array has more than twice the slots it has keys, so that the  *)
(* insert that grew the table is under the load factor.                    *)
LEMMA RehashEndKeepsInv == TableInv /\ RehashEnd => TableInv'
<1>. SUFFICES ASSUME TableInv, RehashEnd PROVE TableInv'
  OBVIOUS
<1>1. /\ Rehashing /\ ~Rehashing' /\ pc = "rehash" /\ pc' = "find"
      /\ scan = capacity /\ entries' = fresh /\ capacity' = NewCapacity
      /\ scan' = 0
      /\ index' = Home(op.key, NewCapacity) /\ tombstone' = NoSlot
      /\ UNCHANGED <<count, op, reply>>
  BY DEF RehashEnd, Rehashing, StartFind
<1>2. /\ capacity \in Nat /\ count \in Nat /\ count <= capacity
      /\ fresh \in [0 .. NewCapacity - 1 -> Entry]
      /\ op \in Calls /\ op.kind = "insert"
  BY <1>1 DEF TableInv, TypeOK, CallOK, GrowthFaithful
<1>3. /\ NewCapacity \in Nat /\ NewCapacity > 0
      /\ 10 * (count + 1) <= 7 * NewCapacity /\ op.key \in Keys
  BY <1>2, TableAssumption DEF NewCapacity, Calls
<1>4. index' \in Nat /\ Walked(fresh, NewCapacity, op.key, index', tombstone')
  BY <1>1, <1>3, StartWalks
<1>5. /\ Array' = fresh /\ ArrayCap' = NewCapacity /\ SoughtKey' = op.key
      /\ Array = fresh
  BY <1>1 DEF Array, ArrayCap, SoughtKey
<1>6. FindCorrect'
  BY <1>1, <1>4, <1>5 DEF FindCorrect
<1>7. CountExact'
  BY <1>1, <1>5 DEF TableInv, CountExact
<1>8. (KeysUnique /\ KeysReachable)'
  <2>1. UniqueIn(fresh) /\ ReachableIn(fresh, NewCapacity)
    BY <1>1 DEF TableInv, KeysUnique, KeysReachable
  <2>. QED
    BY <1>1, <2>1 DEF KeysUnique, KeysReachable
<1>9. GrowthFaithful'
  BY <1>1 DEF GrowthFaithful
<1>10. (TypeOK /\ CallOK /\ LoadBounded)'
  BY <1>1, <1>2, <1>3, <1>4 DEF TableInv, TypeOK, CallOK, LoadBounded
<1>. QED
  BY <1>6, <1>7, <1>8, <1>9, <1>10 DEF TableInv

LEMMA StutterKeepsInv == TableInv /\ UNCHANGED vars => TableInv'
<1>. SUFFICES ASSUME TableInv, UNCHANGED vars PROVE TableInv'
  OBVIOUS
<1>1. UNCHANGED <<entries, capacity, count, pc, op, fresh, scan, index, tombstone,
                  reply>>
  BY DEF vars, tableVars, growVars, findVars
<1>2. UNCHANGED <<Rehashing, NewCapacity, Array, ArrayCap, SoughtKey>>
  BY <1>1 DEF Rehashing, NewCapacity, Array, ArrayCap, SoughtKey
<1>. QED
  BY <1>1, <1>2 DEF TableInv, TypeOK, CallOK, CountExact, LoadBounded, KeysUnique,
       KeysReachable, GrowthFaithful, FindCorrect

LEMMA NextKeepsInv == TableInv /\ [Next]_vars => TableInv'
  BY CallKeepsInv, FindsKeepInv, LookupEmptyKeepsInv, FreeKeepsInv, ProbeKeepsInv,
     GetDoneKeepsInv, DeleteDoneKeepsInv, InsertDoneKeepsInv, InsertGrowsKeepsInv,
     RehashSkipKeepsInv, RehashFindKeepsInv, RehashMoveKeepsInv,
     RehashEndKeepsInv, StutterKeepsInv
  DEF Next, Work
-----------------------------------------------------------------------------
(* The table's layout, its count, its load and every probe in progress are *)
(* right in every reachable state, for any keys, hashes and growth.        *)
THEOREM TableInvariant == Spec => []TableInv
  BY InitTableInv, NextKeepsInv, PTL DEF Spec

(* Every probe walks an array that has a never used slot, so that the      *)
(* "for (;;)" of tr_table_find_entry has a way out even for absent keys.   *)
THEOREM ProbesEnd == Spec => []ProbeMeetsEmptySlot
<1>1. TableInv => ProbeMeetsEmptySlot
  <2>. SUFFICES ASSUME TableInv, pc \in {"find", "refind"}
                PROVE  \E s \in DOMAIN Array : IsEmpty(Array[s])
    BY DEF ProbeMeetsEmptySlot
  <2>1. /\ ArrayCap \in Nat /\ Array \in [0 .. ArrayCap - 1 -> Entry]
        /\ Cardinality(Used(Array)) < ArrayCap
    BY ProbedArray
  <2>. QED
    BY <2>1, EmptySlotExists
<1>. QED
  BY <1>1, TableInvariant, PTL
(* The array in use has the capacity the struct says, and holds entries.   *)
THEOREM TableTypes == Spec => []TypeOK
<1>1. TableInv => TypeOK
  BY DEF TableInv
<1>. QED
  BY <1>1, TableInvariant, PTL

(* count is the number of slots in use, tombstones included, at all times. *)
THEOREM CountsExact == Spec => []CountExact
<1>1. TableInv => CountExact
  BY DEF TableInv
<1>. QED
  BY <1>1, TableInvariant, PTL

(* No sequence of insertions, deletions and rehashes stores a key twice.   *)
THEOREM KeysStoredOnce == Spec => []KeysUnique
<1>1. TableInv => KeysUnique
  BY DEF TableInv
<1>. QED
  BY <1>1, TableInvariant, PTL

(* No slot on the way from a stored key's home to the key is ever empty.   *)
THEOREM KeysStayReachable == Spec => []KeysReachable
<1>1. TableInv => KeysReachable
  BY DEF TableInv
<1>. QED
  BY <1>1, TableInvariant, PTL
-----------------------------------------------------------------------------
(* The refinement: what the array of entries says of the map.              *)

LEMMA MapAt ==
  ASSUME NEW S, NEW A \in [S -> Entry], UniqueIn(A),
         NEW k \in Keys, NEW s \in S, A[s].key = k
  PROVE  MapOf(A)[k] = A[s].value
<1>1. Holds(A, k)
  BY DEF Holds
<1>2. SlotOf(A, k) \in S /\ A[SlotOf(A, k)].key = k
  BY DEF SlotOf
<1>3. SlotOf(A, k) = s
  BY <1>2, TableAssumption DEF UniqueIn
<1>. QED
  BY <1>1, <1>3 DEF MapOf

LEMMA MapAbsent ==
  ASSUME NEW A, NEW k \in Keys, ~Holds(A, k)
  PROVE  MapOf(A)[k] = NULL
  BY DEF MapOf

(* A key written over its own slot or into a free one changes the map at   *)
(* that key only.                                                          *)
LEMMA MapPut ==
  ASSUME NEW S, NEW A \in [S -> Entry], UniqueIn(A),
         NEW B \in [S -> Entry], UniqueIn(B),
         NEW i \in S, NEW k \in Keys,
         A[i].key \in {NULL, k}, B[i].key = k,
         \A j \in S : j # i => B[j] = A[j]
  PROVE  MapOf(B) = [MapOf(A) EXCEPT ![k] = B[i].value]
<1>1. MapOf(B)[k] = B[i].value
  BY MapAt
<1>2. ASSUME NEW other \in Keys, other # k
      PROVE  MapOf(B)[other] = MapOf(A)[other]
  <2>1. CASE Holds(A, other)
    <3>1. PICK s \in S : A[s].key = other
      BY <2>1 DEF Holds
    <3>2. s # i /\ B[s] = A[s]
      BY <3>1, <1>2, TableAssumption
    <3>3. MapOf(A)[other] = A[s].value
      BY <3>1, MapAt
    <3>4. MapOf(B)[other] = B[s].value
      BY <3>1, <3>2, MapAt
    <3>. QED
      BY <3>2, <3>3, <3>4
  <2>2. CASE ~Holds(A, other)
    <3>1. ~Holds(B, other)
      BY <2>2, <1>2 DEF Holds
    <3>. QED
      BY <2>2, <3>1, MapAbsent
  <2>. QED
    BY <2>1, <2>2
<1>. QED
  BY <1>1, <1>2 DEF MapOf

(* A tombstone written over a key takes that key out of the map.           *)
LEMMA MapBury ==
  ASSUME NEW S, NEW A \in [S -> Entry], UniqueIn(A),
         NEW B \in [S -> Entry], UniqueIn(B),
         NEW i \in S, NEW k \in Keys,
         A[i].key = k, B[i].key = NULL,
         \A j \in S : j # i => B[j] = A[j]
  PROVE  MapOf(B) = [MapOf(A) EXCEPT ![k] = NULL]
<1>1. ~Holds(B, k)
  BY TableAssumption DEF Holds, UniqueIn
<1>2. MapOf(B)[k] = NULL
  BY <1>1, MapAbsent
<1>3. ASSUME NEW other \in Keys, other # k
      PROVE  MapOf(B)[other] = MapOf(A)[other]
  <2>1. CASE Holds(A, other)
    <3>1. PICK s \in S : A[s].key = other
      BY <2>1 DEF Holds
    <3>2. s # i /\ B[s] = A[s]
      BY <3>1, <1>3
    <3>3. MapOf(A)[other] = A[s].value
      BY <3>1, MapAt
    <3>4. MapOf(B)[other] = B[s].value
      BY <3>1, <3>2, MapAt
    <3>. QED
      BY <3>2, <3>3, <3>4
  <2>2. CASE ~Holds(A, other)
    <3>1. ~Holds(B, other)
      BY <2>2, TableAssumption DEF Holds
    <3>. QED
      BY <2>2, <3>1, MapAbsent
  <2>. QED
    BY <2>1, <2>2
<1>. QED
  <2>1. /\ DOMAIN MapOf(A) = Keys /\ DOMAIN MapOf(B) = Keys
        /\ MapOf(B) = [x \in Keys |-> MapOf(B)[x]]
        /\ MapOf(A) = [x \in Keys |-> MapOf(A)[x]]
    BY DEF MapOf
  <2>. QED
    BY <1>2, <1>3, <2>1

(* Two arrays that hold the same keys with the same values are one map.    *)
LEMMA MapMoved ==
  ASSUME NEW S, NEW A \in [S -> Entry], UniqueIn(A),
         NEW T, NEW B \in [T -> Entry], UniqueIn(B),
         \A s \in S : A[s].key # NULL =>
           \E t \in T : B[t] = A[s],
         \A t \in T : B[t].key # NULL =>
           \E s \in S : A[s] = B[t]
  PROVE  MapOf(A) = MapOf(B)
<1>1. ASSUME NEW k \in Keys PROVE MapOf(A)[k] = MapOf(B)[k]
  <2>1. CASE Holds(A, k)
    <3>1. PICK s \in S : A[s].key = k
      BY <2>1 DEF Holds
    <3>2. PICK t \in T : B[t] = A[s]
      <4>1. A[s].key # NULL
        BY <3>1, TableAssumption
      <4>. QED
        BY <4>1
    <3>3. MapOf(A)[k] = A[s].value
      BY <3>1, MapAt
    <3>4. t \in T /\ B[t].key = k
      BY <3>1, <3>2
    <3>5. MapOf(B)[k] = B[t].value
      BY <3>4, MapAt
    <3>. QED
      BY <3>2, <3>3, <3>5
  <2>2. CASE ~Holds(A, k)
    <3>1. ~Holds(B, k)
      <4>1. SUFFICES ASSUME NEW t \in T, B[t].key = k PROVE FALSE
        BY DEF Holds
      <4>2. PICK s \in S : A[s] = B[t]
        BY <4>1, TableAssumption
      <4>. QED
        BY <4>1, <4>2, <2>2 DEF Holds
    <3>. QED
      BY <2>2, <3>1, MapAbsent
  <2>. QED
    BY <2>1, <2>2
<1>. QED
  BY <1>1 DEF MapOf

LEMMA InitRefines == Init => Abstract!MapInit
<1>. SUFFICES ASSUME Init PROVE Abstract!MapInit
  OBVIOUS
<1>1. \A k \in Keys : ~Holds(entries, k)
  BY DEF Init, Holds
<1>2. MapOf(entries) = [k \in Keys |-> NULL]
  BY <1>1 DEF MapOf
<1>. QED
  BY <1>2 DEF Init, Abstract!MapInit, NoCall, Abstract!NoCall, Void, Abstract!Void,
       Reply, Abstract!Reply

(* The steps before the one that takes effect are stutterings of the map.  *)
LEMMA StutterRefines ==
  ASSUME UNCHANGED <<entries, op, reply>>
  PROVE  UNCHANGED Abstract!mapVars
  BY DEF Abstract!mapVars, MapOf, Holds, SlotOf

LEMMA CallRefines == TableInv /\ Call => Abstract!MapRequest
<1>. SUFFICES ASSUME TableInv, Call PROVE Abstract!MapRequest
  OBVIOUS
<1>1. op = NoCall
  BY DEF Call, TableInv, CallOK
<1>2. op' \in Calls /\ UNCHANGED <<entries, reply>>
  BY DEF Call, tableVars
<1>3. UNCHANGED MapOf(entries)
  BY <1>2 DEF MapOf, Holds, SlotOf
<1>. QED
  BY <1>1, <1>2, <1>3 DEF Abstract!MapRequest, NoCall, Abstract!NoCall, Calls,
       Abstract!Calls

(* Growth moves every entry and loses none: the map is the same after it.  *)
LEMMA RehashEndRefines == TableInv /\ RehashEnd => UNCHANGED Abstract!mapVars
<1>. SUFFICES ASSUME TableInv, RehashEnd PROVE UNCHANGED Abstract!mapVars
  OBVIOUS
<1>1. Rehashing /\ scan = capacity /\ entries' = fresh /\ UNCHANGED <<op, reply>>
  BY DEF RehashEnd, Rehashing
<1>2. /\ capacity \in Nat /\ entries \in [0 .. capacity - 1 -> Entry]
      /\ NewCapacity \in Nat /\ fresh \in [0 .. NewCapacity - 1 -> Entry]
      /\ UniqueIn(entries) /\ UniqueIn(fresh)
  BY <1>1, TableAssumption DEF TableInv, TypeOK, KeysUnique, NewCapacity
<1>3. /\ \A s \in 0 .. capacity - 1 : entries[s].key # NULL =>
           \E t \in 0 .. NewCapacity - 1 : fresh[t] = entries[s]
      /\ \A t \in 0 .. NewCapacity - 1 : fresh[t].key # NULL =>
           \E s \in 0 .. capacity - 1 : entries[s] = fresh[t]
  BY <1>1, <1>2 DEF TableInv, GrowthFaithful
<1>4. MapOf(entries) = MapOf(fresh)
  <2>. DEFINE S == 0 .. capacity - 1
              T == 0 .. NewCapacity - 1
  <2>1. /\ entries \in [S -> Entry] /\ fresh \in [T -> Entry]
        /\ \A s \in S : entries[s].key # NULL => \E t \in T : fresh[t] = entries[s]
        /\ \A t \in T : fresh[t].key # NULL => \E s \in S : entries[s] = fresh[t]
    BY <1>2, <1>3
  <2>. HIDE DEF S, T
  <2>. QED
    BY <1>2, <2>1, MapMoved
<1>5. MapOf(entries)' = MapOf(fresh)
  BY <1>1 DEF MapOf, Holds, SlotOf
<1>. QED
  BY <1>1, <1>4, <1>5 DEF Abstract!mapVars

(* What a lookup that landed knows of the map at the key it sought.        *)
LEMMA LandedMap ==
  ASSUME TableInv, pc = "found"
  PROVE  /\ capacity \in Nat /\ entries \in [0 .. capacity - 1 -> Entry]
         /\ index \in 0 .. capacity - 1 /\ op \in Calls /\ op.key \in Keys
         /\ UniqueIn(entries)
         /\ entries[index].key \in {NULL, op.key}
         /\ entries[index].key = NULL => MapOf(entries)[op.key] = NULL
         /\ entries[index].key # NULL =>
              /\ MapOf(entries)[op.key] = entries[index].value
              /\ MapOf(entries)[op.key] # NULL
<1>1. /\ capacity \in Nat /\ entries \in [0 .. capacity - 1 -> Entry]
      /\ index \in 0 .. capacity - 1 /\ op.key \in Keys
      /\ UniqueIn(entries) /\ Landed(entries, capacity, op.key, index)
  BY ProbedArray DEF TableInv, FindCorrect, Array, ArrayCap, SoughtKey, Rehashing
<1>2. op \in Calls
  BY DEF TableInv, TypeOK, CallOK
<1>3. entries[index].key \in {NULL, op.key}
  BY <1>1 DEF Landed
<1>4. entries[index].key = NULL => MapOf(entries)[op.key] = NULL
  BY <1>1, MapAbsent DEF Landed
<1>5. ASSUME entries[index].key # NULL
      PROVE  /\ MapOf(entries)[op.key] = entries[index].value
             /\ MapOf(entries)[op.key] # NULL
  <2>1. MapOf(entries)[op.key] = entries[index].value
    BY <1>1, <1>3, <1>5, MapAt
  <2>2. entries[index].value \in Values
    BY <1>1 DEF Entry
  <2>. QED
    BY <2>1, <2>2, TableAssumption
<1>. QED
  BY <1>1, <1>2, <1>3, <1>4, <1>5

LEMMA InsertRefines == TableInv /\ InsertDone => Abstract!MapInsert
<1>. SUFFICES ASSUME TableInv, InsertDone PROVE Abstract!MapInsert
  OBVIOUS
<1>1. /\ pc = "found" /\ op.kind = "insert" /\ op' = NoCall
      /\ entries' = [entries EXCEPT ![index] = [key |-> op.key, value |-> op.val]]
      /\ reply' = Reply(entries[index].key = NULL, NULL)
      /\ capacity' = capacity /\ pc' = "idle"
  BY DEF InsertDone, Return
<1>2. /\ entries' \in [0 .. capacity - 1 -> Entry] /\ UniqueIn(entries')
  BY <1>1, InsertDoneKeepsInv DEF TableInv, TypeOK, KeysUnique
<1>3. /\ entries'[index].key = op.key /\ entries'[index].value = op.val
      /\ \A j \in 0 .. capacity - 1 : j # index => entries'[j] = entries[j]
  BY <1>1, LandedMap
<1>4. MapOf(entries') = [MapOf(entries) EXCEPT ![op.key] = entries'[index].value]
  <2>1. /\ capacity \in Nat /\ entries \in [0 .. capacity - 1 -> Entry]
        /\ UniqueIn(entries) /\ index \in 0 .. capacity - 1 /\ op.key \in Keys
        /\ entries[index].key \in {NULL, op.key}
    BY <1>1, LandedMap
  <2>. QED
    BY <1>2, <1>3, <2>1, MapPut
<1>5. reply' = Reply(MapOf(entries)[op.key] = NULL, NULL)
  BY <1>1, LandedMap DEF Reply
<1>. QED
  BY <1>1, <1>3, <1>4, <1>5 DEF Abstract!MapInsert, Abstract!Present, Abstract!NoCall,
       NoCall, Abstract!Reply, Reply

LEMMA DeleteRefines == TableInv /\ DeleteDone => Abstract!MapDelete
<1>. SUFFICES ASSUME TableInv, DeleteDone PROVE Abstract!MapDelete
  OBVIOUS
<1>1. /\ pc = "found" /\ op.kind = "delete" /\ op' = NoCall
      /\ capacity' = capacity /\ pc' = "idle"
  BY DEF DeleteDone, Return
<1>2. entries' \in [0 .. capacity - 1 -> Entry] /\ UniqueIn(entries')
  BY <1>1, DeleteDoneKeepsInv DEF TableInv, TypeOK, KeysUnique
<1>3. CASE entries[index].key = NULL
  <2>1. entries' = entries /\ reply' = Void
    BY <1>3 DEF DeleteDone, Return
  <2>2. MapOf(entries)[op.key] = NULL /\ op.key \in Keys
    BY <1>1, <1>3, LandedMap
  <2>3. MapOf(entries') = [MapOf(entries) EXCEPT ![op.key] = NULL]
    BY <2>1, <2>2 DEF MapOf
  <2>. QED
    BY <1>1, <2>1, <2>2, <2>3 DEF Abstract!MapDelete, Abstract!Present,
       Abstract!NoCall, NoCall, Abstract!Reply, Reply, Void
<1>4. CASE entries[index].key # NULL
  <2>1. /\ entries' = [entries EXCEPT ![index] = [key |-> NULL, value |-> Deleted]]
        /\ reply' = Reply(TRUE, NULL)
    BY <1>4 DEF DeleteDone, Return
  <2>2. /\ MapOf(entries)[op.key] # NULL /\ op.key \in Keys
        /\ entries[index].key = op.key
    BY <1>1, <1>4, LandedMap
  <2>3. /\ entries'[index].key = NULL
        /\ \A j \in 0 .. capacity - 1 : j # index => entries'[j] = entries[j]
    BY <1>1, <2>1, LandedMap
  <2>4. MapOf(entries') = [MapOf(entries) EXCEPT ![op.key] = NULL]
    <3>1. /\ capacity \in Nat /\ entries \in [0 .. capacity - 1 -> Entry]
          /\ UniqueIn(entries) /\ index \in 0 .. capacity - 1
      BY <1>1, LandedMap
    <3>2. entries[index].key = op.key /\ op.key \in Keys
      BY <2>2
    <3>. QED
      BY ONLY SMTT(30), <1>2, <2>3, <3>1, <3>2, MapBury
  <2>. QED
    BY <1>1, <2>1, <2>2, <2>4 DEF Abstract!MapDelete, Abstract!Present,
       Abstract!NoCall, NoCall, Abstract!Reply, Reply
<1>. QED
  BY <1>3, <1>4

LEMMA GetRefines == TableInv /\ GetDone => Abstract!MapGet
<1>. SUFFICES ASSUME TableInv, GetDone PROVE Abstract!MapGet
  OBVIOUS
<1>1. /\ pc = "found" /\ op.kind = "get" /\ op' = NoCall /\ entries' = entries
      /\ reply' = IF entries[index].key = NULL
                  THEN Void ELSE Reply(TRUE, entries[index].value)
  BY DEF GetDone, Return, tableVars
<1>2. reply' = Reply(MapOf(entries)[op.key] # NULL, MapOf(entries)[op.key])
  BY <1>1, LandedMap DEF Void, Reply
<1>3. UNCHANGED MapOf(entries)
  BY <1>1 DEF MapOf, Holds, SlotOf
<1>. QED
  BY <1>1, <1>2, <1>3 DEF Abstract!MapGet, Abstract!Present, Abstract!NoCall, NoCall,
       Abstract!Reply, Reply

(* The early return: a table with no used slot is the empty map.           *)
LEMMA EmptyRefines ==
  TableInv /\ LookupEmpty => Abstract!MapGet \/ Abstract!MapDelete
<1>. SUFFICES ASSUME TableInv, LookupEmpty
              PROVE  Abstract!MapGet \/ Abstract!MapDelete
  OBVIOUS
<1>1. /\ pc = "called" /\ op.kind \in {"get", "delete"} /\ count = 0 /\ op' = NoCall
      /\ reply' = Void /\ entries' = entries
  BY DEF LookupEmpty, Return, tableVars
<1>2. /\ capacity \in Nat /\ entries \in [0 .. capacity - 1 -> Entry]
      /\ op \in Calls /\ Cardinality(Used(entries)) = 0
  BY <1>1 DEF TableInv, TypeOK, CallOK, CountExact, Array, Rehashing
<1>3. op.key \in Keys
  BY <1>1, <1>2 DEF Calls
<1>4. Used(entries) = {}
  BY <1>2, UsedFinite, FS_EmptySet
<1>5. ~Holds(entries, op.key)
  BY <1>2, <1>3, <1>4, TableAssumption DEF Holds, Used, IsEmpty
<1>6. MapOf(entries)[op.key] = NULL
  BY <1>3, <1>5, MapAbsent
<1>7. MapOf(entries)' = MapOf(entries)
  BY <1>1 DEF MapOf, Holds, SlotOf
<1>8. MapOf(entries) = [MapOf(entries) EXCEPT ![op.key] = NULL]
  BY <1>6, <1>3 DEF MapOf
<1>9. CASE op.kind = "get"
  BY <1>1, <1>6, <1>7, <1>9 DEF Abstract!MapGet, Abstract!Present, Abstract!NoCall,
     NoCall, Abstract!Reply, Reply, Void
<1>10. CASE op.kind = "delete"
  BY <1>1, <1>6, <1>7, <1>8, <1>10 DEF Abstract!MapDelete, Abstract!Present,
     Abstract!NoCall, NoCall, Abstract!Reply, Reply, Void
<1>. QED
  BY <1>1, <1>9, <1>10

LEMMA FreeRefines == TableInv /\ Free => Abstract!MapFree
<1>. SUFFICES ASSUME TableInv, Free PROVE Abstract!MapFree
  OBVIOUS
<1>1. /\ op.kind = "free" /\ op' = NoCall /\ reply' = Void
      /\ entries' = [s \in {} |-> Unused]
  BY DEF Free, Return
<1>2. \A k \in Keys : ~Holds(entries', k)
  BY <1>1 DEF Holds
<1>3. MapOf(entries') = [k \in Keys |-> NULL]
  BY <1>2 DEF MapOf
<1>. QED
  BY <1>1, <1>3 DEF Abstract!MapFree, Abstract!NoCall, NoCall, Abstract!Void, Void,
     Abstract!Reply, Reply

LEMMA NextRefines ==
  TableInv /\ [Next]_vars => [Abstract!MapNext]_(Abstract!mapVars)
<1>. SUFFICES ASSUME TableInv, [Next]_vars
              PROVE  [Abstract!MapNext]_(Abstract!mapVars)
  OBVIOUS
<1>1. CASE Call
  BY <1>1, CallRefines DEF Abstract!MapNext
<1>2. CASE InsertDone \/ DeleteDone \/ GetDone \/ LookupEmpty \/ Free
  BY <1>2, InsertRefines, DeleteRefines, GetRefines, EmptyRefines, FreeRefines
  DEF Abstract!MapNext
<1>3. CASE RehashEnd
  BY <1>3, RehashEndRefines
<1>4. CASE \/ InsertGrows \/ InsertFinds \/ LookupFinds \/ Probe
           \/ RehashSkip \/ RehashFind \/ RehashMove \/ UNCHANGED vars
  <2>1. UNCHANGED <<entries, op, reply>>
    BY <1>4 DEF InsertGrows, InsertFinds, LookupFinds, Probe, RehashSkip,
       RehashFind, RehashMove, vars, tableVars
  <2>. QED
    BY <2>1, StutterRefines
<1>. QED
  BY <1>1, <1>2, <1>3, <1>4 DEF Next, Work

(* The hash table implements the partial map: through collisions, reused   *)
(* tombstones and growth, each call answers as the map would.              *)
THEOREM TableImplementsMap == Spec => ImplementsMap
  BY InitRefines, NextRefines, TableInvariant, PTL
  DEF Spec, ImplementsMap, Abstract!MapSpec
=============================================================================
