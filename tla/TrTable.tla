------------------------------ MODULE TrTable ------------------------------
(***************************************************************************)
(* The hash table of src/src/tr_table.c: open addressing with linear       *)
(* probing, tombstones for deleted entries, and growth by rehashing.  It   *)
(* holds the globals of the interpreter.                                   *)
(*                                                                         *)
(* One step is one iteration of a loop of the code (tr_table_find_entry,   *)
(* table_adjust_capacity), so that "the probe ends" is something to check. *)
(* A tr_string is its content: strcmp(a, b) == 0 is a = b, and a fixed     *)
(* Hash gives the murmur hash of each one.                                 *)
(***************************************************************************)
EXTENDS Integers, FiniteSets

CONSTANTS
  Keys,      \* the strings used as keys
  Values,    \* the tr_values stored
  Nil,       \* the tr_value of type VAL_NIL
  Deleted,   \* the VAL_LNG 0xdeadbeef that marks a tombstone
  NULL,      \* a null pointer
  Hash,      \* tr_string.hash
  Growth     \* the 8 of "capacity * 2 + 8"

ASSUME TableAssumption ==
  /\ NULL \notin Keys \cup Values
  /\ Nil \in Values /\ Deleted \in Values /\ Nil # Deleted
  /\ Hash \in [Keys -> Nat]
  /\ Growth \in Nat /\ Growth >= 2

VARIABLES
  entries, capacity, count,   \* struct tr_table
  pc,                         \* where the call in progress is
  op,                         \* its function and arguments
  fresh, scan,                \* table_adjust_capacity: new array, loop index
  index, tombstone,           \* tr_table_find_entry: its locals
  reply                       \* what the last call returned

tableVars == <<entries, capacity, count>>
growVars  == <<fresh, scan>>
findVars  == <<index, tombstone>>
vars == <<tableVars, pc, op, growVars, findVars, reply>>

Entry   == [key : Keys \cup {NULL}, value : Values]
Unused  == [key |-> NULL, value |-> Nil]
Calls   == [kind : {"insert"}, key : Keys, val : Values]
             \cup [kind : {"get", "delete"}, key : Keys] \cup [kind : {"free"}]
NoCall  == [kind |-> "none"]
NoSlot  == -1

Reply(ok, v) == [ok |-> ok, val |-> v]
Void == Reply(FALSE, NULL)

IsEmpty(e)     == e.key = NULL /\ e.value = Nil
IsTombstone(e) == e.key = NULL /\ e.value # Nil

Init ==
  /\ entries = [s \in {} |-> Unused] /\ capacity = 0 /\ count = 0
  /\ pc = "idle" /\ op = NoCall
  /\ fresh = [s \in {} |-> Unused] /\ scan = 0
  /\ index = 0 /\ tombstone = NoSlot
  /\ reply = Void
-----------------------------------------------------------------------------
(* tr_table_find_entry(entries or fresh, its capacity, key) *)

NewCapacity == capacity * 2 + Growth

Rehashing == pc \in {"rehash", "refind", "refound"}
Array     == IF Rehashing THEN fresh ELSE entries
ArrayCap  == IF Rehashing THEN NewCapacity ELSE capacity
SoughtKey == IF Rehashing THEN entries[scan].key ELSE op.key

Home(k, cap) == Hash[k] % cap

StartFind(k, cap) ==
  /\ index' = Home(k, cap)
  /\ tombstone' = NoSlot

FindReturns(slot) ==
  /\ index' = slot
  /\ pc' = IF pc = "refind" THEN "refound" ELSE "found"
  /\ UNCHANGED tombstone

ProbeOn ==
  /\ index' = (index + 1) % ArrayCap
  /\ UNCHANGED pc

(* mutant of Probe: the first tombstone on the path is taken for the entry *)
ProbeTakesTombstone ==
  /\ pc \in {"find", "refind"}
  /\ LET e == Array[index] IN
       IF e.key \in {NULL, SoughtKey} THEN FindReturns(index)
                                      ELSE ProbeOn /\ UNCHANGED tombstone
  /\ UNCHANGED <<tableVars, op, growVars, reply>>

Probe ==
  /\ pc \in {"find", "refind"}
  /\ LET e == Array[index] IN
       \/ /\ IsEmpty(e)
          /\ FindReturns(IF tombstone # NoSlot THEN tombstone ELSE index)
       \/ /\ e.key = SoughtKey
          /\ FindReturns(index)
       \/ /\ IsTombstone(e)
          /\ tombstone' = IF tombstone = NoSlot THEN index ELSE tombstone
          /\ ProbeOn
       \/ /\ e.key \notin {NULL, SoughtKey}
          /\ ProbeOn
          /\ UNCHANGED tombstone
  /\ UNCHANGED <<tableVars, op, growVars, reply>>
-----------------------------------------------------------------------------
(* The caller, and the head of each function up to its first loop *)

Call ==
  /\ pc = "idle"
  /\ op' \in Calls
  /\ pc' = "called"
  /\ UNCHANGED <<tableVars, growVars, findVars, reply>>

Return(r) ==
  /\ reply' = r
  /\ pc' = "idle"
  /\ op' = NoCall
  /\ index' = 0 /\ tombstone' = NoSlot

(* mutant of Overloaded: the array may fill up *)
OverloadedWhenFull == count + 1 > capacity

(* count + 1 > capacity * TABLE_MAX_LOAD, with TABLE_MAX_LOAD = 0.7 *)
Overloaded == 10 * (count + 1) > 7 * capacity

InsertGrows ==
  /\ pc = "called" /\ op.kind = "insert" /\ Overloaded
  /\ fresh' = [s \in 0 .. NewCapacity - 1 |-> Unused]
  /\ scan' = 0
  /\ count' = 0
  /\ pc' = "rehash"
  /\ UNCHANGED <<entries, capacity, op, findVars, reply>>

InsertFinds ==
  /\ pc = "called" /\ op.kind = "insert" /\ ~Overloaded
  /\ StartFind(op.key, capacity)
  /\ pc' = "find"
  /\ UNCHANGED <<tableVars, op, growVars, reply>>

LookupEmpty ==
  /\ pc = "called" /\ op.kind \in {"get", "delete"} /\ count = 0
  /\ Return(Void)
  /\ UNCHANGED <<tableVars, growVars>>

LookupFinds ==
  /\ pc = "called" /\ op.kind \in {"get", "delete"} /\ count # 0
  /\ StartFind(op.key, capacity)
  /\ pc' = "find"
  /\ UNCHANGED <<tableVars, op, growVars, reply>>

Free ==
  /\ pc = "called" /\ op.kind = "free"
  /\ entries' = [s \in {} |-> Unused] /\ capacity' = 0 /\ count' = 0
  /\ Return(Void)
  /\ UNCHANGED growVars
-----------------------------------------------------------------------------
(* table_adjust_capacity: one iteration of its second loop, and its end *)

RehashSkip ==
  /\ pc = "rehash" /\ scan < capacity /\ entries[scan].key = NULL
  /\ scan' = scan + 1
  /\ UNCHANGED <<tableVars, pc, op, fresh, findVars, reply>>

(* mutant of RehashFind: homes computed with the capacity of the old array *)
RehashFindOldHome ==
  /\ pc = "rehash" /\ scan < capacity /\ entries[scan].key # NULL
  /\ StartFind(entries[scan].key, capacity)
  /\ pc' = "refind"
  /\ UNCHANGED <<tableVars, op, growVars, reply>>

RehashFind ==
  /\ pc = "rehash" /\ scan < capacity /\ entries[scan].key # NULL
  /\ StartFind(entries[scan].key, NewCapacity)
  /\ pc' = "refind"
  /\ UNCHANGED <<tableVars, op, growVars, reply>>

(* mutant of RehashMove: the key moves without its value *)
RehashMoveKeyOnly ==
  /\ pc = "refound"
  /\ fresh' = [fresh EXCEPT ![index].key = entries[scan].key]
  /\ count' = count + 1
  /\ scan' = scan + 1
  /\ pc' = "rehash"
  /\ UNCHANGED <<entries, capacity, op, findVars, reply>>

RehashMove ==
  /\ pc = "refound"
  /\ fresh' = [fresh EXCEPT ![index] = entries[scan]]
  /\ count' = count + 1
  /\ scan' = scan + 1
  /\ pc' = "rehash"
  /\ UNCHANGED <<entries, capacity, op, findVars, reply>>

(* mutant of RehashEnd: the capacity is left to the caller *)
RehashEndKeepsCapacity ==
  /\ pc = "rehash" /\ scan = capacity
  /\ entries' = fresh
  /\ fresh' = [s \in {} |-> Unused] /\ scan' = 0
  /\ StartFind(op.key, NewCapacity)
  /\ pc' = "find"
  /\ UNCHANGED <<capacity, count, op, reply>>

RehashEnd ==
  /\ pc = "rehash" /\ scan = capacity
  /\ entries' = fresh
  /\ capacity' = NewCapacity
  /\ fresh' = [s \in {} |-> Unused] /\ scan' = 0
  /\ StartFind(op.key, NewCapacity)
  /\ pc' = "find"
  /\ UNCHANGED <<count, op, reply>>
-----------------------------------------------------------------------------
(* What each function does with the entry it found *)

InsertDone ==
  /\ pc = "found" /\ op.kind = "insert"
  /\ entries' = [entries EXCEPT ![index] = [key |-> op.key, value |-> op.val]]
  /\ count' = IF IsEmpty(entries[index]) THEN count + 1 ELSE count
  /\ Return(Reply(entries[index].key = NULL, NULL))
  /\ UNCHANGED <<capacity, growVars>>

GetDone ==
  /\ pc = "found" /\ op.kind = "get"
  /\ Return(IF entries[index].key = NULL THEN Void
            ELSE Reply(TRUE, entries[index].value))
  /\ UNCHANGED <<tableVars, growVars>>

(* mutant of DeleteDone: a deletion counts one entry less *)
DeleteDoneUncounts ==
  /\ pc = "found" /\ op.kind = "delete"
  /\ IF entries[index].key = NULL
     THEN Return(Void) /\ UNCHANGED <<entries, count>>
     ELSE /\ entries' = [entries EXCEPT ![index] =
                           [key |-> NULL, value |-> Deleted]]
          /\ count' = count - 1
          /\ Return(Reply(TRUE, NULL))
  /\ UNCHANGED <<capacity, growVars>>

(* mutant of DeleteDone: the slot is emptied, with no tombstone *)
DeleteDoneEmpties ==
  /\ pc = "found" /\ op.kind = "delete"
  /\ IF entries[index].key = NULL
     THEN Return(Void) /\ UNCHANGED entries
     ELSE /\ entries' = [entries EXCEPT ![index] = Unused]
          /\ Return(Reply(TRUE, NULL))
  /\ UNCHANGED <<count, capacity, growVars>>

DeleteDone ==
  /\ pc = "found" /\ op.kind = "delete"
  /\ IF entries[index].key = NULL
     THEN Return(Void) /\ UNCHANGED entries
     ELSE /\ entries' = [entries EXCEPT ![index] =
                           [key |-> NULL, value |-> Deleted]]
          /\ Return(Reply(TRUE, NULL))
  /\ UNCHANGED <<count, capacity, growVars>>

Work ==
  \/ InsertGrows \/ InsertFinds \/ LookupEmpty \/ LookupFinds \/ Free
  \/ RehashSkip \/ RehashFind \/ RehashMove \/ RehashEnd
  \/ Probe \/ InsertDone \/ GetDone \/ DeleteDone

Next == Call \/ Work

Spec == Init /\ [][Next]_vars

(* A C function runs to its end once called; nothing makes anyone call it. *)
FairSpec == Spec /\ WF_vars(Work)
-----------------------------------------------------------------------------
(* Invariants.  A slot is used when it holds a key or a tombstone; the     *)
(* path of a probe runs from the home slot, cyclically, up to a slot.      *)

Used(A) == {s \in DOMAIN A : ~IsEmpty(A[s])}

Path(home, s, cap) ==
  {x \in 0 .. cap - 1 : IF home <= s THEN home <= x /\ x < s
                                     ELSE home <= x \/ x < s}

TypeOK ==
  /\ capacity \in Nat /\ count \in Nat
  /\ entries \in [0 .. capacity - 1 -> Entry]
  /\ pc \in {"idle", "called", "rehash", "refind", "refound", "find", "found"}
  /\ op \in Calls \cup {NoCall}
  /\ Rehashing =>
       fresh \in [0 .. NewCapacity - 1 -> Entry] /\ scan \in 0 .. capacity
  /\ index \in Nat /\ tombstone \in Nat \cup {NoSlot}
  /\ reply \in [ok : BOOLEAN, val : Values \cup {NULL}]

(* count is the number of used slots, tombstones included, of the array    *)
(* being filled: tr_table_insert adds one for a never used slot only,      *)
(* tr_table_delete takes none away, and growing counts again from zero.    *)
CountExact == count = Cardinality(Used(Array))

(* The array a probe walks always has a never used slot, the only thing    *)
(* that ends the "for (;;)" of tr_table_find_entry for an absent key.      *)
ProbeMeetsEmptySlot ==
  pc \in {"find", "refind"} => \E s \in DOMAIN Array : IsEmpty(Array[s])

(* No key is stored twice, in the table or in the array it grows into,     *)
(* although deletions leave earlier slots for a second insert to take.     *)
UniqueIn(A) ==
  \A s, t \in DOMAIN A : A[s].key # NULL /\ A[s].key = A[t].key => s = t

KeysUnique == UniqueIn(entries) /\ (Rehashing => UniqueIn(fresh))

(* Every stored key is reachable: no never used slot lies between its home *)
(* slot and the slot it is in, whatever was deleted or moved since.        *)
ReachableIn(A, cap) ==
  \A s \in 0 .. cap - 1 : A[s].key # NULL =>
    \A x \in Path(Home(A[s].key, cap), s, cap) : ~IsEmpty(A[x])

KeysReachable ==
  /\ ReachableIn(entries, capacity)
  /\ Rehashing => ReachableIn(fresh, NewCapacity)

(* What a probe in progress, and one that ended, has established.          *)
Holds(A, k) == \E s \in DOMAIN A : A[s].key = k

Walked(A, cap, k, i, t) ==
  /\ i < cap
  /\ \A x \in Path(Home(k, cap), i, cap) : ~IsEmpty(A[x]) /\ A[x].key # k
  /\ t # NoSlot => t \in Path(Home(k, cap), i, cap) /\ IsTombstone(A[t])

Landed(A, cap, k, i) ==
  /\ i < cap
  /\ A[i].key \in {NULL, k}
  /\ A[i].key = NULL => ~Holds(A, k)
  /\ \A x \in Path(Home(k, cap), i, cap) : ~IsEmpty(A[x])

FindCorrect ==
  /\ pc \in {"find", "refind"} =>
       Walked(Array, ArrayCap, SoughtKey, index, tombstone)
  /\ pc \in {"found", "refound"} => Landed(Array, ArrayCap, SoughtKey, index)
-----------------------------------------------------------------------------
(* The strengthening that makes the invariants above inductive.            *)

(* The call in progress is one that can be where pc says it is.            *)
CallOK ==
  /\ (pc = "idle") <=> (op = NoCall)
  /\ pc \in {"find", "found"} => op.kind \in {"insert", "get", "delete"}
  /\ Rehashing => op.kind = "insert"

(* Load factor: outside a rehash at most 7 slots in 10 are used, and the   *)
(* insert that is looking for its slot still has room for one more.        *)
LoadBounded ==
  /\ ~Rehashing => 10 * count <= 7 * capacity
  /\ pc \in {"find", "found"} =>
       /\ capacity > 0
       /\ op.kind = "insert" => 10 * (count + 1) <= 7 * capacity

(* While growing, the new array holds exactly the keys scanned so far, with *)
(* their values, no tombstone, and no more of them than slots scanned.      *)
GrowthFaithful == Rehashing =>
  /\ count <= scan
  /\ \A t \in DOMAIN fresh : fresh[t].key = NULL => fresh[t] = Unused
  /\ \A t \in DOMAIN fresh : fresh[t].key # NULL =>
       \E s \in 0 .. scan - 1 : entries[s] = fresh[t]
  /\ \A s \in 0 .. scan - 1 : entries[s].key # NULL =>
       \E t \in DOMAIN fresh : fresh[t] = entries[s]
  /\ pc \in {"refind", "refound"} =>
       scan < capacity /\ entries[scan].key # NULL

TableInv ==
  /\ TypeOK /\ CallOK /\ CountExact /\ LoadBounded
  /\ KeysUnique /\ KeysReachable /\ GrowthFaithful /\ FindCorrect
-----------------------------------------------------------------------------
(* Refinement: the table implements the map of GlobalsMap.                 *)

SlotOf(A, k) == CHOOSE s \in DOMAIN A : A[s].key = k

MapOf(A) == [k \in Keys |-> IF Holds(A, k) THEN A[SlotOf(A, k)].value ELSE NULL]

Abstract == INSTANCE GlobalsMap WITH map <- MapOf(entries), call <- op

(* Every call answers what the map of the names inserted and not deleted   *)
(* since would answer, and leaves that map, growth included.               *)
ImplementsMap == Abstract!MapSpec

(* Every call returns: no probe and no rehash goes round for ever.         *)
CallsReturn == pc = "called" ~> pc = "idle"
=============================================================================
