----------------------------- MODULE GlobalsMap -----------------------------
(***************************************************************************)
(* What the hash table of src/src/tr_table.h promises its callers: a       *)
(* partial map from names to values.  A caller has one call outstanding at *)
(* a time (the interpreter is single threaded); a call is requested, and   *)
(* then takes effect and replies in one step.  TrTable implements this.    *)
(***************************************************************************)
CONSTANTS
  Keys,     \* the names a program uses as globals (tr_string, by content)
  Values,   \* the tr_values that can be stored
  NULL      \* no value (not a member of Values): the name is not in the map

VARIABLES
  map,      \* the map: NULL marks the names it does not hold
  call,     \* the outstanding call, or NoCall
  reply     \* what the last completed call returned

mapVars == <<map, call, reply>>

Calls == [kind : {"insert"}, key : Keys, val : Values]
           \cup [kind : {"get", "delete"}, key : Keys] \cup [kind : {"free"}]
NoCall == [kind |-> "none"]

(* bool result of the function, and the value tr_table_get stores in *v *)
Reply(ok, v) == [ok |-> ok, val |-> v]
Void == Reply(FALSE, NULL)

MapInit ==
  /\ map = [k \in Keys |-> NULL]
  /\ call = NoCall
  /\ reply = Void

MapRequest ==
  /\ call = NoCall
  /\ call' \in Calls
  /\ UNCHANGED <<map, reply>>

Present(k) == map[k] # NULL

(* tr_table_insert answers whether the name is new *)
MapInsert ==
  /\ call.kind = "insert"
  /\ map' = [map EXCEPT ![call.key] = call.val]
  /\ reply' = Reply(~Present(call.key), NULL)
  /\ call' = NoCall

MapGet ==
  /\ call.kind = "get"
  /\ reply' = Reply(Present(call.key), map[call.key])
  /\ call' = NoCall
  /\ UNCHANGED map

MapDelete ==
  /\ call.kind = "delete"
  /\ map' = [map EXCEPT ![call.key] = NULL]
  /\ reply' = Reply(Present(call.key), NULL)
  /\ call' = NoCall

MapFree ==
  /\ call.kind = "free"
  /\ map' = [k \in Keys |-> NULL]
  /\ reply' = Void
  /\ call' = NoCall

MapNext == MapRequest \/ MapInsert \/ MapGet \/ MapDelete \/ MapFree

MapSpec == MapInit /\ [][MapNext]_mapVars
=============================================================================
