----------------------------- MODULE KeyValueOps ----------------------------
(* The operations of the trait KeyValueStorage                               *)
(* (solid-storage/src/key_value.rs), as functions of the map they work on.   *)
EXTENDS Functions, FiniteSets

CONSTANTS
  Client,   \* the tasks that share one storage
  Key, Value,
  Present,  \* stands for a value the caller is not shown
  Lost,     \* what a storage holds when its map cannot be had any more
  None      \* no call, no result

Call ==
  [op : {"get", "has", "delete"}, key : Key]
    \cup [op : {"set"}, key : Key, value : Value]
    \cup [op : {"entries"}]

\* The maps a storage can hold.
Map == UNION {[ks -> Value] : ks \in SUBSET Key}

EmptyMap == [k \in {} |-> Present]

ASSUME LostAssumption == Lost \notin Map

Mutates(call) == call.op \in {"set", "delete"}

\* Of these, the calls that have something to write: a delete of what is not
\* there has not.
Writes(call, m) ==
  call.op = "set" \/ (call.op = "delete" /\ call.key \in DOMAIN m)

\* Mutant of After: a delete blanks the value and leaves the key.
AfterBlanking(call, m) ==
  CASE call.op = "set" ->
         [k \in DOMAIN m \cup {call.key} |->
            IF k = call.key THEN call.value ELSE m[k]]
    [] call.op = "delete" ->
         [k \in DOMAIN m |-> IF k = call.key THEN Present ELSE m[k]]
    [] OTHER -> m

\* The map after the call.
After(call, m) ==
  CASE call.op = "set" ->
         [k \in DOMAIN m \cup {call.key} |->
            IF k = call.key THEN call.value ELSE m[k]]
    [] call.op = "delete" -> Restrict(m, DOMAIN m \ {call.key})
    [] OTHER -> m

\* What the caller learns of the map: the entry of a get, the presence of a
\* has or a delete, all of it for entries, nothing for a set.
Found(call, m) ==
  CASE call.op = "get" -> Restrict(m, DOMAIN m \cap {call.key})
    [] call.op \in {"has", "delete"} ->
         [k \in DOMAIN m \cap {call.key} |-> Present]
    [] call.op = "entries" -> m
    [] call.op = "set" -> EmptyMap

Ok(found) == [ok |-> TRUE, found |-> found]
Err == [ok |-> FALSE]

Result ==
  {Ok(m) : m \in UNION {[ks -> Value \cup {Present}] : ks \in SUBSET Key}}
    \cup {Err}

ASSUME NoneAssumption == None \notin Call \cup Result
=============================================================================
