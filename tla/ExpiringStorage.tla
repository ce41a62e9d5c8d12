--------------------------- MODULE ExpiringStorage --------------------------
(* WrappedExpiringStorage (solid-storage/src/backends/expiring.rs) over a    *)
(* MemoryMapStorage (backends/memory.rs): entries with a deadline, evicted   *)
(* by the get that meets them and by a background sweep.                     *)
(*                                                                           *)
(* Payloads do not matter here: an entry is its deadline.  The inner storage *)
(* is a map behind a Mutex, so each call of it is a step, and others get in  *)
(* between the read of an entry and the deletion it leads to.                *)
EXTENDS Integers, Functions

CONSTANTS
  Client,       \* the tasks that share the storage
  Key,
  TicksPerSec,  \* how finely a SystemTime tells time
  MaxTime,      \* bound: the last tick of the clock
  None          \* no deadline, no call, no result

ASSUME TicksAssumption == TicksPerSec \in Nat \ {0} /\ MaxTime \in Nat

ASSUME NoneAssumption == None \notin Nat

VARIABLES
  now,     \* the clock, in ticks
  data,    \* the inner storage
  pc,      \* where the call of a client stands
  call,    \* the call
  seen,    \* the entries its read of the inner storage got, None before
  result,  \* the entries its last call returned, None for an error and before
  raw,     \* the entries the sweep has read and not yet looked at, else None
  sweep,   \* the keys the sweep has yet to delete, None before
  source   \* who holds the inner storage: "shared", "dropped", or "freed" when
           \* the sweep has found nobody else does

clients == <<pc, call, seen, result>>
vars == <<now, data, clients, raw, sweep, source>>

Time == 0..MaxTime

Secs(t) == t \div TicksPerSec

\* An ExpiresWrapper: its deadline in whole seconds.  History: `until` is the
\* deadline the caller gave, which the code does not keep.
Wrapper(until) ==
  [expires |-> IF until = None THEN None ELSE Secs(until), until |-> until]

Wrappers == {Wrapper(t) : t \in Time \cup {None}}

\* Mutants of IsExpired: a deadline lasts to the end of its second; whole
\* seconds are counted from the next one.
IsExpiredLate(w, t) == w.expires # None /\ Secs(t) > w.expires
IsExpiredEarly(w, t) == w.expires # None /\ Secs(t) + 1 >= w.expires

IsExpired(w, t) == w.expires # None /\ Secs(t) >= w.expires

Call ==
  [op : {"get", "delete"}, key : Key]
    \cup [op : {"set"}, key : Key, until : Time \cup {None}]
    \cup [op : {"entries"}]

Init ==
  /\ now = 0
  /\ data = [k \in {} |-> None]
  /\ pc = [c \in Client |-> "idle"]
  /\ call = [c \in Client |-> None]
  /\ seen = [c \in Client |-> None]
  /\ result = [c \in Client |-> None]
  /\ raw = None /\ sweep = None
  /\ source = "shared"

Tick ==
  /\ now < MaxTime
  /\ now' = now + 1
  /\ UNCHANGED <<data, clients, raw, sweep, source>>

Invoke(c) ==
  /\ source = "shared" /\ pc[c] = "idle"
  /\ \E x \in Call : call' = [call EXCEPT ![c] = x]
  /\ pc' = [pc EXCEPT ![c] = "call"]
  /\ result' = [result EXCEPT ![c] = None]
  /\ UNCHANGED <<now, data, seen, raw, sweep, source>>

Returns(c, entries) ==
  /\ pc' = [pc EXCEPT ![c] = "idle"]
  /\ call' = [call EXCEPT ![c] = None]
  /\ seen' = [seen EXCEPT ![c] = None]
  /\ result' = [result EXCEPT ![c] = entries]

At(c, ops) == pc[c] = "call" /\ call[c].op \in ops

\* get, and has by way of it, and entries: what is there is read,
Read(c) ==
  /\ At(c, {"get", "entries"})
  /\ LET asked == IF call[c].op = "entries" THEN DOMAIN data
                  ELSE DOMAIN data \cap {call[c].key}
     IN  seen' = [seen EXCEPT ![c] = {data[k] : k \in asked}]
  /\ pc' = [pc EXCEPT ![c] = "check"]
  /\ UNCHANGED <<now, data, call, result, raw, sweep, source>>

Expired(c) == {w \in seen[c] : IsExpired(w, now)}

\* Mutant of Check: get passes an absent entry for a live one.
CheckLetsNothingPass(c) ==
  /\ pc[c] = "check"
  /\ IF call[c].op # "entries" /\ Expired(c) # {}
     THEN pc' = [pc EXCEPT ![c] = "evict"] /\ UNCHANGED <<call, seen, result>>
     ELSE Returns(c, IF seen[c] = {} THEN {None} ELSE seen[c] \ Expired(c))
  /\ UNCHANGED <<now, data, raw, sweep, source>>

\* held against the clock,
Check(c) ==
  /\ pc[c] = "check"
  /\ IF call[c].op # "entries" /\ Expired(c) # {}
     THEN pc' = [pc EXCEPT ![c] = "evict"] /\ UNCHANGED <<call, seen, result>>
     ELSE Returns(c, seen[c] \ Expired(c))
  /\ UNCHANGED <<now, data, raw, sweep, source>>

\* and deleted by its key, for get, if it has expired, whatever is stored there by now.
Evict(c) ==
  /\ pc[c] = "evict"
  /\ data' = Restrict(data, DOMAIN data \ {call[c].key})
  /\ Returns(c, {})
  /\ UNCHANGED <<now, raw, sweep, source>>

\* set and set_expiring: a deadline that has passed is refused, by an error,
CheckDeadline(c) ==
  /\ At(c, {"set"})
  /\ IF call[c].until # None /\ call[c].until <= now
     THEN Returns(c, None)
     ELSE pc' = [pc EXCEPT ![c] = "store"] /\ UNCHANGED <<call, seen, result>>
  /\ UNCHANGED <<now, data, raw, sweep, source>>

\* another one is stored.
Store(c) ==
  /\ pc[c] = "store"
  /\ data' = [k \in DOMAIN data \cup {call[c].key} |->
                IF k = call[c].key THEN Wrapper(call[c].until) ELSE data[k]]
  /\ Returns(c, {})
  /\ UNCHANGED <<now, raw, sweep, source>>

Delete(c) ==
  /\ At(c, {"delete"})
  /\ data' = Restrict(data, DOMAIN data \ {call[c].key})
  /\ Returns(c, {})
  /\ UNCHANGED <<now, raw, sweep, source>>

-----------------------------------------------------------------------------
(* The task WrappedExpiringStorage::new spawns.                              *)

\* Mutant of Sweep: the task keeps the storage it sweeps alive.
SweepForever ==
  /\ raw = None /\ sweep = None
  /\ raw' = data
  /\ UNCHANGED <<now, data, clients, sweep, source>>

\* Its ticker fires: it reads all entries, or finds that the storage is gone.
Sweep ==
  /\ raw = None /\ sweep = None /\ source # "freed"
  /\ IF source = "shared" THEN raw' = data /\ UNCHANGED source
     ELSE source' = "freed" /\ UNCHANGED raw
  /\ UNCHANGED <<now, data, clients, sweep>>

\* It looks for what has expired.
SweepFilter ==
  /\ raw # None
  /\ sweep' = {k \in DOMAIN raw : IsExpired(raw[k], now)}
  /\ raw' = None
  /\ UNCHANGED <<now, data, clients, source>>

\* It deletes what it has found, one key at a time.
SweepDelete ==
  /\ sweep # None
  /\ \E k \in sweep :
       /\ data' = Restrict(data, DOMAIN data \ {k})
       /\ sweep' = sweep \ {k}
  /\ UNCHANGED <<now, clients, raw, source>>

\* Mutant of SweepDone: one pass and no more.
SweepDoneOnce == sweep = {} /\ UNCHANGED vars

\* It waits for its next tick.
SweepDone ==
  /\ sweep = {}
  /\ sweep' = None
  /\ UNCHANGED <<now, data, clients, raw, source>>

\* The storage is dropped when nobody calls it any more.
Drop ==
  /\ source = "shared" /\ \A c \in Client : pc[c] = "idle"
  /\ source' = "dropped"
  /\ UNCHANGED <<now, data, clients, raw, sweep>>

Serve(c) ==
  \/ Read(c) \/ Check(c) \/ Evict(c) \/ CheckDeadline(c) \/ Store(c)
  \/ Delete(c)

Sweeper == Sweep \/ SweepFilter \/ SweepDelete \/ SweepDone

Next ==
  \/ Tick \/ Sweeper \/ Drop
  \/ \E c \in Client : Invoke(c) \/ Serve(c)

Spec == Init /\ [][Next]_vars

\* The ticker fires for ever, and the task it wakes gets to run.
FairSpec == Spec /\ WF_vars(Sweeper)

-----------------------------------------------------------------------------
(* Properties.                                                               *)

\* The variables have the shapes the code gives them.
TypeOK ==
  /\ now \in Time
  /\ DOMAIN data \subseteq Key /\ \A k \in DOMAIN data : data[k] \in Wrappers
  /\ pc \in [Client -> {"idle", "call", "check", "evict", "store"}]
  /\ call \in [Client -> Call \cup {None}]
  /\ seen \in [Client -> (SUBSET Wrappers) \cup {None}]
  /\ result \in [Client -> (SUBSET Wrappers) \cup {None}]
  /\ raw = None \/ (DOMAIN raw \subseteq Key /\ \A k \in DOMAIN raw : raw[k] \in Wrappers)
  /\ sweep \in (SUBSET Key) \cup {None}
  /\ source \in {"shared", "dropped", "freed"}

\* "the entry will not be returned after t" (key_value.rs:98), for the t the
\* caller gave, though the storage only keeps its second: what get, has and
\* entries decide to return has not reached its deadline.
NotReturnedAfterDeadline ==
  [][\A c \in Client : result'[c] # result[c] /\ result'[c] # None =>
       \A w \in result'[c] : w.until # None => now < w.until]_vars

\* Cutting a deadline down to its second costs less than a second: a get that
\* takes an entry for expired has met one with less than that to live.
EvictsWithinTheSecond ==
  \A c \in Client :
    pc[c] = "evict" =>
      \A w \in seen[c] : w.until # None /\ w.until < now + TicksPerSec

\* "walks all entries, deleting those whose TTL has elapsed" (expiring.rs:91):
\* what expires goes, even if nobody asks for it again.
Elapsed(k) ==
  k \in DOMAIN data /\ data[k].until # None /\ data[k].until <= now

ExpiredAreSwept ==
  \A k \in Key :
    source = "shared" /\ Elapsed(k) ~> source # "shared" \/ ~Elapsed(k)

\* "it exits automatically when the WrappedExpiringStorage is dropped"
\* (expiring.rs:92-93), which frees the storage.
SweeperExits == source = "dropped" ~> source = "freed"

\* "deleting those whose TTL has elapsed" (expiring.rs:91), and nothing else,
\* "expires = None -> no expiry" (key_value.rs:97): an entry that has not
\* expired leaves the storage only by a delete of its key.
LiveEntriesStay ==
  [][\A k \in DOMAIN data \ DOMAIN data' :
       \/ IsExpired(data[k], now)
       \/ \E c \in Client : At(c, {"delete"}) /\ call[c].key = k]_vars
=============================================================================
