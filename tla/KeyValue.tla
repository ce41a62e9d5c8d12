------------------------------ MODULE KeyValue ------------------------------
(* A shared key-value storage as its callers see it: every call takes effect *)
(* at once, between its invocation and its return.  MemoryMapStorage         *)
(* (solid-storage/src/backends/memory.rs) is this by construction, with each *)
(* call inside one critical section of its Mutex, and never fails.           *)
(* JsonFileStorage is shown to implement it with a weaker promise: a call    *)
(* that is cut off while it writes takes the whole map with it, the values   *)
(* of all other keys included.                                               *)
EXTENDS KeyValueOps

CONSTANTS
  MayFail,   \* whether a call may fail
  MayLeave,  \* whether callers may go away before their calls return
  MayLose    \* whether a call that writes may ruin the map

VARIABLES data, call, result

vars == <<data, call, result>>

Init ==
  /\ data = EmptyMap
  /\ call = [c \in Client |-> None]
  /\ result = [c \in Client |-> None]

Invoke(c) ==
  /\ call[c] = None
  /\ \E x \in Call : call' = [call EXCEPT ![c] = x]
  /\ UNCHANGED <<data, result>>

Pending(c) == call[c] # None /\ result[c] = None

\* The critical section.
Apply(c) ==
  /\ Pending(c) /\ data # Lost
  /\ data' = After(call[c], data)
  /\ result' = [result EXCEPT ![c] = Ok(Found(call[c], data))]
  /\ UNCHANGED call

Fails(c) ==
  /\ result' = [result EXCEPT ![c] = Err]
  /\ UNCHANGED call

\* A call that fails has changed nothing; of a map that is lost, every call
\* fails.
Fail(c) ==
  /\ Pending(c) /\ (MayFail \/ data = Lost)
  /\ Fails(c) /\ UNCHANGED data

\* A call that has something to write may lose the map that is there.
CanRuin(c) ==
  /\ MayLose /\ Pending(c)
  /\ data # Lost /\ Writes(call[c], data)

Ruin(c) == CanRuin(c) /\ data' = Lost /\ Fails(c)

Forget(cs) ==
  /\ call' = [c \in Client |-> IF c \in cs THEN None ELSE call[c]]
  /\ result' = [c \in Client |-> IF c \in cs THEN None ELSE result[c]]

Return(c) == result[c] # None /\ Forget({c}) /\ UNCHANGED data

\* Callers go away together with their calls, done or not; the map goes with
\* one of them that was writing it.
Abandon ==
  /\ MayLeave
  /\ \E cs \in SUBSET Client :
       /\ Forget(cs)
       /\ \/ UNCHANGED data
          \/ data' = Lost /\ \E c \in cs : CanRuin(c)

Next ==
  \/ \E c \in Client : Invoke(c) \/ Apply(c) \/ Fail(c) \/ Ruin(c) \/ Return(c)
  \/ Abandon

Spec == Init /\ [][Next]_vars
=============================================================================
