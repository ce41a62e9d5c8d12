------------------------- MODULE PassthroughStorage -------------------------
(* PassthroughKeyValueStorage (solid-storage/src/key_value.rs): storages     *)
(* that rewrite keys and share one source, a MemoryMapStorage.               *)
(*                                                                           *)
(* A call rewrites its key when it is made; the source is reached when the   *)
(* future it returns is polled, in one critical section of its mutex.  Keys  *)
(* are strings on both sides.                                                *)
EXTENDS KeyValueOps

CONSTANTS
  Holder,      \* the tasks that call the storages
  Rewriter,    \* the decorated storages
  Observed,    \* any one of them
  StorageOf,   \* the storage each task uses
  SourceKey,   \* strings, those the tasks use for keys among them
  NewKey,      \* to_new_key of each storage
  OriginalKey  \* to_original_key of each storage, of any string

ASSUME KeyTypes ==
  /\ Key \subseteq SourceKey
  /\ StorageOf \in [Holder -> Rewriter] /\ Observed \in Rewriter
  /\ NewKey \in [Rewriter -> [Key -> SourceKey]]
  /\ OriginalKey \in [Rewriter -> [SourceKey -> SourceKey]]

\* What the trait leaves to those who implement it and share a source: keys of
\* two storages, and two keys of one, never get the same place.  Nothing is
\* assumed of the way back.
ASSUME PlacesAreApart ==
  \A s, t \in Rewriter : \A k, l \in Key :
    NewKey[s][k] = NewKey[t][l] => s = t /\ k = l

VARIABLES
  source,   \* the map of the source
  request,  \* the call of a task, None when it has none
  inner,    \* what its future will ask of the source, once it is polled
  answer    \* what the call returns, None before

passVars == <<source, request, inner, answer>>

PassInit ==
  /\ source = EmptyMap
  /\ request = [c \in Holder |-> None]
  /\ inner = [c \in Holder |-> None]
  /\ answer = [c \in Holder |-> None]

\* Mutant of Forward: delete_passthrough forgets the transformation.
ForwardRawDelete(s, x) ==
  IF x.op \in {"entries", "delete"} THEN x
  ELSE [x EXCEPT !.key = NewKey[s][x.key]]

\* The call on the source that storage s makes of the call x.
Forward(s, x) ==
  IF x.op = "entries" THEN x ELSE [x EXCEPT !.key = NewKey[s][x.key]]

\* What the caller of x is told of what the source has found: of entries all
\* there is in the source, every pair under the name that is made of its key,
\* the pairs of other storages too.  (They are a list without an order and may
\* repeat a name, so they are given by their places; callers do not see these.)
Backward(s, x, found) ==
  IF x.op = "entries"
  THEN [i \in DOMAIN found |-> <<OriginalKey[s][i], found[i]>>]
  ELSE [k \in {x.key : i \in DOMAIN found} |-> found[NewKey[s][x.key]]]

Begin(c) ==
  /\ request[c] = None
  /\ \E x \in Call :
       /\ request' = [request EXCEPT ![c] = x]
       /\ inner' = [inner EXCEPT ![c] = Forward(StorageOf[c], x)]
  /\ UNCHANGED <<source, answer>>

\* The future is polled: the critical section of the source.
Poll(c) ==
  /\ request[c] # None /\ answer[c] = None
  /\ source' = After(inner[c], source)
  /\ answer' = [answer EXCEPT ![c] =
       Ok(Backward(StorageOf[c], request[c], Found(inner[c], source)))]
  /\ UNCHANGED <<request, inner>>

\* The call returns, or its caller drops the future, polled or not.
End(c) ==
  /\ request[c] # None
  /\ request' = [request EXCEPT ![c] = None]
  /\ inner' = [inner EXCEPT ![c] = None]
  /\ answer' = [answer EXCEPT ![c] = None]
  /\ UNCHANGED source

PassNext == \E c \in Holder : Begin(c) \/ Poll(c) \/ End(c)

PassSpec == PassInit /\ [][PassNext]_passVars

-----------------------------------------------------------------------------
(* Properties.                                                               *)

\* The users of the observed storage, and what the source holds for them.
User == {c \in Holder : StorageOf[c] = Observed}

Place(k) == NewKey[Observed][k]

Own == [k \in {j \in Key : Place(j) \in DOMAIN source} |-> source[Place(k)]]

\* The point calls of the users: entries is left out.
PointCall(c) == request[c] # None /\ request[c].op # "entries"

View ==
  INSTANCE KeyValue WITH
    Client <- User,
    data <- Own,
    call <- [c \in User |-> IF PointCall(c) THEN request[c] ELSE None],
    result <- [c \in User |-> IF PointCall(c) THEN answer[c] ELSE None],
    MayFail <- FALSE, MayLeave <- TRUE, MayLose <- FALSE

\* Storages that share a source do not share their keys, where their places are
\* apart: to those who get, set, delete and ask for single keys, each is a map
\* behind a mutex of its own, whatever the users of the others do between the
\* rewriting of a key and the poll (key_value.rs:166-214).
PointCallsKeepApart == View!Spec
=============================================================================
