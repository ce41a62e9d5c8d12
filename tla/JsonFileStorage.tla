--------------------------- MODULE JsonFileStorage --------------------------
(* JsonFileStorage (solid-storage/src/backends/file.rs): the whole map in    *)
(* one JSON file, read and rewritten by every call, under an RwLock.         *)
(*                                                                           *)
(* The file is written by a blocking thread the caller awaits:               *)
(* tokio::fs::write truncates it and then writes it, and goes on when the    *)
(* future that awaits it is dropped.  A crash or a full disk in between      *)
(* leaves a file no later call can read.                                     *)
EXTENDS KeyValueOps

CONSTANTS
  NoFile,   \* the file does not exist
  Blank,    \* it is truncated: no JSON
  Garbled,  \* it holds part of a text, or parts of several: no JSON
  Faults    \* what may go wrong: the system refuses an operation on files, the
            \* disk is full, the process dies, a future is dropped while no
            \* write is under way, a future is dropped at any await

ASSUME FileAssumption ==
  /\ {NoFile, Blank, Garbled} \cap Map = {}
  /\ NoFile \notin {Blank, Garbled}
  /\ Faults \subseteq {"refuse", "full", "crash", "drop", "cancel"}

\* The writes handed to a blocking thread.
Job == [stage : {"open", "write"}, map : Map]

ASSUME JobAssumption == None \notin Job

VARIABLES
  file,    \* NoFile, Blank, Garbled or the map it holds
  pc,      \* where the call of a client stands
  call,    \* the call
  map,     \* the HashMap it has read, and changed
  job,     \* the write its blocking thread has to do, None when there is none
  result,  \* what it returns, None before
  intact   \* history: the map in the file when last it could be read

vars == <<file, pc, call, map, job, result, intact>>

Readable(f) == f \notin {Blank, Garbled}
Contents(f) == IF f = NoFile THEN EmptyMap ELSE f

\* The file becomes f.
Overwrite(f) ==
  /\ file' = f
  /\ intact' = IF Readable(f) THEN Contents(f) ELSE intact

Init ==
  /\ file = NoFile /\ intact = EmptyMap
  /\ pc = [c \in Client |-> "idle"]
  /\ call = [c \in Client |-> None]
  /\ map = [c \in Client |-> EmptyMap]
  /\ job = [c \in Client |-> None]
  /\ result = [c \in Client |-> None]

\* Bound: a client whose last write is still going on waits for it.
Invoke(c) ==
  /\ pc[c] = "idle" /\ job[c] = None
  /\ \E x \in Call : call' = [call EXCEPT ![c] = x]
  /\ pc' = [pc EXCEPT ![c] = "lock"]
  /\ UNCHANGED <<file, map, job, result, intact>>

\* Mutant of Holds: the guard lives in what is returned, as with an iterator.
HoldsWhileIterating(c) == pc[c] \in {"read", "mkdir", "write", "done"}

\* The guard is dropped when the call returns or its future is dropped.
Holds(c) == pc[c] \in {"read", "mkdir", "write"}

\* Mutant of Compatible: only the write itself is exclusive.
CompatibleUntilWrite(c, d) == pc[d] # "write"

Compatible(c, d) == ~Mutates(call[c]) /\ ~Mutates(call[d])

\* lock.read() or lock.write().
Lock(c) ==
  /\ pc[c] = "lock"
  /\ \A d \in Client \ {c} : Holds(d) => Compatible(c, d)
  /\ pc' = [pc EXCEPT ![c] = "read"]
  /\ UNCHANGED <<file, call, map, job, result, intact>>

Finish(c, r) ==
  /\ pc' = [pc EXCEPT ![c] = "done"]
  /\ result' = [result EXCEPT ![c] = r]

\* read_map, and the map changed in memory.  A delete of what is not there
\* does not write.
Read(c) ==
  /\ pc[c] = "read"
  /\ Readable(file)
  /\ LET m == Contents(file) IN
     IF Writes(call[c], m)
     THEN /\ pc' = [pc EXCEPT ![c] = "mkdir"]
          /\ map' = [map EXCEPT ![c] = After(call[c], m)]
          /\ UNCHANGED result
     ELSE Finish(c, Ok(Found(call[c], m))) /\ UNCHANGED map
  /\ UNCHANGED <<file, call, job, intact>>

\* read_map fails: no JSON, or the system refuses to read.
ReadFails(c) ==
  /\ pc[c] = "read"
  /\ ~Readable(file) \/ "refuse" \in Faults
  /\ Finish(c, Err)
  /\ UNCHANGED <<file, call, map, job, intact>>

\* write_map: the directory is there, the text is handed to a thread.
Submit(c) ==
  /\ pc[c] = "mkdir"
  /\ pc' = [pc EXCEPT ![c] = "write"]
  /\ job' = [job EXCEPT ![c] = [stage |-> "open", map |-> map[c]]]
  /\ UNCHANGED <<file, call, map, result, intact>>

MkdirFails(c) ==
  /\ pc[c] = "mkdir" /\ "refuse" \in Faults
  /\ Finish(c, Err)
  /\ UNCHANGED <<file, call, map, job, intact>>

At(c, stage) == job[c] # None /\ job[c].stage = stage

\* The thread opens the file, which truncates it.
Truncate(c) ==
  /\ At(c, "open")
  /\ job' = [job EXCEPT ![c].stage = "write"]
  /\ Overwrite(Blank)
  /\ UNCHANGED <<pc, call, map, result>>

\* The thread is done; the caller, if it still waits, gets r.
Done(c, r) ==
  /\ job' = [job EXCEPT ![c] = None]
  /\ IF pc[c] = "write" THEN Finish(c, r) ELSE UNCHANGED <<pc, result>>
  /\ UNCHANGED <<call, map>>

OpenFails(c) ==
  /\ At(c, "open") /\ "refuse" \in Faults
  /\ Done(c, Err)
  /\ UNCHANGED <<file, intact>>

\* What a write leaves of a file in state f: the text, but for the tail of a
\* longer one another thread has written since this one truncated the file.
Outcomes(m, f) == IF f = Blank THEN {m} ELSE {m, Garbled}

\* What a call that writes tells its caller: a delete, that the key existed.
Written(x) ==
  IF x.op = "delete" THEN [k \in {x.key} |-> Present] ELSE EmptyMap

\* The thread writes the text.
Write(c) ==
  /\ At(c, "write")
  /\ \E f \in Outcomes(job[c].map, file) : Overwrite(f)
  /\ Done(c, Ok(Written(call[c])))

WriteFails(c) ==
  /\ At(c, "write") /\ "full" \in Faults
  /\ \E f \in {Blank, Garbled} : Overwrite(f)
  /\ Done(c, Err)

\* The call returns, or its caller drops the future before: guard, map and
\* answer go with it, the write handed to a thread does not.
Leave(c) ==
  /\ \/ pc[c] = "done"
     \/ Faults \cap {"drop", "cancel"} # {} /\ pc[c] \notin {"idle", "write"}
     \/ "cancel" \in Faults /\ pc[c] = "write"
  /\ pc' = [pc EXCEPT ![c] = "idle"]
  /\ call' = [call EXCEPT ![c] = None]
  /\ map' = [map EXCEPT ![c] = EmptyMap]
  /\ result' = [result EXCEPT ![c] = None]
  /\ UNCHANGED <<file, job, intact>>

\* The process ends, and a new one opens the same file.
Crash ==
  /\ "crash" \in Faults
  /\ pc' = [c \in Client |-> "idle"]
  /\ call' = [c \in Client |-> None]
  /\ map' = [c \in Client |-> EmptyMap]
  /\ job' = [c \in Client |-> None]
  /\ result' = [c \in Client |-> None]
  /\ UNCHANGED <<file, intact>>

\* The steps of a caller that holds the guard, and of its blocking thread.
Work(c) ==
  \/ Read(c) \/ ReadFails(c) \/ Submit(c) \/ MkdirFails(c)
  \/ Truncate(c) \/ OpenFails(c) \/ Write(c) \/ WriteFails(c)

Next ==
  \/ \E c \in Client : Invoke(c) \/ Lock(c) \/ Work(c) \/ Leave(c)
  \/ Crash

Spec == Init /\ [][Next]_vars

\* I/O calls return; tokio's RwLock hands the guard out in the order of the
\* requests, so one that can be had again and again is had.
FairSpec ==
  Spec /\ \A c \in Client : WF_vars(Work(c)) /\ SF_vars(Lock(c))

-----------------------------------------------------------------------------
(* Properties.                                                               *)

\* The variables have the shapes the code gives them.
TypeOK ==
  /\ file \in Map \cup {NoFile, Blank, Garbled}
  /\ pc \in [Client -> {"idle", "lock", "read", "mkdir", "write", "done"}]
  /\ call \in [Client -> Call \cup {None}]
  /\ map \in [Client -> Map]
  /\ job \in [Client -> Job \cup {None}]
  /\ result \in [Client -> Result \cup {None}]
  /\ intact \in Map

\* What there is to be had from the file: the map it holds; the one a write
\* that is under way found there; and when no write is under way and it cannot
\* be read, nothing.
Held ==
  IF Readable(file) THEN Contents(file)
  ELSE IF \E c \in Client : At(c, "write") THEN intact
  ELSE Lost

\* Callers of the JSON file cannot tell it from a map behind a mutex, for which
\* it takes the exclusion of whole calls (the read-modify-write of set and
\* delete, file.rs:116-132) on all error paths.  A call that fails, is dropped
\* before its write, or is killed outside of it has changed nothing; where the
\* disk fills up or the process dies within the write, and only there, the map
\* is lost, all its keys at once, and every call from then on fails.
Storage ==
  INSTANCE KeyValue WITH
    data <- Held,
    MayFail <- "refuse" \in Faults,
    MayLeave <- Faults \cap {"crash", "drop"} # {},
    MayLose <- Faults \cap {"full", "crash"} # {}

ImplementsKeyValue == Storage!Spec

\* "Serialise `map` and atomically overwrite the JSON file" (file.rs:78): what
\* callers have been told is stored can be read, the old map or the new one,
\* whenever no write is under way.
StoredCanBeRead ==
  intact # EmptyMap /\ (\A c \in Client : job[c] = None) => Readable(file)

\* Every call that waits for the lock gets through: no guard outlives its
\* call, on the error paths or when the future is dropped (file.rs:98-143).
Completes == \A c \in Client : pc[c] = "lock" ~> pc[c] \in {"idle", "done"}

\* "protects concurrent access" (file.rs:15-16): what is written differs from
\* what was in the file by one call, so nobody's update undoes another's.
OneUpdateAtATime ==
  [][intact' # intact => \E x \in Call : intact' = After(x, intact)]_vars
=============================================================================
