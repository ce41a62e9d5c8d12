------------------------ MODULE JsonFileStorageProofs -----------------------
(* JsonFileStorage implements KeyValue, for any callers, keys and values,    *)
(* whatever the file system refuses, while it fills up and across crashes,   *)
(* provided no caller drops a future whose write is under way.               *)
EXTENDS JsonFileStorage, TLAPS

-----------------------------------------------------------------------------
(* Calls and maps.                                                           *)

LEMMA EmptyMapType == EmptyMap \in Map /\ DOMAIN EmptyMap = {}
<1>1. EmptyMap \in [{} -> Value]
  BY DEF EmptyMap
<1> QED BY <1>1 DEF Map, EmptyMap

LEMMA MapType ==
  ASSUME NEW m
  PROVE  m \in Map <=> /\ DOMAIN m \in SUBSET Key
                       /\ m \in [DOMAIN m -> Value]
BY DEF Map

LEMMA CallType ==
  ASSUME NEW x \in Call
  PROVE  /\ x.op \in {"get", "has", "delete", "set", "entries"}
         /\ x.op \in {"get", "has", "delete", "set"} => x.key \in Key
         /\ x.op = "set" => x.value \in Value
BY DEF Call

LEMMA AfterType ==
  ASSUME NEW x \in Call, NEW m \in Map
  PROVE  After(x, m) \in Map
<1>1. CASE x.op = "set"
  <2>1. x.key \in Key /\ x.value \in Value
    BY <1>1, CallType
  <2> DEFINE n == [k \in DOMAIN m \cup {x.key} |->
                     IF k = x.key THEN x.value ELSE m[k]]
  <2>2. After(x, m) = n
    BY <1>1 DEF After
  <2>3. DOMAIN n \in SUBSET Key /\ n \in [DOMAIN n -> Value]
    BY <2>1, MapType
  <2> QED BY <2>2, <2>3, MapType
<1>2. CASE x.op = "delete"
  <2> DEFINE n == [k \in DOMAIN m \ {x.key} |-> m[k]]
  <2>1. After(x, m) = n
    BY <1>2 DEF After, Restrict
  <2>2. DOMAIN n \in SUBSET Key /\ n \in [DOMAIN n -> Value]
    BY MapType
  <2> QED BY <2>1, <2>2, MapType
<1>3. CASE x.op \notin {"set", "delete"}
  BY <1>3 DEF After
<1> QED BY <1>1, <1>2, <1>3

\* A call that does not write leaves the map as it is.
LEMMA AfterQuiet ==
  ASSUME NEW x \in Call, NEW m \in Map,
         x.op # "set", x.op = "delete" => x.key \notin DOMAIN m
  PROVE  After(x, m) = m
<1>1. CASE x.op = "delete"
  <2>1. After(x, m) = [k \in DOMAIN m \ {x.key} |-> m[k]]
    BY <1>1 DEF After, Restrict
  <2>2. m \in [DOMAIN m -> Value] /\ DOMAIN m \ {x.key} = DOMAIN m
    BY <1>1, MapType
  <2> QED BY <2>1, <2>2
<1>2. CASE x.op # "delete"
  BY <1>2 DEF After
<1> QED BY <1>1, <1>2

Answers == UNION {[ks -> Value \cup {Present}] : ks \in SUBSET Key}

LEMMA AnswersType ==
  ASSUME NEW m, DOMAIN m \in SUBSET Key,
         m \in [DOMAIN m -> Value \cup {Present}]
  PROVE  m \in Answers
BY DEF Answers

LEMMA FoundType ==
  ASSUME NEW x \in Call, NEW m \in Map
  PROVE  Ok(Found(x, m)) \in Result
<1>1. DOMAIN m \in SUBSET Key /\ m \in [DOMAIN m -> Value]
  BY MapType
<1>2. CASE x.op = "get"
  <2> DEFINE n == [k \in DOMAIN m \cap {x.key} |-> m[k]]
  <2>1. Found(x, m) = n
    BY <1>2 DEF Found, Restrict
  <2>2. n \in Answers
    BY <1>1, AnswersType
  <2> QED BY <2>1, <2>2 DEF Result, Answers
<1>3. CASE x.op \in {"has", "delete"}
  <2> DEFINE n == [k \in DOMAIN m \cap {x.key} |-> Present]
  <2>1. Found(x, m) = n
    BY <1>3 DEF Found
  <2>2. n \in Answers
    BY <1>1, AnswersType
  <2> QED BY <2>1, <2>2 DEF Result, Answers
<1>4. CASE x.op = "entries"
  <2>1. Found(x, m) = m
    BY <1>4 DEF Found
  <2>2. m \in Answers
    BY <1>1, AnswersType
  <2> QED BY <2>1, <2>2 DEF Result, Answers
<1>5. CASE x.op = "set"
  <2>1. Found(x, m) = EmptyMap
    BY <1>5 DEF Found
  <2>2. EmptyMap \in Answers
    BY AnswersType DEF EmptyMap
  <2> QED BY <2>1, <2>2 DEF Result, Answers
<1> QED BY <1>2, <1>3, <1>4, <1>5, CallType

\* What a call that writes tells is what there was to find.
LEMMA WrittenFound ==
  ASSUME NEW x \in Call, NEW m \in Map,
         x.op \in {"set", "delete"}, x.op = "delete" => x.key \in DOMAIN m
  PROVE  Written(x) = Found(x, m)
<1>1. CASE x.op = "set"
  BY <1>1 DEF Written, Found
<1>2. CASE x.op = "delete"
  <2>1. DOMAIN m \cap {x.key} = {x.key}
    BY <1>2
  <2> QED BY <1>2, <2>1 DEF Written, Found
<1> QED BY <1>1, <1>2

-----------------------------------------------------------------------------
(* The inductive invariant.                                                  *)

\* Where a call stands, and what it has at that point.
CallInv(c) ==
  /\ pc[c] = "idle" <=> call[c] = None
  /\ pc[c] = "done" <=> result[c] # None
  /\ job[c] # None <=> pc[c] = "write"
  /\ pc[c] \in {"mkdir", "write"} =>
       /\ Mutates(call[c])
       /\ call[c].op = "delete" => call[c].key \in DOMAIN intact
       /\ map[c] = After(call[c], intact)
  /\ job[c] # None => job[c].map = map[c]
  /\ pc[c] = "mkdir" \/ At(c, "open") => Readable(file)
  /\ At(c, "write") => file = Blank

\* A call that writes holds the lock alone.
LockInv ==
  \A c, d \in Client : c # d /\ Holds(c) /\ Holds(d) => Compatible(c, d)

\* The file holds the last map it could be read as.
FileInv == Readable(file) => intact = Contents(file)

StorageInv ==
  /\ TypeOK /\ LockInv /\ FileInv
  /\ \A c \in Client : CallInv(c)

LEMMA InvInit == Init => StorageInv
<1> SUFFICES ASSUME Init PROVE StorageInv
  OBVIOUS
<1>1. TypeOK
  BY EmptyMapType DEF Init, TypeOK
<1>2. FileInv
  BY FileAssumption DEF Init, FileInv, Readable, Contents
<1>3. LockInv /\ \A c \in Client : CallInv(c)
  BY DEF Init, LockInv, Holds, CallInv, At
<1> QED BY <1>1, <1>2, <1>3 DEF StorageInv

\* Whoever is about to write has the lock to itself.
LEMMA WriterIsAlone ==
  ASSUME StorageInv, NEW c \in Client, pc[c] \in {"mkdir", "write"},
         NEW d \in Client \ {c}
  PROVE  ~Holds(d) /\ job[d] = None
<1>1. Holds(c) /\ Mutates(call[c])
  BY DEF StorageInv, CallInv, Holds
<1>2. ~Holds(d)
  BY <1>1 DEF StorageInv, LockInv, Compatible
<1> QED BY <1>2 DEF StorageInv, CallInv, Holds

\* A step of one caller that leaves the file alone.
LEMMA OthersKeep ==
  ASSUME StorageInv, NEW c \in Client,
         UNCHANGED <<file, intact>>,
         \A d \in Client \ {c} :
           /\ pc'[d] = pc[d] /\ call'[d] = call[d] /\ map'[d] = map[d]
           /\ job'[d] = job[d] /\ result'[d] = result[d]
  PROVE  \A d \in Client \ {c} : CallInv(d)'
BY DEF StorageInv, CallInv, At

\* The lock, when nobody takes it and no holder changes its call.
LEMMA LockKept ==
  ASSUME StorageInv, TypeOK',
         \A d \in Client : Holds(d)' => Holds(d) /\ call'[d] = call[d]
  PROVE  LockInv'
BY DEF StorageInv, LockInv, Compatible

\* What a write does to the file, once truncated.
LEMMA WriteEffect ==
  ASSUME StorageInv, NEW c \in Client, Write(c)
  PROVE  /\ pc[c] = "write" /\ call[c] \in Call
         /\ intact' = After(call[c], intact) /\ intact' \in Map
         /\ file' = intact' /\ Readable(file')
         /\ pc' = [pc EXCEPT ![c] = "done"]
         /\ result' = [result EXCEPT ![c] = Ok(Found(call[c], intact))]
<1>1. job[c] # None /\ pc[c] = "write" /\ file = Blank
  BY DEF Write, At, StorageInv, CallInv
<1>2. call[c] \in Call /\ intact \in Map
  BY <1>1 DEF StorageInv, TypeOK, CallInv
<1>3. job[c].map = After(call[c], intact) /\ After(call[c], intact) \in Map
  BY <1>1, <1>2, AfterType DEF StorageInv, CallInv
<1>4. file' = After(call[c], intact) /\ intact' = After(call[c], intact)
  BY <1>1, <1>3, FileAssumption DEF Write, Outcomes, Overwrite, Readable, Contents
<1>5. Written(call[c]) = Found(call[c], intact)
  BY <1>1, <1>2, WrittenFound DEF StorageInv, CallInv, Mutates
<1>6. /\ pc' = [pc EXCEPT ![c] = "done"]
      /\ result' = [result EXCEPT ![c] = Ok(Found(call[c], intact))]
  BY <1>1, <1>5 DEF Write, Done, Finish
<1> QED BY <1>1, <1>2, <1>3, <1>4, <1>6, FileAssumption DEF Readable

LEMMA ErrType == Err \in Result
BY DEF Result

\* What a call is at the points where its types matter, dropped or not.
CallTypes ==
  \A c \in Client :
    /\ pc[c] # "idle" => call[c] \in Call
    /\ pc[c] \in {"mkdir", "write"} => Mutates(call[c])

LEMMA WrittenType ==
  ASSUME NEW x \in Call, x.op \in {"set", "delete"}
  PROVE  Ok(Written(x)) \in Result
<1> DEFINE found == IF x.op = "delete" THEN [k \in {x.key} |-> Present]
                    ELSE EmptyMap
<1>1. DOMAIN found \in SUBSET Key
  BY CallType, EmptyMapType
<1>2. found \in [DOMAIN found -> Value \cup {Present}]
  BY EmptyMapType DEF EmptyMap
<1>3. found \in Answers
  <2> HIDE DEF found
  <2> QED BY <1>1, <1>2, AnswersType
<1>4. Written(x) = found
  BY DEF Written
<1> HIDE DEF found
<1> QED BY <1>3, <1>4 DEF Result, Answers

LEMMA CallTypesNext ==
  ASSUME TypeOK, CallTypes, [Next]_vars
  PROVE  CallTypes'
<1>1. ASSUME NEW c \in Client, Invoke(c) \/ Lock(c) PROVE CallTypes'
  BY <1>1 DEF Invoke, Lock, TypeOK, CallTypes
<1>2. ASSUME NEW c \in Client, Read(c) PROVE CallTypes'
  BY <1>2 DEF Read, Finish, Writes, Mutates, TypeOK, CallTypes
<1>3. ASSUME NEW c \in Client, ReadFails(c) \/ MkdirFails(c) PROVE CallTypes'
  BY <1>3 DEF ReadFails, MkdirFails, Finish, TypeOK, CallTypes
<1>4. ASSUME NEW c \in Client, Submit(c) PROVE CallTypes'
  BY <1>4 DEF Submit, TypeOK, CallTypes
<1>5. ASSUME NEW c \in Client, Truncate(c) PROVE CallTypes'
  BY <1>5 DEF Truncate, TypeOK, CallTypes
<1>6. ASSUME NEW c \in Client, OpenFails(c) \/ Write(c) \/ WriteFails(c)
      PROVE  CallTypes'
  BY <1>6 DEF OpenFails, Write, WriteFails, Done, Finish, TypeOK, CallTypes
<1>7. ASSUME NEW c \in Client, Leave(c) PROVE CallTypes'
  BY <1>7 DEF Leave, TypeOK, CallTypes
<1>8. CASE Crash
  BY <1>8 DEF Crash, CallTypes
<1>9. CASE UNCHANGED vars
  BY <1>9 DEF vars, CallTypes
<1> QED BY <1>1, <1>2, <1>3, <1>4, <1>5, <1>6, <1>7, <1>8, <1>9 DEF Next, Work

\* Types hold whether or not callers drop their futures.
LEMMA TypeNext ==
  ASSUME TypeOK, CallTypes, [Next]_vars
  PROVE  TypeOK'
<1>1. ASSUME NEW c \in Client, Invoke(c) \/ Lock(c) PROVE TypeOK'
  BY <1>1 DEF Invoke, Lock, TypeOK
<1>2. ASSUME NEW c \in Client, Read(c) PROVE TypeOK'
  <2>1. call[c] \in Call
    BY <1>2 DEF Read, CallTypes
  <2>2. Contents(file) \in Map
    BY <1>2, EmptyMapType DEF Read, Contents, Readable, TypeOK
  <2>3. /\ After(call[c], Contents(file)) \in Map
        /\ Ok(Found(call[c], Contents(file))) \in Result
    BY <2>1, <2>2, AfterType, FoundType
  <2> QED BY <1>2, <2>3 DEF Read, Finish, TypeOK
<1>3. ASSUME NEW c \in Client, ReadFails(c) \/ MkdirFails(c) PROVE TypeOK'
  BY <1>3, ErrType DEF ReadFails, MkdirFails, Finish, TypeOK
<1>4. ASSUME NEW c \in Client, Submit(c) PROVE TypeOK'
  BY <1>4 DEF Submit, TypeOK, Job
<1>5. ASSUME NEW c \in Client, Truncate(c) PROVE TypeOK'
  <2>1. job[c] \in Job
    BY <1>5 DEF Truncate, At, TypeOK
  <2>2. job' \in [Client -> Job \cup {None}]
    BY <1>5, <2>1 DEF Truncate, TypeOK, Job
  <2>3. file' = Blank /\ intact' = intact
    BY <1>5 DEF Truncate, Overwrite, Readable
  <2> QED BY <1>5, <2>2, <2>3 DEF Truncate, TypeOK
<1>6. ASSUME NEW c \in Client, OpenFails(c) PROVE TypeOK'
  BY <1>6, ErrType DEF OpenFails, Done, Finish, TypeOK
<1>7. ASSUME NEW c \in Client, Write(c) PROVE TypeOK'
  <2>1. job[c].map \in Map
    BY <1>7 DEF Write, At, TypeOK, Job
  <2>2. PICK f \in Outcomes(job[c].map, file) : Overwrite(f)
    BY <1>7 DEF Write
  <2>3. file' \in Map \cup {NoFile, Blank, Garbled} /\ intact' \in Map
    BY <2>1, <2>2, EmptyMapType
    DEF Overwrite, Outcomes, Contents, Readable, TypeOK
  <2>4. pc[c] = "write" => Ok(Written(call[c])) \in Result
    BY WrittenType DEF CallTypes, Mutates
  <2> QED BY <1>7, <2>3, <2>4 DEF Write, Done, Finish, TypeOK
<1>8. ASSUME NEW c \in Client, WriteFails(c) PROVE TypeOK'
  <2>1. file' \in {Blank, Garbled} /\ intact' = intact
    BY <1>8 DEF WriteFails, Overwrite, Readable
  <2> QED BY <1>8, <2>1, ErrType DEF WriteFails, Done, Finish, TypeOK
<1>9. ASSUME NEW c \in Client, Leave(c) PROVE TypeOK'
  BY <1>9, EmptyMapType DEF Leave, TypeOK
<1>10. CASE Crash
  BY <1>10, EmptyMapType DEF Crash, TypeOK
<1>11. CASE UNCHANGED vars
  BY <1>11 DEF vars, TypeOK
<1> QED BY <1>1, <1>2, <1>3, <1>4, <1>5, <1>6, <1>7, <1>8, <1>9, <1>10, <1>11
        DEF Next, Work

LEMMA InvHasCallTypes == StorageInv => TypeOK /\ CallTypes
<1> SUFFICES ASSUME StorageInv, NEW c \in Client
             PROVE  /\ pc[c] # "idle" => call[c] \in Call
                    /\ pc[c] \in {"mkdir", "write"} => Mutates(call[c])
  BY DEF StorageInv, CallTypes
<1> QED BY DEF StorageInv, TypeOK, CallInv

\* FileInv, when the file is left alone.
LEMMA FileKept ==
  ASSUME StorageInv, UNCHANGED <<file, intact>>
  PROVE  FileInv'
BY DEF StorageInv, FileInv

\* The callers other than a writer know nothing of the file.
LEMMA BystandersKeep ==
  ASSUME StorageInv, NEW c \in Client, pc[c] \in {"mkdir", "write"},
         \A d \in Client \ {c} :
           /\ pc'[d] = pc[d] /\ call'[d] = call[d] /\ map'[d] = map[d]
           /\ job'[d] = job[d] /\ result'[d] = result[d]
  PROVE  \A d \in Client \ {c} : CallInv(d)'
BY WriterIsAlone DEF StorageInv, CallInv, Holds, At

LEMMA InvNext ==
  ASSUME StorageInv, [Next]_vars, "cancel" \notin Faults
  PROVE  StorageInv'
<1> USE DEF StorageInv
<1>0. TypeOK /\ TypeOK'
  BY TypeNext, InvHasCallTypes
<1>1. ASSUME NEW c \in Client, Invoke(c) PROVE StorageInv'
  <2>1. LockInv'
    BY <1>0, <1>1, LockKept DEF Invoke, Holds, TypeOK
  <2>2. FileInv'
    BY <1>1, FileKept DEF Invoke
  <2>3. CallInv(c)'
    BY <1>0, <1>1, NoneAssumption DEF Invoke, CallInv, At, TypeOK
  <2>4. \A d \in Client \ {c} : CallInv(d)'
    BY <1>0, <1>1, OthersKeep DEF Invoke, TypeOK
  <2> QED BY <1>0, <2>1, <2>2, <2>3, <2>4
<1>2. ASSUME NEW c \in Client, Lock(c) PROVE StorageInv'
  <2>1. LockInv'
    BY <1>0, <1>2 DEF Lock, LockInv, Holds, Compatible, TypeOK
  <2>2. FileInv'
    BY <1>2, FileKept DEF Lock
  <2>3. CallInv(c)'
    BY <1>0, <1>2 DEF Lock, CallInv, At, TypeOK
  <2>4. \A d \in Client \ {c} : CallInv(d)'
    BY <1>0, <1>2, OthersKeep DEF Lock, TypeOK
  <2> QED BY <1>0, <2>1, <2>2, <2>3, <2>4
<1>3. ASSUME NEW c \in Client, Read(c) PROVE StorageInv'
  <2>1. LockInv'
    BY <1>0, <1>3, LockKept DEF Read, Finish, Holds, TypeOK
  <2>2. FileInv'
    BY <1>3, FileKept DEF Read
  <2>3. CallInv(c)'
    <3>1. Contents(file) = intact
      BY <1>3 DEF Read, FileInv
    <3>2. CASE pc'[c] = "mkdir"
      BY <1>0, <1>3, <3>1, <3>2 DEF Read, Finish, CallInv, Writes, Mutates, At, TypeOK
    <3>3. CASE pc'[c] # "mkdir"
      <4>1. /\ pc' = [pc EXCEPT ![c] = "done"] /\ UNCHANGED map
            /\ result' = [result EXCEPT ![c] = Ok(Found(call[c], intact))]
        BY <1>0, <1>3, <3>1, <3>3 DEF Read, Finish, TypeOK
      <4>2. Ok(Found(call[c], intact)) # None
        <5>1. call[c] \in Call
          BY <1>0, <1>3 DEF Read, CallInv, TypeOK
        <5> QED BY <1>0, <5>1, FoundType, NoneAssumption DEF TypeOK
      <4> QED BY <1>0, <1>3, <4>1, <4>2 DEF Read, CallInv, At, TypeOK
    <3> QED BY <3>2, <3>3
  <2>4. \A d \in Client \ {c} : CallInv(d)'
    BY <1>0, <1>3, OthersKeep DEF Read, Finish, TypeOK
  <2> QED BY <1>0, <2>1, <2>2, <2>3, <2>4
<1>4. ASSUME NEW c \in Client, ReadFails(c) \/ MkdirFails(c) PROVE StorageInv'
  <2>1. LockInv'
    BY <1>0, <1>4, LockKept DEF ReadFails, MkdirFails, Finish, Holds, TypeOK
  <2>2. FileInv'
    BY <1>4, FileKept DEF ReadFails, MkdirFails
  <2>3. CallInv(c)'
    BY <1>0, <1>4, ErrType, NoneAssumption
    DEF ReadFails, MkdirFails, Finish, CallInv, At, TypeOK
  <2>4. \A d \in Client \ {c} : CallInv(d)'
    BY <1>0, <1>4, OthersKeep DEF ReadFails, MkdirFails, Finish, TypeOK
  <2> QED BY <1>0, <2>1, <2>2, <2>3, <2>4
<1>5. ASSUME NEW c \in Client, Submit(c) PROVE StorageInv'
  <2> DEFINE j == [stage |-> "open", map |-> map[c]]
  <2>0. j # None /\ j.stage = "open" /\ j.map = map[c]
    BY <1>0, <1>5, JobAssumption DEF TypeOK, Job
  <2>1. LockInv'
    BY <1>0, <1>5, LockKept DEF Submit, Holds, TypeOK
  <2>2. FileInv'
    BY <1>0, <1>5, <2>0, FileKept DEF Submit, TypeOK
  <2>3. CallInv(c)'
    BY <1>0, <1>5, <2>0 DEF Submit, CallInv, At, TypeOK
  <2>4. \A d \in Client \ {c} : CallInv(d)'
    BY <1>0, <1>5, OthersKeep DEF Submit, TypeOK
  <2> QED BY <1>0, <2>1, <2>2, <2>3, <2>4
<1>6. ASSUME NEW c \in Client, Truncate(c) PROVE StorageInv'
  <2>0. /\ pc[c] = "write" /\ file' = Blank /\ intact' = intact
        /\ ~Readable(file')
    BY <1>6 DEF Truncate, At, Overwrite, Readable, CallInv
  <2>5. /\ job'[c] # None /\ job'[c].stage = "write"
        /\ job'[c].map = job[c].map
    BY <1>0, <1>6, JobAssumption DEF Truncate, At, TypeOK, Job
  <2>1. LockInv'
    BY <1>0, <1>6, LockKept DEF Truncate, Holds, TypeOK
  <2>2. FileInv'
    BY <2>0, <2>5 DEF FileInv
  <2>3. CallInv(c)'
    BY <1>0, <1>6, <2>0, <2>5 DEF Truncate, CallInv, At, TypeOK
  <2>4. \A d \in Client \ {c} : CallInv(d)'
    BY <1>0, <1>6, <2>0, BystandersKeep DEF Truncate, TypeOK
  <2> QED BY <1>0, <2>1, <2>2, <2>3, <2>4
<1>7. ASSUME NEW c \in Client, OpenFails(c) PROVE StorageInv'
  <2>0. pc[c] = "write"
    BY <1>7 DEF OpenFails, At, CallInv
  <2>1. LockInv'
    BY <1>0, <1>7, <2>0, LockKept DEF OpenFails, Done, Finish, Holds, TypeOK
  <2>2. FileInv'
    BY <1>7 DEF OpenFails, FileInv
  <2>3. CallInv(c)'
    BY <1>0, <1>7, <2>0, ErrType, NoneAssumption
    DEF OpenFails, Done, Finish, CallInv, At, TypeOK
  <2>4. \A d \in Client \ {c} : CallInv(d)'
    BY <1>0, <1>7, <2>0, OthersKeep DEF OpenFails, Done, Finish, TypeOK
  <2> QED BY <1>0, <2>1, <2>2, <2>3, <2>4
<1>8. ASSUME NEW c \in Client, Write(c) PROVE StorageInv'
  <2>0. /\ pc[c] = "write" /\ pc' = [pc EXCEPT ![c] = "done"]
        /\ result' = [result EXCEPT ![c] = Ok(Found(call[c], intact))]
        /\ job' = [job EXCEPT ![c] = None] /\ UNCHANGED <<call, map>>
    BY <1>8, WriteEffect DEF Write, Done
  <2>1. LockInv'
    BY <1>0, <2>0, LockKept DEF Holds, TypeOK
  <2>2. FileInv'
    BY <1>0, <1>8, WriteEffect, FileAssumption DEF FileInv, Contents
  <2>3. CallInv(c)'
    <3>1. Ok(Found(call[c], intact)) # None
      BY <1>0, <1>8, WriteEffect, FoundType, NoneAssumption DEF TypeOK
    <3> QED BY <1>0, <2>0, <3>1 DEF CallInv, At, TypeOK
  <2>4. \A d \in Client \ {c} : CallInv(d)'
    BY <1>0, <2>0, BystandersKeep DEF TypeOK
  <2> QED BY <1>0, <2>1, <2>2, <2>3, <2>4
<1>9. ASSUME NEW c \in Client, WriteFails(c) PROVE StorageInv'
  <2>0. /\ pc[c] = "write" /\ file' \in {Blank, Garbled} /\ intact' = intact
        /\ ~Readable(file') /\ Faults # {}
    BY <1>9 DEF WriteFails, At, Overwrite, Readable, CallInv
  <2>1. LockInv'
    BY <1>0, <1>9, <2>0, LockKept DEF WriteFails, Done, Finish, Holds, TypeOK
  <2>2. FileInv'
    BY <2>0 DEF FileInv
  <2>3. CallInv(c)'
    BY <1>0, <1>9, <2>0, ErrType, NoneAssumption
    DEF WriteFails, Done, Finish, CallInv, At, TypeOK
  <2>4. \A d \in Client \ {c} : CallInv(d)'
    BY <1>0, <1>9, <2>0, BystandersKeep DEF WriteFails, Done, Finish, TypeOK
  <2> QED BY <1>0, <2>1, <2>2, <2>3, <2>4
<1>10. ASSUME NEW c \in Client, Leave(c) PROVE StorageInv'
  <2>1. LockInv'
    BY <1>0, <1>10, LockKept DEF Leave, Holds, TypeOK
  <2>2. FileInv'
    BY <1>10, FileKept DEF Leave
  <2>3. CallInv(c)'
    BY <1>0, <1>10 DEF Leave, CallInv, At, TypeOK
  <2>4. \A d \in Client \ {c} : CallInv(d)'
    BY <1>0, <1>10, OthersKeep DEF Leave, TypeOK
  <2> QED BY <1>0, <2>1, <2>2, <2>3, <2>4
<1>11. CASE Crash
  <2>1. LockInv' /\ \A c \in Client : CallInv(c)'
    BY <1>11 DEF Crash, LockInv, Holds, CallInv, At
  <2>2. FileInv'
    BY <1>11 DEF Crash, FileInv
  <2> QED BY <1>0, <2>1, <2>2
<1>12. CASE UNCHANGED vars
  <2>1. LockInv' /\ FileInv' /\ \A c \in Client : CallInv(c)'
    BY <1>12 DEF vars, LockInv, Holds, Compatible, FileInv, CallInv, At
  <2> QED BY <1>0, <2>1
<1> QED BY <1>1, <1>2, <1>3, <1>4, <1>5, <1>6, <1>7, <1>8, <1>9, <1>10,
           <1>11, <1>12 DEF Next, Work

-----------------------------------------------------------------------------
(* The theorems.                                                             *)

\* The abstract storage speaks of the same calls.
LEMMA SameCalls ==
  /\ Storage!Call = Call /\ Storage!EmptyMap = EmptyMap /\ Storage!Err = Err
  /\ \A x, m : Storage!After(x, m) = After(x, m)
  /\ \A x, m : Storage!Writes(x, m) <=> Writes(x, m)
  /\ \A x, m : Storage!Ok(Storage!Found(x, m)) = Ok(Found(x, m))
BY DEF Storage!Call, Call, Storage!EmptyMap, EmptyMap, Storage!Err, Err,
       Storage!After, After, Storage!Found, Found, Storage!Ok, Ok,
       Storage!Restrict, Restrict, Storage!Writes, Writes

\* What there is to be had, in each state of the file.
LEMMA HeldIs ==
  ASSUME StorageInv
  PROVE  /\ Readable(file) => Held = intact
         /\ \A c \in Client : At(c, "write") => Held = intact
         /\ ~Readable(file) /\ (\A c \in Client : ~At(c, "write")) => Held = Lost
         /\ intact # Lost
<1>1. \A c \in Client : At(c, "write") => ~Readable(file)
  BY DEF StorageInv, CallInv, Readable
<1>2. intact # Lost
  BY LostAssumption DEF StorageInv, TypeOK
<1> QED BY <1>1, <1>2 DEF Held, StorageInv, FileInv

LEMMA HeldKept ==
  ASSUME UNCHANGED <<file, intact>>,
         \A d \in Client : At(d, "write")' <=> At(d, "write")
  PROVE  Held' = Held
BY DEF Held

\* A caller that has something to write has what it needs to ruin the map.
LEMMA WriterWrites ==
  ASSUME StorageInv, NEW c \in Client, pc[c] \in {"mkdir", "write"}
  PROVE  Writes(call[c], intact) /\ call[c] # None /\ result[c] = None
BY DEF StorageInv, CallInv, Writes, Mutates

\* Every step is one of the abstract storage, or invisible there.
LEMMA StepImplements ==
  ASSUME StorageInv, [Next]_vars, "cancel" \notin Faults
  PROVE  [Storage!Next]_Storage!vars
<1> USE DEF StorageInv
<1> DEFINE Seen == <<Held, call, result>>
           Loses == Faults \cap {"full", "crash"} # {}
<1>0. TypeOK
  OBVIOUS
<1>1. ASSUME NEW c \in Client, Invoke(c) PROVE Storage!Invoke(c)
  <2>1. Held' = Held
    BY <1>1, HeldKept DEF Invoke, At
  <2> QED BY <1>1, <2>1, SameCalls DEF Invoke, CallInv, Storage!Invoke
<1>2. ASSUME NEW c \in Client, Lock(c) PROVE UNCHANGED Seen
  BY <1>2, HeldKept DEF Lock, At
<1>3. ASSUME NEW c \in Client, Submit(c) PROVE UNCHANGED Seen
  <2> DEFINE j == [stage |-> "open", map |-> map[c]]
  <2>1. j.stage # "write" /\ job' = [job EXCEPT ![c] = j]
    BY <1>3 DEF Submit
  <2>2. job[c] = None
    BY <1>3 DEF Submit, CallInv
  <2> HIDE DEF j
  <2>3. Held' = Held
    BY <1>0, <1>3, <2>1, <2>2, HeldKept DEF Submit, At, TypeOK
  <2> QED BY <1>3, <2>3 DEF Submit
<1>4. ASSUME NEW c \in Client, Truncate(c) PROVE UNCHANGED Seen
  <2>1. Readable(file) /\ job[c] \in Job
    BY <1>0, <1>4 DEF Truncate, At, CallInv, TypeOK
  <2>2. file' = Blank /\ intact' = intact
    BY <1>4 DEF Truncate, Overwrite, Readable
  <2>3. job'[c] # None /\ job'[c].stage = "write"
    BY <1>0, <1>4, <2>1, JobAssumption DEF Truncate, TypeOK, Job
  <2>4. Held' = intact
    BY <2>2, <2>3 DEF Held, At, Readable
  <2> QED BY <1>4, <2>1, <2>4, HeldIs DEF Truncate
<1>5. ASSUME NEW c \in Client, Read(c)
      PROVE  UNCHANGED Seen \/ Storage!Apply(c)
  <2>1. call[c] \in Call /\ Contents(file) = intact /\ intact \in Map
    BY <1>5 DEF Read, FileInv, CallInv, TypeOK
  <2>2. Held' = Held
    BY <1>5, HeldKept DEF Read, At
  <2>3. Held = intact /\ intact # Lost
    BY <1>5, HeldIs DEF Read
  <2>4. CASE Writes(call[c], intact)
    BY <1>5, <2>1, <2>2, <2>4 DEF Read
  <2>5. CASE ~Writes(call[c], intact)
    <3>1. After(call[c], intact) = intact
      BY <2>1, <2>5, AfterQuiet DEF Writes
    <3>2. Storage!Pending(c)
      BY <1>5 DEF Read, CallInv, Storage!Pending
    <3> QED BY <1>5, <2>1, <2>2, <2>3, <2>5, <3>1, <3>2, SameCalls
            DEF Read, Finish, Storage!Apply
  <2> QED BY <2>4, <2>5
<1>6. ASSUME NEW c \in Client, ReadFails(c) PROVE Storage!Fail(c)
  <2>1. "refuse" \in Faults \/ Held = Lost
    <3>1. CASE ~Readable(file)
      <4>1. ASSUME NEW d \in Client, At(d, "write") PROVE FALSE
        BY <1>6, <4>1, WriterIsAlone DEF ReadFails, At, CallInv, Holds
      <4> QED BY <3>1, <4>1, HeldIs
    <3> QED BY <1>6, <3>1 DEF ReadFails
  <2>2. Held' = Held
    BY <1>6, HeldKept DEF ReadFails, At
  <2> QED BY <1>6, <2>1, <2>2, SameCalls
          DEF ReadFails, Finish, CallInv, Storage!Fail, Storage!Fails, Storage!Pending
<1>7. ASSUME NEW c \in Client, MkdirFails(c) PROVE Storage!Fail(c)
  <2>1. Held' = Held
    BY <1>7, HeldKept DEF MkdirFails, At
  <2> QED BY <1>7, <2>1, SameCalls
          DEF MkdirFails, Finish, CallInv, Storage!Fail, Storage!Fails, Storage!Pending
<1>8. ASSUME NEW c \in Client, OpenFails(c) PROVE Storage!Fail(c)
  <2>1. Held' = Held
    BY <1>0, <1>8, HeldKept DEF OpenFails, Done, At, TypeOK
  <2> QED BY <1>8, <2>1, SameCalls
          DEF OpenFails, At, Done, Finish, CallInv, Storage!Fail, Storage!Fails,
              Storage!Pending
<1>9. ASSUME NEW c \in Client, WriteFails(c) PROVE Storage!Ruin(c)
  <2>1. pc[c] = "write" /\ Held = intact /\ intact # Lost /\ Loses
    BY <1>9, HeldIs DEF WriteFails, At, CallInv
  <2>2. ~Readable(file')
    BY <1>9 DEF WriteFails, Overwrite, Readable
  <2>3. ASSUME NEW d \in Client PROVE ~At(d, "write")'
    BY <1>0, <1>9, <2>1, WriterIsAlone DEF WriteFails, Done, At, TypeOK
  <2>4. Held' = Lost
    BY <2>2, <2>3 DEF Held
  <2>5. Storage!CanRuin(c)
    BY <2>1, WriterWrites, SameCalls DEF Storage!CanRuin, Storage!Pending
  <2> QED BY <1>9, <2>1, <2>4, <2>5, SameCalls
          DEF WriteFails, Done, Finish, Storage!Ruin, Storage!Fails
<1>10. ASSUME NEW c \in Client, Write(c) PROVE Storage!Apply(c)
  <2>1. /\ pc[c] = "write" /\ intact' = After(call[c], intact)
        /\ result' = [result EXCEPT ![c] = Ok(Found(call[c], intact))]
        /\ UNCHANGED call /\ Readable(file') /\ file' = intact'
        /\ intact' \in Map
    BY <1>10, WriteEffect DEF Write, Done
  <2>2. Held = intact /\ intact # Lost
    BY <1>10, HeldIs DEF Write
  <2>3. Held' = intact'
    BY <2>1, FileAssumption DEF Held, Contents
  <2>4. Storage!Pending(c)
    BY <2>1 DEF CallInv, Storage!Pending
  <2> QED BY <2>1, <2>2, <2>3, <2>4, SameCalls DEF Storage!Apply
<1>11. ASSUME NEW c \in Client, Leave(c)
       PROVE  Storage!Return(c) \/ Storage!Abandon
  <2>1. Held' = Held
    BY <1>11, HeldKept DEF Leave, At
  <2>2. Storage!Forget({c})
    BY <1>0, <1>11 DEF Leave, TypeOK, Storage!Forget
  <2>3. CASE pc[c] = "done"
    BY <2>1, <2>2, <2>3 DEF CallInv, Storage!Return
  <2>4. CASE pc[c] # "done"
    BY <1>11, <2>1, <2>2, <2>4 DEF Leave, Storage!Abandon
  <2> QED BY <2>3, <2>4
<1>12. CASE Crash
  <2>1. Storage!Forget(Client) /\ Loses /\ "crash" \in Faults
    BY <1>12 DEF Crash, Storage!Forget
  <2>2. \A d \in Client : ~At(d, "write")'
    BY <1>12 DEF Crash, At
  <2>3. CASE \E c \in Client : At(c, "write")
    <3>1. PICK c \in Client : At(c, "write")
      BY <2>3
    <3>2. pc[c] = "write" /\ ~Readable(file) /\ Held = intact /\ intact # Lost
      BY <3>1, HeldIs DEF At, CallInv, Readable
    <3>3. Held' = Lost
      BY <1>12, <2>2, <3>2 DEF Crash, Held
    <3>4. Storage!CanRuin(c)
      BY <2>1, <3>2, WriterWrites, SameCalls DEF Storage!CanRuin, Storage!Pending
    <3> QED BY <2>1, <3>3, <3>4 DEF Storage!Abandon, Storage!Next
  <2>4. CASE \A c \in Client : ~At(c, "write")
    <3>1. Held' = Held
      BY <1>12, <2>2, <2>4, HeldKept DEF Crash
    <3> QED BY <2>1, <3>1 DEF Storage!Abandon, Storage!Next
  <2> QED BY <2>3, <2>4
<1>13. CASE UNCHANGED vars
  <2>1. Held' = Held
    BY <1>13, HeldKept DEF vars, At
  <2> QED BY <1>13, <2>1 DEF vars, Storage!vars
<1> QED BY <1>1, <1>2, <1>3, <1>4, <1>5, <1>6, <1>7, <1>8, <1>9, <1>10,
           <1>11, <1>12, <1>13 DEF Next, Work, Storage!Next, Storage!vars

LEMMA InvAlways ==
  ASSUME "cancel" \notin Faults
  PROVE  Spec => []StorageInv
<1>1. StorageInv /\ [Next]_vars => StorageInv'
  BY InvNext
<1> QED BY <1>1, InvInit, PTL DEF Spec

\* The variables of the JSON file keep their types, with futures dropped too.
THEOREM TypeCorrect == Spec => []TypeOK
<1>1. Init => TypeOK /\ CallTypes
  <2>1. Init => TypeOK
    BY EmptyMapType DEF Init, TypeOK
  <2>2. Init => CallTypes
    BY DEF Init, CallTypes
  <2> QED BY <2>1, <2>2
<1>2. TypeOK /\ CallTypes /\ [Next]_vars => (TypeOK /\ CallTypes)'
  BY TypeNext, CallTypesNext
<1> QED BY <1>1, <1>2, PTL DEF Spec

\* While nobody drops a future whose write is under way, what is written to the
\* file differs from what was in it by one call.
THEOREM UpdatesAreSingle ==
  ASSUME "cancel" \notin Faults
  PROVE  Spec => OneUpdateAtATime
<1> DEFINE OneUpdate == intact' # intact => \E x \in Call : intact' = After(x, intact)
<1>1. StorageInv /\ [Next]_vars => OneUpdate
  <2> SUFFICES ASSUME StorageInv, [Next]_vars PROVE OneUpdate
    OBVIOUS
  <2>1. ASSUME NEW c \in Client, Write(c) PROVE OneUpdate
    BY <2>1, WriteEffect
  <2>2. ASSUME NEW c \in Client, Truncate(c) \/ WriteFails(c) PROVE intact' = intact
    BY <2>2 DEF Truncate, WriteFails, Overwrite, Readable
  <2>3. ASSUME NEW c \in Client,
               \/ Invoke(c) \/ Lock(c) \/ Read(c) \/ ReadFails(c) \/ Submit(c)
               \/ MkdirFails(c) \/ OpenFails(c) \/ Leave(c)
        PROVE  intact' = intact
    BY <2>3 DEF Invoke, Lock, Read, ReadFails, Submit, MkdirFails, OpenFails, Leave
  <2>4. CASE Crash \/ UNCHANGED vars
    BY <2>4 DEF Crash, vars
  <2> QED BY <2>1, <2>2, <2>3, <2>4 DEF Next, Work
<1>2. StorageInv /\ [Next]_vars => [OneUpdate]_vars
  BY <1>1
<1>3. [][OneUpdate]_vars => OneUpdateAtATime
  BY DEF OneUpdateAtATime
<1> QED BY <1>2, <1>3, InvAlways, PTL DEF Spec

\* The JSON file under its lock is a map behind a mutex: every call has all of
\* its effect at once, although the file is read, truncated and written in
\* separate steps; a call that is refused or dropped before its write has none;
\* and one that is cut off in its write, by a full disk or the end of the
\* process, has the whole map lost, and every later call fails.
THEOREM FileImplementsKeyValue ==
  ASSUME "cancel" \notin Faults
  PROVE  Spec => ImplementsKeyValue
<1>1. Init => Storage!Init
  <2>1. Init => Held = EmptyMap
    BY FileAssumption DEF Init, Held, Readable, Contents
  <2> QED BY <2>1, SameCalls DEF Init, Storage!Init
<1>2. StorageInv /\ [Next]_vars => [Storage!Next]_Storage!vars
  BY StepImplements
<1> QED BY <1>1, <1>2, InvAlways, PTL DEF Spec, ImplementsKeyValue, Storage!Spec
=============================================================================
