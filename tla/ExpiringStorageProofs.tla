------------------------ MODULE ExpiringStorageProofs -----------------------
(* Proofs about ExpiringStorage, for any number of clients and keys, any     *)
(* clock resolution and any last tick.                                       *)
EXTENDS ExpiringStorage, TLAPS

-----------------------------------------------------------------------------
(* Time.                                                                     *)

LEMMA SecsBounds ==
  ASSUME NEW t \in Nat
  PROVE  /\ Secs(t) \in Nat
         /\ TicksPerSec * Secs(t) <= t
         /\ t < TicksPerSec * Secs(t) + TicksPerSec
BY TicksAssumption DEF Secs

LEMMA TicksMonotone ==
  ASSUME NEW a \in Nat, NEW b \in Nat, a < b
  PROVE  TicksPerSec * a + TicksPerSec <= TicksPerSec * b
<1>1. PICK d \in Nat : b = a + 1 + d
  <2>1. b - a - 1 \in Nat /\ b = a + 1 + (b - a - 1)
    OBVIOUS
  <2> QED BY <2>1
<1>2. TicksPerSec * b = TicksPerSec * a + TicksPerSec + TicksPerSec * d
  BY <1>1, TicksAssumption
<1>3. TicksPerSec * d \in Nat /\ TicksPerSec * a \in Nat
  BY TicksAssumption
<1> QED BY <1>2, <1>3, TicksAssumption

\* A later tick is in no earlier second.
LEMMA SecsMonotone ==
  ASSUME NEW a \in Nat, NEW b \in Nat, a <= b
  PROVE  Secs(a) <= Secs(b)
<1> SUFFICES ASSUME Secs(b) < Secs(a) PROVE FALSE
  BY SecsBounds
<1>1. TicksPerSec * Secs(b) + TicksPerSec <= TicksPerSec * Secs(a)
  BY SecsBounds, TicksMonotone
<1>2. TicksPerSec * Secs(a) \in Nat /\ TicksPerSec * Secs(b) \in Nat
  BY SecsBounds, TicksAssumption
<1> QED BY <1>1, <1>2, SecsBounds, TicksAssumption

\* A tick whose second has been reached is less than a second away.
LEMMA SameSecond ==
  ASSUME NEW a \in Nat, NEW b \in Nat, Secs(b) <= Secs(a)
  PROVE  b < a + TicksPerSec
<1>1. TicksPerSec * Secs(b) <= TicksPerSec * Secs(a)
  <2>1. CASE Secs(b) = Secs(a)
    BY <2>1, SecsBounds, TicksAssumption
  <2>2. CASE Secs(b) < Secs(a)
    <3>1. TicksPerSec * Secs(b) + TicksPerSec <= TicksPerSec * Secs(a)
      BY <2>2, SecsBounds, TicksMonotone
    <3>2. TicksPerSec * Secs(a) \in Nat /\ TicksPerSec * Secs(b) \in Nat
      BY SecsBounds, TicksAssumption
    <3> QED BY <3>1, <3>2, TicksAssumption
  <2> QED BY <2>1, <2>2, SecsBounds
<1>2. TicksPerSec * Secs(a) \in Nat /\ TicksPerSec * Secs(b) \in Nat
  BY SecsBounds, TicksAssumption
<1> QED BY <1>1, <1>2, SecsBounds, TicksAssumption

LEMMA WrapperFields ==
  ASSUME NEW w \in Wrappers
  PROVE  \/ w.until = None /\ w.expires = None
         \/ w.until \in Nat /\ w.expires = Secs(w.until) /\ w.expires # None
<1>1. PICK t \in Time \cup {None} : w = Wrapper(t)
  BY DEF Wrappers
<1>2. t = None \/ t \in Nat
  BY <1>1, TicksAssumption DEF Time
<1>3. t \in Nat => Secs(t) # None /\ t # None
  BY SecsBounds, NoneAssumption
<1> QED BY <1>1, <1>2, <1>3 DEF Wrapper

\* What has not expired at t has not reached its deadline at t.
LEMMA LiveBeforeDeadline ==
  ASSUME NEW w \in Wrappers, NEW t \in Nat, ~IsExpired(w, t), w.until # None
  PROVE  t < w.until
<1>1. w.until \in Nat /\ w.expires = Secs(w.until) /\ w.expires # None
  BY WrapperFields
<1>2. Secs(t) < Secs(w.until)
  BY <1>1, SecsBounds DEF IsExpired
<1>3. CASE w.until <= t
  BY <1>1, <1>2, <1>3, SecsMonotone, SecsBounds
<1> QED BY <1>1, <1>3

-----------------------------------------------------------------------------
(* The inductive invariant: the types, and what the stages of a call know.   *)

\* A get reads one key, so what has expired is all that it has seen.
CheckStage(c) ==
  /\ seen[c] \in SUBSET Wrappers
  /\ call[c].op # "entries" => \A v, w \in seen[c] : v = w

EvictStage(c) ==
  /\ seen[c] \in SUBSET Wrappers
  /\ \A w \in seen[c] : IsExpired(w, now)

StageInv(c) ==
  /\ pc[c] # "idle" => call[c] \in Call
  /\ pc[c] = "store" => call[c].op = "set"
  /\ pc[c] = "check" => call[c].op \in {"get", "entries"} /\ CheckStage(c)
  /\ pc[c] = "evict" => call[c].op = "get" /\ EvictStage(c)

ExpiringInv == TypeOK /\ \A c \in Client : StageInv(c)

LEMMA InvInit == Init => ExpiringInv
BY TicksAssumption DEF Init, ExpiringInv, TypeOK, StageInv, Time

LEMMA WrapperType == \A t \in Time \cup {None} : Wrapper(t) \in Wrappers
BY DEF Wrappers

\* Only get and entries hold what they have read against the clock.
LEMMA CheckedIsRead ==
  ASSUME NEW c \in Client, StageInv(c), pc[c] = "check"
  PROVE  call[c].op \in {"get", "entries"}
BY DEF StageInv

\* Returning leaves the invariant as it was, if what is stored and what is
\* returned are entries.
LEMMA ReturnsKeeps ==
  ASSUME ExpiringInv, NEW c \in Client, NEW entries \in (SUBSET Wrappers) \cup {None},
         Returns(c, entries), UNCHANGED <<now, raw, sweep, source>>,
         DOMAIN data' \subseteq Key, \A k \in DOMAIN data' : data'[k] \in Wrappers
  PROVE  ExpiringInv'
<1>1. TypeOK'
  BY DEF ExpiringInv, TypeOK, Returns
<1>2. ASSUME NEW d \in Client PROVE StageInv(d)'
  BY DEF ExpiringInv, TypeOK, StageInv, CheckStage, EvictStage, Returns
<1> QED BY <1>1, <1>2 DEF ExpiringInv

LEMMA InvNext == ExpiringInv /\ [Next]_vars => ExpiringInv'
<1> SUFFICES ASSUME ExpiringInv, [Next]_vars PROVE ExpiringInv'
  OBVIOUS
<1> USE DEF ExpiringInv
<1>1. CASE Tick
  <2>1. now \in Nat /\ now' \in Time /\ now' \in Nat /\ now <= now'
    BY <1>1, TicksAssumption DEF Tick, TypeOK, Time
  <2>2. ASSUME NEW w \in Wrappers, IsExpired(w, now) PROVE IsExpired(w, now')
    <3>1. w.expires \in Nat
      BY <2>2, WrapperFields, SecsBounds DEF IsExpired
    <3> QED BY <2>1, <2>2, <3>1, SecsMonotone, SecsBounds DEF IsExpired
  <2>3. TypeOK'
    BY <1>1, <2>1 DEF Tick, TypeOK, clients
  <2>4. ASSUME NEW c \in Client PROVE StageInv(c)'
    <3>1. EvictStage(c) => EvictStage(c)'
      BY <1>1, <2>2 DEF Tick, EvictStage, clients
    <3>2. CheckStage(c) => CheckStage(c)'
      BY <1>1 DEF Tick, CheckStage, clients
    <3> QED BY <1>1, <3>1, <3>2 DEF Tick, StageInv, clients
  <2> QED BY <2>3, <2>4
<1>2. ASSUME NEW c \in Client, Invoke(c) PROVE ExpiringInv'
  BY <1>2 DEF Invoke, TypeOK, StageInv, CheckStage, EvictStage
<1>3. ASSUME NEW c \in Client, Read(c) PROVE ExpiringInv'
  <2> DEFINE asked == IF call[c].op = "entries" THEN DOMAIN data
                      ELSE DOMAIN data \cap {call[c].key}
  <2>1. /\ pc' = [pc EXCEPT ![c] = "check"]
        /\ seen' = [seen EXCEPT ![c] = {data[k] : k \in asked}]
        /\ UNCHANGED <<now, data, call, result, raw, sweep, source>>
        /\ pc[c] = "call"
    BY <1>3 DEF Read, At
  <2>2. {data[k] : k \in asked} \in SUBSET Wrappers
    BY DEF TypeOK
  <2>3. call[c].op # "entries" => \A v, w \in {data[k] : k \in asked} : v = w
    OBVIOUS
  <2> HIDE DEF asked
  <2>4. TypeOK'
    BY <2>1, <2>2 DEF TypeOK
  <2>5. CheckStage(c)'
    BY <2>1, <2>2, <2>3 DEF TypeOK, CheckStage
  <2>6. StageInv(c)'
    <3>1. call[c] \in Call /\ call[c].op \in {"get", "entries"}
      BY <1>3 DEF Read, At, StageInv
    <3> QED BY <2>1, <2>5, <3>1 DEF TypeOK, StageInv
  <2>7. ASSUME NEW d \in Client, d # c PROVE StageInv(d)'
    BY <2>1, <2>7 DEF TypeOK, StageInv, CheckStage, EvictStage
  <2> QED BY <2>4, <2>6, <2>7
<1>4. ASSUME NEW c \in Client, Check(c) PROVE ExpiringInv'
  <2>0. /\ pc[c] = "check" /\ CheckStage(c) /\ call[c] \in Call
        /\ UNCHANGED <<now, data, raw, sweep, source>>
    BY <1>4 DEF Check, StageInv
  <2>1. CASE call[c].op # "entries" /\ Expired(c) # {}
    <3>1. pc' = [pc EXCEPT ![c] = "evict"] /\ UNCHANGED <<call, seen, result>>
      BY <1>4, <2>1 DEF Check
    <3>2. \A w \in seen[c] : IsExpired(w, now)
      BY <2>0, <2>1 DEF CheckStage, Expired
    <3>3. call[c].op = "get"
      BY <2>0, <2>1, CheckedIsRead DEF StageInv
    <3> QED BY <2>0, <3>1, <3>2, <3>3
            DEF TypeOK, StageInv, CheckStage, EvictStage
  <2>2. CASE ~(call[c].op # "entries" /\ Expired(c) # {})
    <3>1. Returns(c, seen[c] \ Expired(c))
      BY <1>4, <2>2 DEF Check
    <3>2. seen[c] \ Expired(c) \in SUBSET Wrappers
      BY <2>0 DEF CheckStage
    <3>3. /\ DOMAIN data' \subseteq Key
          /\ \A k \in DOMAIN data' : data'[k] \in Wrappers
      BY <2>0 DEF TypeOK
    <3> QED BY <2>0, <3>1, <3>2, <3>3, ReturnsKeeps
  <2> QED BY <2>1, <2>2
<1>5. ASSUME NEW c \in Client, Evict(c) PROVE ExpiringInv'
  <2>1. /\ DOMAIN data' \subseteq Key
        /\ \A k \in DOMAIN data' : data'[k] \in Wrappers
    BY <1>5 DEF Evict, Restrict, TypeOK
  <2> QED BY <1>5, <2>1, ReturnsKeeps DEF Evict
<1>6. ASSUME NEW c \in Client, CheckDeadline(c) PROVE ExpiringInv'
  <2>1. CASE Returns(c, None)
    BY <1>6, <2>1, ReturnsKeeps DEF CheckDeadline, TypeOK
  <2>2. CASE pc' = [pc EXCEPT ![c] = "store"] /\ UNCHANGED <<call, seen, result>>
    BY <1>6, <2>2
       DEF CheckDeadline, At, TypeOK, StageInv, CheckStage, EvictStage
  <2> QED BY <1>6, <2>1, <2>2 DEF CheckDeadline
<1>7. ASSUME NEW c \in Client, Store(c) PROVE ExpiringInv'
  <2>1. call[c].key \in Key /\ call[c].until \in Time \cup {None}
    BY <1>7 DEF Store, StageInv, Call
  <2>2. Wrapper(call[c].until) \in Wrappers
    BY <2>1, WrapperType
  <2>3. /\ DOMAIN data' \subseteq Key
        /\ \A k \in DOMAIN data' : data'[k] \in Wrappers
    BY <1>7, <2>1, <2>2 DEF Store, TypeOK
  <2> QED BY <1>7, <2>3, ReturnsKeeps DEF Store
<1>8. ASSUME NEW c \in Client, Delete(c) PROVE ExpiringInv'
  <2>1. /\ DOMAIN data' \subseteq Key
        /\ \A k \in DOMAIN data' : data'[k] \in Wrappers
    BY <1>8 DEF Delete, Restrict, TypeOK
  <2> QED BY <1>8, <2>1, ReturnsKeeps DEF Delete
<1>11. CASE Sweep
  BY <1>11 DEF Sweep, TypeOK, StageInv, CheckStage, EvictStage, clients
<1>12. CASE SweepFilter
  BY <1>12 DEF SweepFilter, TypeOK, StageInv, CheckStage, EvictStage, clients
<1>13. CASE SweepDelete
  BY <1>13
     DEF SweepDelete, Restrict, TypeOK, StageInv, CheckStage, EvictStage, clients
<1>15. CASE SweepDone \/ Drop
  BY <1>15 DEF SweepDone, Drop, TypeOK, StageInv, CheckStage, EvictStage, clients
<1>14. CASE UNCHANGED vars
  BY <1>14 DEF vars, clients, TypeOK, StageInv, CheckStage, EvictStage
<1> QED
  BY <1>1, <1>2, <1>3, <1>4, <1>5, <1>6, <1>7, <1>8, <1>11, <1>12,
     <1>13, <1>14, <1>15 DEF Next, Sweeper, Serve

LEMMA InvAlways == Spec => []ExpiringInv
BY InvInit, InvNext, PTL DEF Spec

-----------------------------------------------------------------------------
(* The variables of the storage keep their types.                            *)
THEOREM TypeCorrect == Spec => []TypeOK
<1>1. ExpiringInv => TypeOK
  BY DEF ExpiringInv
<1> QED BY <1>1, InvAlways, PTL

\* A get takes an entry for expired at most a second before its deadline,
\* however long it waits between the check and the eviction.
THEOREM EvictionsAreInTheSecond == Spec => []EvictsWithinTheSecond
<1>1. ExpiringInv => EvictsWithinTheSecond
  <2> SUFFICES ASSUME ExpiringInv, NEW c \in Client, pc[c] = "evict",
                      NEW w \in seen[c]
               PROVE  w.until # None /\ w.until < now + TicksPerSec
    BY DEF EvictsWithinTheSecond
  <2>1. now \in Nat
    BY TicksAssumption DEF ExpiringInv, TypeOK, Time
  <2>2. w \in Wrappers /\ IsExpired(w, now)
    BY DEF ExpiringInv, StageInv, EvictStage
  <2>3. w.until \in Nat /\ w.expires = Secs(w.until)
    BY <2>2, WrapperFields DEF IsExpired
  <2>4. Secs(w.until) <= Secs(now)
    BY <2>2, <2>3 DEF IsExpired
  <2> QED BY <2>1, <2>3, <2>4, SameSecond, NoneAssumption
<1> QED BY <1>1, InvAlways, PTL

ReturnStep ==
  \A c \in Client : result'[c] # result[c] /\ result'[c] # None =>
    \A w \in result'[c] : w.until # None => now < w.until

\* No call returns an entry that has reached the deadline it was given, to the
\* tick, though the storage compares whole seconds.
THEOREM NothingReturnedLate == Spec => NotReturnedAfterDeadline
<1>1. ExpiringInv /\ [Next]_vars => ReturnStep
  <2> SUFFICES ASSUME ExpiringInv, [Next]_vars PROVE ReturnStep
    OBVIOUS
  <2>0. result \in [Client -> (SUBSET Wrappers) \cup {None}] /\ now \in Nat
    BY TicksAssumption DEF ExpiringInv, TypeOK, Time
  <2>1. ASSUME NEW c \in Client, Check(c) PROVE ReturnStep
    <3>1. CheckStage(c)
      BY <2>1 DEF Check, ExpiringInv, StageInv
    <3>2. ASSUME result'[c] # result[c], NEW w \in result'[c], w.until # None
          PROVE  now < w.until
      <4>1. w \in Wrappers /\ ~IsExpired(w, now)
        BY <2>0, <2>1, <3>1, <3>2 DEF Check, Returns, Expired, CheckStage
      <4> QED BY <2>0, <3>2, <4>1, LiveBeforeDeadline
    <3>3. \A d \in Client \ {c} : result'[d] = result[d]
      BY <2>0, <2>1 DEF Check, Returns
    <3> QED BY <3>2, <3>3 DEF ReturnStep
  <2>2. ASSUME NEW c \in Client, Evict(c) \/ Store(c) \/ Delete(c)
        PROVE  ReturnStep
    <3>1. \A d \in Client : result'[d] = result[d] \/ result'[d] = {}
      BY <2>0, <2>2 DEF Evict, Store, Delete, Returns
    <3> QED BY <3>1 DEF ReturnStep
  <2>3. ASSUME NEW c \in Client, Invoke(c) \/ CheckDeadline(c) PROVE ReturnStep
    <3>1. \A d \in Client : result'[d] = result[d] \/ result'[d] = None
      BY <2>0, <2>3 DEF Invoke, CheckDeadline, Returns
    <3> QED BY <3>1 DEF ReturnStep
  <2>4. ASSUME \/ \E c \in Client : Read(c)
               \/ Tick \/ Sweeper \/ Drop \/ UNCHANGED vars
        PROVE  ReturnStep
    <3>1. UNCHANGED result
      BY <2>4 DEF Read, Tick, Sweeper, Sweep, SweepFilter, SweepDelete,
                  SweepDone, Drop, vars, clients
    <3> QED BY <3>1 DEF ReturnStep
  <2> QED BY <2>1, <2>2, <2>3, <2>4 DEF Next, Serve
<1>2. ExpiringInv /\ [Next]_vars => [ReturnStep]_vars
  BY <1>1
<1>3. [][ReturnStep]_vars => NotReturnedAfterDeadline
  BY DEF ReturnStep, NotReturnedAfterDeadline
<1> QED BY <1>2, <1>3, InvAlways, PTL DEF Spec
=============================================================================
