----------------------- MODULE PassthroughStorageProofs ---------------------
(* Proof that a storage which rewrites its keys is a key-value storage of    *)
(* its own, for any storages beside it on the same source, any users and any *)
(* transformation of keys that keeps the storages apart.                     *)
EXTENDS PassthroughStorage, TLAPS

-----------------------------------------------------------------------------
(* The calls, and what the source makes of them.                             *)

IsMap(m) == DOMAIN m \subseteq SourceKey /\ m \in [DOMAIN m -> Value]

LEMMA CallCases ==
  ASSUME NEW x \in Call
  PROVE  \/ x.op = "entries"
         \/ x.op \in {"get", "has", "delete"} /\ x.key \in Key
         \/ x.op = "set" /\ x.key \in Key /\ x.value \in Value
BY DEF Call

LEMMA ForwardFields ==
  ASSUME NEW s \in Rewriter, NEW x \in Call
  PROVE  /\ Forward(s, x).op = x.op
         /\ x.op = "entries" => Forward(s, x) = x
         /\ x.op # "entries" => Forward(s, x).key = NewKey[s][x.key]
         /\ x.op = "set" => Forward(s, x).value = x.value
BY DEF Forward, Call

LEMMA PlaceOfOwn ==
  ASSUME NEW k \in Key, NEW l \in Key, Place(k) = Place(l)
  PROVE  k = l
BY PlacesAreApart, KeyTypes DEF Place

LEMMA PlacesOfOthers ==
  ASSUME NEW s \in Rewriter, s # Observed, NEW k \in Key, NEW l \in Key
  PROVE  NewKey[s][k] # Place(l)
BY PlacesAreApart, KeyTypes DEF Place

LEMMA AfterType ==
  ASSUME NEW s \in Rewriter, NEW x \in Call, IsMap(source)
  PROVE  IsMap(After(Forward(s, x), source))
<1>1. /\ Forward(s, x).op = x.op
      /\ x.op # "entries" => Forward(s, x).key = NewKey[s][x.key]
      /\ x.op = "set" => Forward(s, x).value = x.value
  BY ForwardFields
<1>2. CASE x.op = "set"
  <2>1. NewKey[s][x.key] \in SourceKey /\ x.value \in Value
    BY <1>2, CallCases, KeyTypes
  <2> QED BY <1>1, <1>2, <2>1 DEF IsMap, After
<1>3. CASE x.op = "delete"
  BY <1>1, <1>3 DEF IsMap, After, Restrict
<1>4. CASE x.op \notin {"set", "delete"}
  BY <1>1, <1>4 DEF After
<1> QED BY <1>2, <1>3, <1>4

-----------------------------------------------------------------------------
(* What the users of the observed storage see of a step of the source.       *)

LEMMA OwnSpec ==
  /\ DOMAIN Own = {k \in Key : Place(k) \in DOMAIN source}
  /\ \A k \in DOMAIN Own : Own[k] = source[Place(k)]
BY DEF Own, Place

\* A call of a user is a call on what the source holds for it.
LEMMA OwnCall ==
  ASSUME NEW x \in Call, IsMap(source),
         source' = After(Forward(Observed, x), source)
  PROVE  Own' = After(x, Own)
<1> DEFINE y == Forward(Observed, x)
<1>0. /\ y.op = x.op
      /\ x.op # "entries" => y.key = Place(x.key)
      /\ x.op = "set" => y.value = x.value
  BY ForwardFields, KeyTypes DEF Place
<1>1. Own' = [k \in {j \in Key : Place(j) \in DOMAIN source'} |->
                 source'[Place(k)]]
  BY DEF Own, Place
<1>2. source' = After(y, source)
  OBVIOUS
<1> HIDE DEF y
<1>3. CASE x.op = "set"
  <2>1. x.key \in Key
    BY <1>3, CallCases
  <2>2. source' = [i \in DOMAIN source \cup {Place(x.key)} |->
                     IF i = Place(x.key) THEN x.value ELSE source[i]]
    BY <1>0, <1>2, <1>3 DEF After
  <2>3. {j \in Key : Place(j) \in DOMAIN source'} = DOMAIN Own \cup {x.key}
    BY <2>1, <2>2, OwnSpec, PlaceOfOwn
  <2>4. ASSUME NEW k \in DOMAIN Own \cup {x.key}
        PROVE  source'[Place(k)] = IF k = x.key THEN x.value ELSE Own[k]
    <3>1. k \in Key
      BY <2>1, OwnSpec
    <3> QED BY <3>1, <2>1, <2>2, <2>4, OwnSpec, PlaceOfOwn
  <2>5. After(x, Own) = [k \in DOMAIN Own \cup {x.key} |->
                            IF k = x.key THEN x.value ELSE Own[k]]
    BY <1>3 DEF After
  <2> QED BY <1>1, <2>3, <2>4, <2>5
<1>4. CASE x.op = "delete"
  <2>1. x.key \in Key
    BY <1>4, CallCases
  <2>2. source' = [i \in DOMAIN source \ {Place(x.key)} |-> source[i]]
    BY <1>0, <1>2, <1>4 DEF After, Restrict
  <2>3. {j \in Key : Place(j) \in DOMAIN source'} = DOMAIN Own \ {x.key}
    BY <2>1, <2>2, OwnSpec, PlaceOfOwn
  <2>4. \A k \in DOMAIN Own \ {x.key} : source'[Place(k)] = Own[k]
    BY <2>2, <2>3, OwnSpec
  <2>5. After(x, Own) = [k \in DOMAIN Own \ {x.key} |-> Own[k]]
    BY <1>4 DEF After, Restrict
  <2> QED BY <1>1, <2>3, <2>4, <2>5
<1>5. CASE x.op \notin {"set", "delete"}
  <2>1. source' = source
    BY <1>0, <1>2, <1>5 DEF After
  <2>2. After(x, Own) = Own
    BY <1>5 DEF After
  <2> QED BY <1>1, <2>1, <2>2 DEF Own, Place
<1> QED BY <1>3, <1>4, <1>5

\* A call of the user of another storage is none.
LEMMA OthersCall ==
  ASSUME NEW s \in Rewriter, s # Observed, NEW x \in Call, IsMap(source),
         source' = After(Forward(s, x), source)
  PROVE  Own' = Own
<1> DEFINE y == Forward(s, x)
<1>0. /\ y.op = x.op
      /\ x.op # "entries" => y.key = NewKey[s][x.key]
  BY ForwardFields
<1>1. source' = After(y, source)
  OBVIOUS
<1> HIDE DEF y
<1>2. CASE x.op \in {"set", "delete"}
  <2>1. x.key \in Key
    BY <1>2, CallCases
  <2>2. \A k \in Key : Place(k) # y.key
    BY <1>0, <1>2, <2>1, PlacesOfOthers
  <2>3. /\ \A i : i # y.key => (i \in DOMAIN source' <=> i \in DOMAIN source)
        /\ \A i \in DOMAIN source : i # y.key => source'[i] = source[i]
    <3>1. CASE x.op = "set"
      BY <1>0, <1>1, <3>1 DEF After
    <3>2. CASE x.op = "delete"
      BY <1>0, <1>1, <3>2 DEF After, Restrict
    <3> QED BY <1>2, <3>1, <3>2
  <2>4. {k \in Key : Place(k) \in DOMAIN source'} =
          {k \in Key : Place(k) \in DOMAIN source}
    BY <2>2, <2>3
  <2>5. \A k \in {j \in Key : Place(j) \in DOMAIN source} :
          source'[Place(k)] = source[Place(k)]
    BY <2>2, <2>3
  <2> QED BY <2>4, <2>5 DEF Own, Place
<1>3. CASE x.op \notin {"set", "delete"}
  <2>1. source' = source
    BY <1>0, <1>1, <1>3 DEF After
  <2> QED BY <2>1 DEF Own
<1> QED BY <1>2, <1>3

\* What a user learns of a call is what the source holds for it.
LEMMA OwnAnswer ==
  ASSUME NEW x \in Call, x.op # "entries", IsMap(source)
  PROVE  Backward(Observed, x, Found(Forward(Observed, x), source))
           = Found(x, Own)
<1> DEFINE y == Forward(Observed, x)
           found == Found(y, source)
<1>0. y.op = x.op /\ y.key = Place(x.key)
  BY ForwardFields, KeyTypes DEF Place
<1>1. x.key \in Key
  BY CallCases
<1>2. Backward(Observed, x, found) =
        [k \in {x.key : i \in DOMAIN found} |-> found[Place(x.key)]]
  BY DEF Backward, Place
<1>3. DOMAIN Own \cap {x.key} =
        {x.key : i \in DOMAIN source \cap {Place(x.key)}}
  BY <1>1, OwnSpec
<1> HIDE DEF y
<1>4. CASE x.op = "get"
  <2>1. found = [i \in DOMAIN source \cap {Place(x.key)} |-> source[i]]
    BY <1>0, <1>4 DEF Found, Restrict
  <2>2. Found(x, Own) = [k \in DOMAIN Own \cap {x.key} |-> Own[k]]
    BY <1>4 DEF Found, Restrict
  <2>3. {x.key : i \in DOMAIN found} = DOMAIN Own \cap {x.key}
    BY <1>3, <2>1
  <2>4. ASSUME NEW k \in DOMAIN Own \cap {x.key}
        PROVE  found[Place(x.key)] = Own[k]
    BY <1>1, <2>1, <2>4, OwnSpec
  <2> HIDE DEF found
  <2>5. [k \in {x.key : i \in DOMAIN found} |-> found[Place(x.key)]]
          = [k \in DOMAIN Own \cap {x.key} |-> Own[k]]
    BY <2>3, <2>4
  <2> QED BY <1>2, <2>2, <2>5 DEF found, y
<1>5. CASE x.op \in {"has", "delete"}
  <2>1. found = [i \in DOMAIN source \cap {Place(x.key)} |-> Present]
    BY <1>0, <1>5 DEF Found
  <2>2. Found(x, Own) = [k \in DOMAIN Own \cap {x.key} |-> Present]
    BY <1>5 DEF Found
  <2>3. {x.key : i \in DOMAIN found} = DOMAIN Own \cap {x.key}
    BY <1>3, <2>1
  <2>4. ASSUME NEW k \in DOMAIN Own \cap {x.key}
        PROVE  found[Place(x.key)] = Present
    BY <1>1, <2>1, <2>4, OwnSpec
  <2> HIDE DEF found
  <2>5. [k \in {x.key : i \in DOMAIN found} |-> found[Place(x.key)]]
          = [k \in DOMAIN Own \cap {x.key} |-> Present]
    BY <2>3, <2>4
  <2> QED BY <1>2, <2>2, <2>5 DEF found, y
<1>6. CASE x.op = "set"
  <2>1. found = EmptyMap /\ Found(x, Own) = EmptyMap
    BY <1>0, <1>6 DEF Found
  <2> QED BY <1>2, <2>1 DEF EmptyMap, found, y
<1> QED BY <1>4, <1>5, <1>6, CallCases

\* A user never finds its map lost.
LEMMA OwnIsMap ==
  ASSUME IsMap(source)
  PROVE  Own # Lost
<1>1. DOMAIN Own \in SUBSET Key
  BY DEF Own
<1>2. Own \in [DOMAIN Own -> Value]
  BY DEF Own, IsMap
<1>3. Own \in Map
  BY <1>1, <1>2 DEF Map
<1> QED BY <1>3, LostAssumption

-----------------------------------------------------------------------------
(* The inductive invariant.                                                  *)

\* A future asks of the source what its call is rewritten to.
StorageInv ==
  /\ IsMap(source)
  /\ request \in [Holder -> Call \cup {None}]
  /\ inner = [c \in Holder |-> inner[c]]
  /\ answer = [c \in Holder |-> answer[c]]
  /\ \A c \in Holder :
       /\ request[c] # None => inner[c] = Forward(StorageOf[c], request[c])
       /\ request[c] = None => answer[c] = None

LEMMA OwnerType == \A c \in Holder : StorageOf[c] \in Rewriter
BY KeyTypes

LEMMA InvInit == PassInit => StorageInv
BY DEF PassInit, StorageInv, IsMap, EmptyMap

LEMMA InvNext == StorageInv /\ [PassNext]_passVars => StorageInv'
<1> SUFFICES ASSUME StorageInv, [PassNext]_passVars PROVE StorageInv'
  OBVIOUS
<1> USE DEF StorageInv
<1>1. ASSUME NEW c \in Holder, Begin(c) PROVE StorageInv'
  <2>1. PICK x \in Call : /\ request' = [request EXCEPT ![c] = x]
                          /\ inner' = [inner EXCEPT ![c] = Forward(StorageOf[c], x)]
    BY <1>1 DEF Begin
  <2>2. UNCHANGED <<source, answer>>
    BY <1>1 DEF Begin
  <2>3. x # None
    BY NoneAssumption
  <2> QED BY <2>1, <2>2, <2>3 DEF IsMap
<1>2. ASSUME NEW c \in Holder, Poll(c) PROVE StorageInv'
  <2>1. request[c] \in Call /\ source' = After(inner[c], source)
    BY <1>2 DEF Poll
  <2>2. IsMap(After(Forward(StorageOf[c], request[c]), source))
    BY <2>1, AfterType, OwnerType
  <2>3. IsMap(source')
    BY <1>2, <2>1, <2>2 DEF Poll
  <2>4. /\ UNCHANGED <<request, inner>> /\ DOMAIN answer' = Holder
        /\ answer' = [d \in Holder |-> answer'[d]]
        /\ \A d \in Holder : request[d] = None => answer'[d] = answer[d]
    BY <1>2 DEF Poll
  <2> QED BY <2>3, <2>4 DEF IsMap
<1>3. ASSUME NEW c \in Holder, End(c) PROVE StorageInv'
  BY <1>3 DEF End, IsMap
<1>4. CASE UNCHANGED passVars
  BY <1>4 DEF passVars, IsMap
<1> QED BY <1>1, <1>2, <1>3, <1>4 DEF PassNext

-----------------------------------------------------------------------------
(* The theorem.                                                              *)

\* The abstract storage speaks of the same calls, and Ok names the same answers.
LEMMA SameCalls ==
  /\ View!Call = Call /\ View!EmptyMap = EmptyMap
  /\ \A x, m : View!After(x, m) = After(x, m)
  /\ \A x, m : View!Found(x, m) = Found(x, m)
  /\ \A m : View!Ok(m) = Ok(m)
BY DEF View!Call, Call, View!EmptyMap, EmptyMap, View!After, After,
       View!Found, Found, View!Ok, Ok, View!Restrict, Restrict

\* Every step is a step of the view, or invisible there.
LEMMA StepImplements ==
  ASSUME StorageInv, [PassNext]_passVars
  PROVE  [View!Next]_View!vars
<1> USE DEF StorageInv
<1> DEFINE Calls == [c \in User |-> IF PointCall(c) THEN request[c] ELSE None]
           Results == [c \in User |-> IF PointCall(c) THEN answer[c] ELSE None]
           Seen == <<Own, Calls, Results>>
<1>0. User \subseteq Holder /\ View!vars = Seen /\ View!vars' = Seen'
  BY DEF User, View!vars
<1>1. ASSUME NEW c \in Holder, Begin(c)
      PROVE  UNCHANGED Seen \/ (c \in User /\ View!Invoke(c))
  <2>1. PICK x \in Call : request' = [request EXCEPT ![c] = x]
    BY <1>1 DEF Begin
  <2>2. request[c] = None /\ answer[c] = None /\ UNCHANGED <<source, answer>>
    BY <1>1 DEF Begin
  <2>3. Own' = Own
    BY <2>2 DEF Own, Place
  <2>4. /\ request'[c] = x
        /\ \A d \in User \ {c} : request'[d] = request[d]
        /\ x # None
    BY <1>0, <2>1, NoneAssumption
  <2>5. Results' = Results
    BY <2>2, <2>4 DEF PointCall
  <2>6. CASE c \in User /\ x.op # "entries"
    <3>1. Calls' = [Calls EXCEPT ![c] = x]
      BY <2>4, <2>6 DEF PointCall
    <3>2. Calls[c] = None
      BY <2>2, <2>6 DEF PointCall
    <3> QED BY <2>3, <2>5, <2>6, <3>1, <3>2, SameCalls DEF View!Invoke
  <2>7. CASE ~(c \in User /\ x.op # "entries")
    <3>1. Calls' = Calls
      BY <2>2, <2>4, <2>7 DEF PointCall
    <3> QED BY <2>3, <2>5, <3>1
  <2> QED BY <2>6, <2>7
<1>2. ASSUME NEW c \in Holder, Poll(c)
      PROVE  UNCHANGED Seen \/ (c \in User /\ View!Apply(c))
  <2> DEFINE told == Backward(StorageOf[c], request[c], Found(inner[c], source))
  <2>1. /\ request[c] \in Call /\ request[c] # None /\ answer[c] = None
        /\ inner[c] = Forward(StorageOf[c], request[c])
        /\ request' = request
        /\ source' = After(inner[c], source)
        /\ answer' = [answer EXCEPT ![c] = Ok(told)]
    BY <1>2 DEF Poll
  <2>2. Calls' = Calls
    BY <2>1 DEF PointCall
  <2>3. CASE c \in User /\ request[c].op # "entries"
    <3>1. StorageOf[c] = Observed /\ c \in User /\ PointCall(c)
      BY <2>1, <2>3 DEF User, PointCall
    <3>2. Own' = After(request[c], Own)
      BY <2>1, <3>1, OwnCall
    <3>3. told = Found(request[c], Own)
      BY <2>1, <2>3, <3>1, OwnAnswer
    <3> HIDE DEF told
    <3>4. answer'[c] = Ok(Found(request[c], Own))
          /\ \A d \in User \ {c} : answer'[d] = answer[d]
      BY <1>0, <2>1, <3>3
    <3>5. Results' = [Results EXCEPT ![c] = Ok(Found(request[c], Own))]
      BY <2>1, <3>1, <3>4 DEF PointCall
    <3>6. Calls[c] = request[c] /\ Results[c] = None
      BY <2>1, <3>1
    <3> QED BY <2>1, <2>2, <3>1, <3>2, <3>5, <3>6, SameCalls, OwnIsMap
            DEF View!Apply, View!Pending
  <2>4. CASE ~(c \in User /\ request[c].op # "entries")
    <3>1. Own' = Own
      <4>1. CASE request[c].op = "entries"
        <5>1. inner[c].op = "entries"
          BY <2>1, <4>1, ForwardFields, OwnerType
        <5>2. source' = source
          BY <2>1, <5>1 DEF After
        <5> QED BY <5>2 DEF Own, Place
      <4>2. CASE c \notin User
        <5>1. StorageOf[c] \in Rewriter /\ StorageOf[c] # Observed
          BY <4>2, OwnerType DEF User
        <5> QED BY <2>1, <5>1, OthersCall
      <4> QED BY <2>4, <4>1, <4>2
    <3> HIDE DEF told
    <3>2. Results' = Results
      BY <1>0, <2>1, <2>4 DEF PointCall
    <3> QED BY <2>2, <3>1, <3>2
  <2> QED BY <2>3, <2>4
<1>3. ASSUME NEW c \in Holder, End(c)
      PROVE  View!Forget({c} \cap User) /\ UNCHANGED Own
  <2>1. /\ request' = [request EXCEPT ![c] = None]
        /\ answer' = [answer EXCEPT ![c] = None] /\ source' = source
    BY <1>3 DEF End
  <2>2. Own' = Own
    BY <2>1 DEF Own, Place
  <2>3. request'[c] = None /\ \A d \in User \ {c} : request'[d] = request[d]
        /\ answer'[d] = answer[d]
    BY <1>0, <2>1
  <2>4. Calls' = [d \in User |-> IF d \in {c} \cap User THEN None ELSE Calls[d]]
    BY <2>3 DEF PointCall
  <2>5. Results' = [d \in User |-> IF d \in {c} \cap User THEN None ELSE Results[d]]
    BY <2>3 DEF PointCall
  <2> QED BY <2>2, <2>4, <2>5 DEF View!Forget
<1>4. CASE UNCHANGED passVars
  <2>1. UNCHANGED Seen
    BY <1>4 DEF passVars, Own, Place, PointCall
  <2> QED BY <1>0, <2>1
<1>5. ASSUME NEW c \in Holder, End(c) PROVE View!Abandon
  BY <1>3, <1>5 DEF View!Abandon
<1>6. ASSUME NEW c \in Holder, Begin(c) \/ Poll(c) \/ End(c)
      PROVE  View!Next \/ UNCHANGED Seen
  BY <1>1, <1>2, <1>5, <1>6 DEF View!Next
<1> HIDE DEF Seen
<1> QED BY <1>0, <1>4, <1>6 DEF PassNext

\* The users of a storage that rewrites its keys and gives every key a place of
\* its own have, for their single keys, a map of their own behind a mutex,
\* whatever the storages beside it do with the source they share, and whatever
\* to_original_key makes of the places.
THEOREM RewritingIsInvisible == PassSpec => PointCallsKeepApart
<1>1. PassInit => View!Init
  <2>1. PassInit => Own = EmptyMap
    BY DEF PassInit, Own, EmptyMap
  <2>2. PassInit => \A c \in User : ~PointCall(c)
    BY DEF PassInit, PointCall, User
  <2> QED BY <2>1, <2>2, SameCalls DEF View!Init
<1>2. StorageInv /\ [PassNext]_passVars => [View!Next]_View!vars
  BY StepImplements
<1>3. PassSpec => []StorageInv
  BY InvInit, InvNext, PTL DEF PassSpec
<1> QED BY <1>1, <1>2, <1>3, PTL DEF PassSpec, PointCallsKeepApart, View!Spec
=============================================================================
