--------------------------- MODULE LdpServerProofs --------------------------
(* Proofs about LdpPaths, LdpServer and LdpLifecycle, for any number of      *)
(* connections, any keys and any limit of splitn: the invariants of the      *)
(* server, that it implements LdpService, and what survives a restart.       *)
EXTENDS LdpLifecycle, SequenceTheorems, WellFoundedInduction, TLAPS

-----------------------------------------------------------------------------
(* Keys and the containers above them, however deep the key and wherever its *)
(* empty segments are.                                                       *)

LessOnNat == {ss \in Nat \X Nat : ss[1] < ss[2]}

\* Every non-empty set of natural numbers has a least element.
LEMMA LeastNatural ==
  ASSUME NEW T, T \subseteq Nat, T # {}
  PROVE  \E n \in T : \A m \in T : n <= m
<1>1. IsWellFoundedOn(LessOnNat, Nat)
  BY NatLessThanWellFounded DEF OpToRel, LessOnNat
<1>2. PICK x \in T : \A y \in T : ~(<<y, x>> \in LessOnNat)
  BY <1>1, WFMin
<1>3. ASSUME NEW y \in T PROVE x <= y
  <2>1. x \in Nat /\ y \in Nat
    OBVIOUS
  <2>2. ~(y < x)
    BY <1>2, <2>1 DEF LessOnNat
  <2> QED BY <2>1, <2>2
<1> QED BY <1>3

\* Keys are non-empty sequences.
LEMMA KeyLength ==
  ASSUME NEW k \in Key
  PROVE  /\ k \in Seq(Part) /\ Len(k) \in Nat /\ Len(k) >= 1
         /\ \A i \in 1..Len(k) : k[i] \in Part
<1>1. k \in Seq(Part) /\ k # <<>>
  BY DEF Key
<1>2. Len(k) \in Nat \ {0}
  BY <1>1, EmptySeq
<1>3. \A i \in 1..Len(k) : k[i] \in Part
  BY <1>1, ElementOfSeq
<1> QED BY <1>1, <1>2, <1>3

\* TrimmedLen is the position of the last non-empty segment, 0 without one.
LEMMA TrimmedLenSpec ==
  ASSUME NEW k \in Key
  PROVE  /\ TrimmedLen(k) \in 0..Len(k)
         /\ TrimmedLen(k) = 0 \/ k[TrimmedLen(k)] # Empty
         /\ \A i \in (TrimmedLen(k) + 1)..Len(k) : k[i] = Empty
<1> DEFINE T == {n \in 0..Len(k) : \A i \in (n + 1)..Len(k) : k[i] = Empty}
<1>1. Len(k) \in Nat
  BY KeyLength
<1>2. T \subseteq Nat /\ Len(k) \in T
  BY <1>1
<1>3. PICK n \in T : \A m \in T : n <= m
  <2> HIDE DEF T
  <2> QED BY <1>2, LeastNatural
<1>4. n = 0 \/ k[n] # Empty
  <2>1. SUFFICES ASSUME n # 0, k[n] = Empty PROVE FALSE
    OBVIOUS
  <2>2. n - 1 \in 0..Len(k)
    BY <1>1, <2>1
  <2>3. \A i \in ((n - 1) + 1)..Len(k) : k[i] = Empty
    <3>1. ASSUME NEW i \in ((n - 1) + 1)..Len(k) PROVE k[i] = Empty
      <4>1. i = n \/ i \in (n + 1)..Len(k)
        BY <1>1
      <4> QED BY <4>1, <2>1
    <3> QED BY <3>1
  <2>4. n - 1 \in T
    BY <2>2, <2>3
  <2>5. n <= n - 1
    BY <1>3, <2>4
  <2> QED BY <2>5, <2>2, <1>1
<1>5. \E m \in 0..Len(k) :
        /\ m = 0 \/ k[m] # Empty
        /\ \A i \in (m + 1)..Len(k) : k[i] = Empty
  BY <1>4
<1> QED BY <1>5 DEF TrimmedLen

\* The segments before position n + 1 of a sequence of segments.
LEMMA Prefix ==
  ASSUME NEW q \in Seq(Part), NEW n \in 0..Len(q)
  PROVE  /\ SubSeq(q, 1, n) \in Seq(Part)
         /\ Len(SubSeq(q, 1, n)) = n
         /\ \A i \in 1..n : SubSeq(q, 1, n)[i] = q[i]
<1>1. Len(q) \in Nat /\ n \in Nat
  BY LenProperties
<1>2. \A i \in 1..n : q[i] \in Part
  BY <1>1, ElementOfSeq
<1>3. /\ SubSeq(q, 1, n) \in Seq(Part)
      /\ Len(SubSeq(q, 1, n)) = IF 1 <= n THEN n - 1 + 1 ELSE 0
      /\ \A i \in 1..(n - 1 + 1) : SubSeq(q, 1, n)[i] = q[1 + i - 1]
  BY <1>1, <1>2, SubSeqProperties
<1> QED BY <1>1, <1>3

LEMMA TrimProperties ==
  ASSUME NEW k \in Key
  PROVE  /\ Trim(k) \in Seq(Part)
         /\ Len(Trim(k)) = TrimmedLen(k)
         /\ \A i \in 1..TrimmedLen(k) : Trim(k)[i] = k[i]
BY KeyLength, TrimmedLenSpec, Prefix DEF Trim

LEMMA WalkDepthBound ==
  ASSUME NEW k \in Key
  PROVE  WalkDepth(k) \in 0..TrimmedLen(k)
<1>1. TrimmedLen(k) \in Nat
  BY TrimmedLenSpec, KeyLength
<1> QED BY <1>1, SplitLimitAssumption DEF WalkDepth

\* Prefixes of the trimmed key, as far as the walk goes.
LEMMA WalkedPrefix ==
  ASSUME NEW k \in Key, NEW i \in 0..WalkDepth(k)
  PROVE  /\ i \in 0..TrimmedLen(k)
         /\ SubSeq(Trim(k), 1, i) \in Seq(Part)
         /\ Len(SubSeq(Trim(k), 1, i)) = i
         /\ \A j \in 1..i : SubSeq(Trim(k), 1, i)[j] = k[j]
<1>1. i \in 0..TrimmedLen(k) /\ TrimmedLen(k) \in Nat
  BY WalkDepthBound, TrimmedLenSpec, KeyLength
<1> QED BY <1>1, TrimProperties, Prefix

LEMMA RootIsKey == Root \in Key /\ IsContainerKey(Root) /\ Len(Root) = 1
BY DEF Root, Key, Part, IsContainerKey

LEMMA ContainerKeyType ==
  ASSUME NEW p \in Seq(Part)
  PROVE  ContainerKey(p) \in Key /\ IsContainerKey(ContainerKey(p))
<1>1. CASE p \in {<<>>, <<Empty>>}
  BY <1>1, RootIsKey DEF ContainerKey
<1>2. CASE p \notin {<<>>, <<Empty>>}
  <2>1. Empty \in Part
    BY DEF Part
  <2>2. /\ Append(p, Empty) \in Seq(Part)
        /\ Append(p, Empty) # <<>>
        /\ Len(Append(p, Empty)) = Len(p) + 1
        /\ Append(p, Empty)[Len(p) + 1] = Empty
    BY <2>1, AppendProperties
  <2> QED BY <1>2, <2>2 DEF ContainerKey, Key, IsContainerKey
<1> QED BY <1>1, <1>2

\* The walk only visits containers.
LEMMA AncestorsAreContainers ==
  ASSUME NEW k \in Key, NEW x \in Ancestors(k)
  PROVE  x \in Key /\ IsContainerKey(x)
<1>1. PICK i \in 0..WalkDepth(k) : x = ContainerKey(SubSeq(Trim(k), 1, i))
  BY DEF Ancestors
<1> QED BY <1>1, WalkedPrefix, ContainerKeyType

LEMMA AncestorsOfRoot == Ancestors(Root) = {Root}
<1>1. TrimmedLen(Root) = 0
  <2>1. TrimmedLen(Root) \in 0..1
    BY TrimmedLenSpec, RootIsKey
  <2>2. TrimmedLen(Root) = 0 \/ Root[TrimmedLen(Root)] # Empty
    BY TrimmedLenSpec, RootIsKey
  <2>3. Root[1] = Empty
    BY DEF Root
  <2> QED BY <2>1, <2>2, <2>3
<1>2. WalkDepth(Root) = 0
  BY <1>1, RootIsKey, WalkDepthBound
<1>3. SubSeq(Trim(Root), 1, 0) = <<>>
  BY SubSeqEmpty
<1>4. \A i \in 0..WalkDepth(Root) : ContainerKey(SubSeq(Trim(Root), 1, i)) = Root
  BY <1>2, <1>3 DEF ContainerKey
<1>5. 0 \in 0..WalkDepth(Root)
  BY <1>2
<1> QED BY <1>4, <1>5 DEF Ancestors

\* The root is above every key.
LEMMA RootIsAncestor ==
  ASSUME NEW k \in Key
  PROVE  Root \in Ancestors(k)
<1>1. 0 \in 0..WalkDepth(k)
  BY WalkDepthBound, TrimmedLenSpec, KeyLength
<1>2. SubSeq(Trim(k), 1, 0) = <<>>
  BY SubSeqEmpty
<1> QED BY <1>1, <1>2 DEF Ancestors, ContainerKey

\* What is above a container above k is above k: put leaves no gap however
\* short the walk of a long path is cut.
LEMMA AncestorsTransitive ==
  ASSUME NEW k \in Key, NEW x \in Ancestors(k)
  PROVE  Ancestors(x) \subseteq Ancestors(k)
<1>1. PICK i \in 0..WalkDepth(k) : x = ContainerKey(SubSeq(Trim(k), 1, i))
  BY DEF Ancestors
<1> DEFINE p == SubSeq(Trim(k), 1, i)
<1>2. /\ p \in Seq(Part) /\ Len(p) = i /\ i \in Nat
      /\ \A j \in 1..i : p[j] = k[j]
  BY WalkedPrefix, TrimmedLenSpec, KeyLength
<1>3. x \in Key
  BY AncestorsAreContainers
<1>4. CASE x = Root
  BY <1>4, AncestorsOfRoot, RootIsAncestor
<1>5. CASE x # Root
  <2>1. x = Append(p, Empty)
    BY <1>1, <1>5 DEF ContainerKey
  <2>2. Len(x) = i + 1 /\ x[i + 1] = Empty /\ \A j \in 1..i : x[j] = k[j]
    BY <2>1, <1>2, AppendProperties DEF Part
  <2>3. TrimmedLen(x) \in 0..i
    BY <2>2, <1>2, <1>3, TrimmedLenSpec
  <2>4. SUFFICES ASSUME NEW j \in 0..WalkDepth(x)
                 PROVE  ContainerKey(SubSeq(Trim(x), 1, j)) \in Ancestors(k)
    BY DEF Ancestors
  <2>5. j \in 0..i
    BY <2>3, <1>2, <1>3, WalkDepthBound
  <2>6. j \in 0..WalkDepth(k)
    BY <2>5, <1>2, WalkDepthBound, TrimmedLenSpec, KeyLength
  <2>7. SubSeq(Trim(x), 1, j) = SubSeq(Trim(k), 1, j)
    <3>1. /\ SubSeq(Trim(x), 1, j) \in Seq(Part)
          /\ Len(SubSeq(Trim(x), 1, j)) = j
          /\ \A n \in 1..j : SubSeq(Trim(x), 1, j)[n] = x[n]
      BY <1>3, WalkedPrefix
    <3>2. /\ SubSeq(Trim(k), 1, j) \in Seq(Part)
          /\ Len(SubSeq(Trim(k), 1, j)) = j
          /\ \A n \in 1..j : SubSeq(Trim(k), 1, j)[n] = k[n]
      BY <2>6, WalkedPrefix
    <3>3. \A n \in 1..j : x[n] = k[n]
      BY <2>2, <2>5, <1>2
    <3> QED BY <3>1, <3>2, <3>3, SeqEqual
  <2> QED BY <2>6, <2>7 DEF Ancestors
<1> QED BY <1>4, <1>5

\* The path a handler resolves is a key.
LEMMA ResolvePathType ==
  ASSUME NEW url \in Key
  PROVE  ResolvePath(url) \in Key
<1>1. CASE Len(url) > 1 /\ url[1] = Empty
  <2>1. url \in Seq(Part) /\ url # <<>>
    BY DEF Key
  <2>2. Tail(url) \in Seq(Part) /\ Len(Tail(url)) = Len(url) - 1
    BY <2>1, HeadTailProperties
  <2>3. Tail(url) # <<>>
    <3>1. Len(Tail(url)) # 0
      BY <2>2, <1>1, KeyLength
    <3>2. Len(<<>>) = 0
      BY EmptySeq
    <3> QED BY <3>1, <3>2
  <2> QED BY <1>1, <2>2, <2>3 DEF ResolvePath, Key
<1>2. CASE ~(Len(url) > 1 /\ url[1] = Empty)
  BY <1>2 DEF ResolvePath
<1> QED BY <1>1, <1>2

\* A child key is a key and ends in the name it was given, so it never is the
\* key of a container.
LEMMA ChildKeyType ==
  ASSUME NEW k \in Key, NEW s \in Seg
  PROVE  /\ ChildKey(k, s) \in Key
         /\ ChildKey(k, s)[Len(ChildKey(k, s))] = s
<1>1. Trim(k) \in Seq(Part) /\ s \in Part
  BY TrimProperties DEF Part
<1> QED BY <1>1, AppendProperties DEF ChildKey, Key

-----------------------------------------------------------------------------
(* The operators on maps.                                                    *)

LEMMA ContainerEntryType == ContainerEntry \in Entry
BY TurtleAssumption DEF ContainerEntry, Entry

LEMMA FreshStoreType == IsStore(FreshStore) /\ DOMAIN FreshStore = {Root}
BY RootIsKey, ContainerEntryType DEF FreshStore, IsStore

LEMMA WithAncestorsType ==
  ASSUME NEW m, IsStore(m), NEW k \in Key
  PROVE  /\ IsStore(WithAncestors(m, k))
         /\ DOMAIN WithAncestors(m, k) = DOMAIN m \cup Ancestors(k)
         /\ \A x \in DOMAIN m : WithAncestors(m, k)[x] = m[x]
         /\ \A x \in Ancestors(k) \ DOMAIN m :
              WithAncestors(m, k)[x] = ContainerEntry
<1>1. Ancestors(k) \subseteq Key
  BY AncestorsAreContainers
<1> QED BY <1>1, ContainerEntryType DEF WithAncestors, IsStore

LEMMA WithEntryType ==
  ASSUME NEW m, IsStore(m), NEW k \in Key, NEW e \in Entry
  PROVE  /\ IsStore(WithEntry(m, k, e))
         /\ DOMAIN WithEntry(m, k, e) = DOMAIN m \cup {k}
         /\ WithEntry(m, k, e)[k] = e
         /\ \A x \in DOMAIN m \ {k} : WithEntry(m, k, e)[x] = m[x]
BY DEF WithEntry, IsStore

LEMMA WithoutType ==
  ASSUME NEW m, IsStore(m), NEW k \in Key
  PROVE  /\ IsStore(Without(m, k))
         /\ DOMAIN Without(m, k) = DOMAIN m \ {k}
         /\ \A x \in DOMAIN m \ {k} : Without(m, k)[x] = m[x]
BY DEF Without, IsStore

LEMMA EntryForType ==
  ASSUME NEW r \in Request, NEW k \in Key
  PROVE  /\ EntryFor(k, r.content_type, r.body) \in Entry
         /\ EntryFor(k, r.content_type, r.body).is_container
              = IsContainerKey(k)
BY SentTypeAssumption DEF EntryFor, Entry, Request, IsContainerKey

-----------------------------------------------------------------------------
(* The responses.                                                            *)

Codes == {200, 201, 204, 400, 401, 404, 406, 415, 500}

LEMMA StatusType ==
  ASSUME NEW code \in Codes
  PROVE  Status(code) \in Reply /\ Status(code).status = code
         /\ Status(code).location = None
BY DEF Status, Reply, Codes, ContainerLink

LEMMA ReadReplyType ==
  ASSUME NEW m, IsStore(m), NEW k \in Key, NEW r \in Request
  PROVE  /\ ReadReply(r, k, m) \in Reply
         /\ ReadReply(r, k, m).status \in {200, 404, 406}
         /\ ReadReply(r, k, m).location = None
<1>1. CASE k \notin DOMAIN m
  BY <1>1, StatusType DEF ReadReply, Codes
<1>2. CASE /\ k \in DOMAIN m
           /\ r.accept # NoAccept /\ ~AcceptSatisfied(r.accept, m[k].content_type)
  BY <1>2, StatusType DEF ReadReply, Codes
<1>3. CASE /\ k \in DOMAIN m
           /\ ~(r.accept # NoAccept /\ ~AcceptSatisfied(r.accept, m[k].content_type))
  <2>1. m[k] \in Entry
    BY <1>3 DEF IsStore
  <2>2. [m[k] EXCEPT !.body = NoBody] \in Entry
    BY <2>1 DEF Entry
  <2> DEFINE e == IF r.method = "GET" THEN m[k]
                  ELSE [m[k] EXCEPT !.body = NoBody]
             l == IF m[k].is_container THEN ContainerLink
                  ELSE IF r.method = "GET" THEN ResourceLink ELSE {}
  <2>3. e \in Entry /\ l \in SUBSET ContainerLink
    BY <2>1, <2>2 DEF ContainerLink, ResourceLink
  <2>4. ReadReply(r, k, m) = [status |-> 200, links |-> l, entry |-> e,
                              location |-> None]
    BY <1>3 DEF ReadReply, Status
  <2> HIDE DEF e, l
  <2> QED BY <2>3, <2>4 DEF Reply
<1> QED BY <1>1, <1>2, <1>3

LEMMA WriteReplyType ==
  ASSUME NEW r \in Request, r.method \in {"PUT", "POST"}, NEW k \in Key,
         NEW created
  PROVE  /\ WriteReply(r, k, created) \in Reply
         /\ WriteReply(r, k, created).status \in {201, 204, 500}
         /\ WriteReply(r, k, created).location # None =>
              r.method = "POST" /\ WriteReply(r, k, created).location = k
<1>1. CASE r.method = "PUT"
  <2> DEFINE l == IF IsContainerKey(k) THEN ContainerLink ELSE {}
             s == IF created THEN 201 ELSE 204
  <2>1. WriteReply(r, k, created) = [status |-> s, links |-> l,
                                     entry |-> None, location |-> None]
    BY <1>1 DEF WriteReply, Status
  <2>2. l \in SUBSET ContainerLink /\ s \in {201, 204}
    OBVIOUS
  <2> HIDE DEF l, s
  <2> QED BY <2>1, <2>2 DEF Reply
<1>2. CASE r.method = "POST" /\ \E i \in 1..Len(k) : k[i] \in Unprintable
  BY <1>2, StatusType DEF WriteReply, Codes
<1>3. CASE r.method = "POST" /\ ~\E i \in 1..Len(k) : k[i] \in Unprintable
  <2>1. WriteReply(r, k, created) = [status |-> 201, links |-> {},
                                     entry |-> None, location |-> k]
    BY <1>3 DEF WriteReply, Status
  <2> QED BY <1>3, <2>1 DEF Reply
<1> QED BY <1>1, <1>2, <1>3

-----------------------------------------------------------------------------
(* Types.                                                                    *)

\* What holds of the request of a connection that serves one.
Serving ==
  \A c \in Conn :
    /\ pc[c] # "idle" => req[c] \in Request /\ key[c] \in Key
    /\ pc[c] \in {"ancestors", "insert"} =>
         /\ req[c].method \in {"PUT", "POST"}
         /\ req[c].method = "POST" => key[c][Len(key[c])] \in slugs
    /\ pc[c] = "respond" =>
         /\ reply[c] \in Reply
         /\ reply[c].location # None => key[c][Len(key[c])] \in slugs

TypeInv == TypeOK /\ Serving

LEMMA TypeInit == Init => TypeInv
BY FreshStoreType DEF Init, InitWith, TypeInv, TypeOK, Serving, PC

\* Only the request of c and the answer made for it change.
LEMMA TypeAnswer ==
  ASSUME TypeInv, NEW c \in Conn, pc[c] # "idle",
         NEW rp \in Reply, Answer(c, rp),
         rp.location # None => key[c][Len(key[c])] \in slugs,
         UNCHANGED <<req, key, slugs>>
  PROVE  /\ pc' \in [Conn -> PC] /\ reply' \in [Conn -> Reply \cup {None}]
         /\ req' \in [Conn -> Request \cup {None}]
         /\ key' \in [Conn -> Key \cup {None}]
         /\ Serving'
BY DEF TypeInv, TypeOK, Serving, Answer, PC

LEMMA TypeNext == TypeInv /\ [Next]_vars => TypeInv'
<1> SUFFICES ASSUME TypeInv, [Next]_vars PROVE TypeInv'
  OBVIOUS
<1> USE DEF TypeInv
<1>1. ASSUME NEW c \in Conn, Receive(c) PROVE TypeInv'
  <2>1. PICK r \in Request :
          /\ req' = [req EXCEPT ![c] = r]
          /\ key' = [key EXCEPT ![c] = ResolvePath(r.target)]
    BY <1>1 DEF Receive, Enter
  <2>2. ResolvePath(r.target) \in Key
    BY ResolvePathType, TargetAssumption DEF Request
  <2>3. pc[c] = "idle" /\ pc' = [pc EXCEPT ![c] = "permissions"]
    BY <1>1 DEF Receive, Enter
  <2>4. UNCHANGED <<store, reply, approved, wrote, histVars>>
    BY <1>1 DEF Receive, Enter
  <2>5. TypeOK'
    BY <2>1, <2>2, <2>3, <2>4 DEF TypeOK, histVars, PC
  <2>6. Serving'
    BY <2>1, <2>2, <2>3, <2>4 DEF TypeOK, Serving, histVars
  <2> QED BY <2>5, <2>6
<1>2. ASSUME NEW c \in Conn, ReadPermissions(c) PROVE TypeInv'
  <2>1. CASE pc' = [pc EXCEPT ![c] = "authorize"] /\ UNCHANGED reply
    BY <1>2, <2>1 DEF ReadPermissions, TypeOK, Serving, histVars, PC
  <2>2. CASE Answer(c, Status(500))
    <3>1. Status(500) \in Reply /\ Status(500).location = None
      BY StatusType DEF Codes
    <3> QED BY <1>2, <2>2, <3>1, TypeAnswer DEF ReadPermissions, TypeOK, histVars
  <2> QED BY <1>2, <2>1, <2>2 DEF ReadPermissions
<1>3. ASSUME NEW c \in Conn, Authorize(c) PROVE TypeInv'
  <2>1. CASE /\ pc' = [pc EXCEPT ![c] = "handler"]
             /\ approved' = [approved EXCEPT ![c] = {AccessMap(req[c])}]
             /\ UNCHANGED reply
    <3>1. req[c] \in Request
      BY <1>3 DEF Authorize, Serving
    <3>2. AccessMap(req[c]) \in Grant
      BY <3>1 DEF AccessMap, Grant, RequiredMode, Request
    <3> QED BY <1>3, <2>1, <3>2 DEF Authorize, TypeOK, Serving, histVars, PC
  <2>2. CASE Answer(c, Status(401)) /\ UNCHANGED approved
    <3>1. Status(401) \in Reply /\ Status(401).location = None
      BY StatusType DEF Codes
    <3> QED BY <1>3, <2>2, <3>1, TypeAnswer DEF Authorize, TypeOK, histVars
  <2> QED BY <1>3, <2>1, <2>2 DEF Authorize
<1>4. ASSUME NEW c \in Conn, HandleRead(c) PROVE TypeInv'
  <2>1. req[c] \in Request /\ key[c] \in Key /\ pc[c] # "idle"
    BY <1>4 DEF HandleRead, At, Serving
  <2>2. /\ ReadReply(req[c], key[c], store) \in Reply
        /\ ReadReply(req[c], key[c], store).location = None
    BY <2>1, ReadReplyType DEF TypeOK
  <2> QED BY <1>4, <2>1, <2>2, TypeAnswer DEF HandleRead, TypeOK, histVars
<1>5. ASSUME NEW c \in Conn, HandleStateless(c) PROVE TypeInv'
  <2> DEFINE rp == Status(IF req[c].method = "OPTIONS" THEN 204 ELSE 415)
  <2>1. rp \in Reply /\ rp.location = None
    BY StatusType DEF Codes
  <2>2. pc[c] # "idle" /\ Answer(c, rp)
    BY <1>5 DEF HandleStateless, At
  <2>3. UNCHANGED <<store, req, key, approved, wrote, histVars>>
    BY <1>5 DEF HandleStateless
  <2> HIDE DEF rp
  <2> QED BY <2>1, <2>2, <2>3, TypeAnswer DEF TypeOK, histVars
<1>6. ASSUME NEW c \in Conn, HandleDelete(c) PROVE TypeInv'
  <2>1. req[c] \in Request /\ key[c] \in Key /\ pc[c] # "idle"
    BY <1>6 DEF HandleDelete, At, Serving
  <2> DEFINE rp == DeleteReply(key[c], store)
  <2>2. rp \in Reply /\ rp.location = None
    BY StatusType DEF Codes, DeleteReply
  <2>3. IsStore(store')
    BY <1>6, <2>1, WithoutType DEF HandleDelete, TypeOK
  <2>4. Answer(c, rp) /\ UNCHANGED <<req, key, approved, slugs, known, accepted>>
    BY <1>6 DEF HandleDelete
  <2>5. wrote' \in [Conn -> SUBSET Key] /\ removed' \subseteq Key
    BY <1>6, <2>1 DEF HandleDelete, TypeOK
  <2> HIDE DEF rp
  <2> QED BY <2>1, <2>2, <2>3, <2>4, <2>5, TypeAnswer DEF TypeOK
<1>7. ASSUME NEW c \in Conn, PutBody(c) PROVE TypeInv'
  BY <1>7 DEF PutBody, At, TypeOK, Serving, histVars, PC
<1>8. ASSUME NEW c \in Conn, PostBody(c) PROVE TypeInv'
  <2>1. PICK s \in Slug \ slugs :
          /\ slugs' = slugs \cup {s}
          /\ key' = [key EXCEPT ![c] = ChildKey(key[c], s)]
    BY <1>8 DEF PostBody
  <2>2. req[c] \in Request /\ key[c] \in Key /\ req[c].method = "POST"
    BY <1>8 DEF PostBody, At, Serving
  <2>3. s \in Seg
    BY SlugAssumption
  <2>4. /\ ChildKey(key[c], s) \in Key
        /\ ChildKey(key[c], s)[Len(ChildKey(key[c], s))] = s
    BY <2>2, <2>3, ChildKeyType
  <2>5. /\ pc' = [pc EXCEPT ![c] = "ancestors"]
        /\ UNCHANGED <<store, req, reply, approved, wrote, known, removed,
                       accepted>>
    BY <1>8 DEF PostBody
  <2>6. TypeOK'
    BY <2>1, <2>4, <2>5 DEF TypeOK, PC
  <2>7. Serving'
    BY <2>1, <2>2, <2>4, <2>5 DEF TypeOK, Serving
  <2> QED BY <2>6, <2>7
<1>9. ASSUME NEW c \in Conn, BodyError(c) PROVE TypeInv'
  <2>1. Status(400) \in Reply /\ Status(400).location = None
    BY StatusType DEF Codes
  <2> QED BY <1>9, <2>1, TypeAnswer DEF BodyError, At, TypeOK, histVars
<1>10. ASSUME NEW c \in Conn, EnsureAncestors(c) PROVE TypeInv'
  <2>1. key[c] \in Key
    BY <1>10 DEF EnsureAncestors, Serving
  <2>2. IsStore(store')
    BY <1>10, <2>1, WithAncestorsType DEF EnsureAncestors, TypeOK
  <2>3. /\ pc[c] = "ancestors" /\ pc' = [pc EXCEPT ![c] = "insert"]
        /\ wrote' = [wrote EXCEPT ![c] = DOMAIN store' \ DOMAIN store]
        /\ UNCHANGED <<req, key, reply, approved, histVars>>
    BY <1>10 DEF EnsureAncestors
  <2>4. TypeOK'
    <3>1. DOMAIN store' \ DOMAIN store \in SUBSET Key
      BY <2>2 DEF IsStore
    <3> QED BY <2>2, <2>3, <3>1 DEF TypeOK, histVars, PC
  <2>5. Serving'
    BY <2>3 DEF TypeOK, Serving, histVars
  <2> QED BY <2>4, <2>5
<1>11. ASSUME NEW c \in Conn, Insert(c) PROVE TypeInv'
  <2>1. /\ req[c] \in Request /\ key[c] \in Key /\ pc[c] # "idle"
        /\ req[c].method \in {"PUT", "POST"}
        /\ req[c].method = "POST" => key[c][Len(key[c])] \in slugs
    BY <1>11 DEF Insert, Serving
  <2> DEFINE rp == WriteReply(req[c], key[c], key[c] \notin DOMAIN store)
  <2>2. rp \in Reply /\ (rp.location # None => req[c].method = "POST")
    BY <2>1, WriteReplyType
  <2>3. IsStore(store')
    BY <1>11, <2>1, EntryForType, WithEntryType DEF Insert, TypeOK
  <2>4. /\ Answer(c, rp) /\ wrote' = [wrote EXCEPT ![c] = @ \cup {key[c]}]
        /\ UNCHANGED <<req, key, approved, histVars>>
    BY <1>11 DEF Insert
  <2> HIDE DEF rp
  <2> QED BY <2>1, <2>2, <2>3, <2>4, TypeAnswer DEF TypeOK, histVars
<1>12. ASSUME NEW c \in Conn, Respond(c) PROVE TypeInv'
  <2>1. /\ key[c] \in Key
        /\ reply[c].location # None => key[c][Len(key[c])] \in slugs
    BY <1>12 DEF Respond, Serving
  <2> QED BY <1>12, <2>1 DEF Respond, Reset, TypeOK, Serving, PC
<1>13. ASSUME NEW c \in Conn, Disconnect(c) PROVE TypeInv'
  BY <1>13 DEF Disconnect, Reset, TypeOK, Serving, PC, histVars
<1>14. CASE UNCHANGED vars
  BY <1>14 DEF vars, connVars, histVars, TypeOK, Serving
<1> QED BY <1>1, <1>2, <1>3, <1>4, <1>5, <1>6, <1>7, <1>8, <1>9, <1>10, <1>11,
           <1>12, <1>13, <1>14 DEF Next, Serve, Client

\* The variables keep the shapes the code gives them.
THEOREM TypeCorrect == Spec => []TypeOK
<1>1. Spec => []TypeInv
  BY TypeInit, TypeNext, PTL DEF Spec
<1> QED BY <1>1, PTL DEF TypeInv

-----------------------------------------------------------------------------
(* The hierarchy of containers.                                              *)

Present == DOMAIN store \cup removed

\* What put visits on the way to a stored key was there before the key.
WalkClosed == \A k \in DOMAIN store : Ancestors(k) \subseteq Present

\* The containers above a key about to be inserted have been seen to.
InsertReady ==
  \A c \in Conn : pc[c] = "insert" => Ancestors(key[c]) \subseteq Present

\* A response that says a resource is stored speaks of a key that was.
StoredReady ==
  \A c \in Conn : pc[c] = "respond" /\ Stored(c) => key[c] \in Present

HierarchyInv ==
  /\ TypeInv
  /\ WalkClosed
  /\ InsertReady
  /\ AcceptedStays
  /\ StoredReady
  /\ ContainersByPath

LEMMA HierarchyInit == Init => HierarchyInv
<1> SUFFICES ASSUME Init PROVE HierarchyInv
  OBVIOUS
<1>1. TypeInv
  BY TypeInit
<1>2. DOMAIN store = {Root} /\ store[Root] = ContainerEntry
  BY FreshStoreType DEF Init, InitWith, FreshStore
<1>3. WalkClosed
  BY <1>2, AncestorsOfRoot DEF WalkClosed, Present
<1>4. ContainersByPath
  BY <1>2, RootIsKey DEF ContainersByPath, ContainerEntry
<1> QED BY <1>1, <1>3, <1>4 DEF Init, InitWith, HierarchyInv, InsertReady, AcceptedStays,
                                StoredReady

\* Keys that are neither stored nor were deleted are new keys.
LEMMA PresentGrows == TypeInv /\ [Next]_vars => Present \subseteq Present'
<1> SUFFICES ASSUME TypeInv, [Next]_vars PROVE Present \subseteq Present'
  OBVIOUS
<1> USE DEF Present
<1>1. ASSUME NEW c \in Conn, HandleDelete(c) PROVE Present \subseteq Present'
  <2>1. DOMAIN store' = DOMAIN store \ {key[c]}
    BY <1>1 DEF HandleDelete, Without
  <2>2. removed' = removed \cup ({key[c]} \cap DOMAIN store)
    BY <1>1 DEF HandleDelete
  <2> QED BY <2>1, <2>2
<1>2. ASSUME NEW c \in Conn, EnsureAncestors(c) PROVE Present \subseteq Present'
  BY <1>2 DEF EnsureAncestors, WithAncestors, histVars
<1>3. ASSUME NEW c \in Conn, Insert(c) PROVE Present \subseteq Present'
  BY <1>3 DEF Insert, WithEntry, histVars
<1>4. ASSUME NEW c \in Conn,
             \/ Receive(c) \/ ReadPermissions(c) \/ Authorize(c)
             \/ HandleRead(c) \/ HandleStateless(c) \/ PutBody(c) \/ PostBody(c)
             \/ BodyError(c) \/ Respond(c) \/ Disconnect(c)
      PROVE  UNCHANGED <<store, removed>>
  BY <1>4 DEF Receive, Enter, ReadPermissions, Authorize, HandleRead, HandleStateless,
              PutBody, PostBody, BodyError, Respond, Disconnect, histVars
<1>5. CASE UNCHANGED vars
  BY <1>5 DEF vars, histVars
<1> QED BY <1>1, <1>2, <1>3, <1>4, <1>5 DEF Next, Serve, Client

\* Steps that leave the store alone, and answer no PUT or POST with success.
LEMMA HierarchyQuiet ==
  ASSUME HierarchyInv, TypeInv', UNCHANGED <<store, removed, accepted>>,
         \A c \in Conn :
           /\ pc'[c] = "insert" => pc[c] = "insert" /\ key'[c] = key[c]
           /\ pc'[c] = "respond" =>
                \/ pc[c] = "respond" /\ UNCHANGED <<req[c], key[c], reply[c]>>
                \/ req'[c].method \notin {"PUT", "POST"}
                \/ reply'[c].status \notin {201, 204}
  PROVE  HierarchyInv'
<1>1. WalkClosed' /\ AcceptedStays' /\ ContainersByPath'
  BY DEF HierarchyInv, WalkClosed, AcceptedStays, ContainersByPath, Present
<1>2. InsertReady'
  BY DEF HierarchyInv, InsertReady, Present
<1>3. StoredReady'
  BY DEF HierarchyInv, StoredReady, Stored, Present
<1> QED BY <1>1, <1>2, <1>3 DEF HierarchyInv

LEMMA HierarchyDelete ==
  ASSUME HierarchyInv, TypeInv', NEW c \in Conn, HandleDelete(c),
         Present \subseteq Present'
  PROVE  HierarchyInv'
<1>1. /\ key[c] \in Key /\ req[c].method = "DELETE" /\ IsStore(store)
      /\ pc \in [Conn -> PC] /\ reply \in [Conn -> Reply \cup {None}]
  BY DEF HandleDelete, At, HierarchyInv, TypeInv, TypeOK, Serving
<1>2. /\ DOMAIN store' = DOMAIN store \ {key[c]}
      /\ \A x \in DOMAIN store \ {key[c]} : store'[x] = store[x]
  BY <1>1, WithoutType DEF HandleDelete
<1>3. /\ pc' = [pc EXCEPT ![c] = "respond"] /\ UNCHANGED <<req, key, accepted>>
      /\ \A d \in Conn \ {c} : reply'[d] = reply[d]
  BY <1>1 DEF HandleDelete, Answer
<1>4. WalkClosed' /\ ContainersByPath' /\ AcceptedStays'
  BY <1>2, <1>3 DEF HierarchyInv, WalkClosed, ContainersByPath,
                    AcceptedStays, Present
<1>5. InsertReady'
  BY <1>1, <1>3 DEF HierarchyInv, InsertReady
<1>6. StoredReady'
  BY <1>1, <1>3 DEF HierarchyInv, StoredReady, Stored
<1> QED BY <1>4, <1>5, <1>6 DEF HierarchyInv

LEMMA HierarchyEnsure ==
  ASSUME HierarchyInv, TypeInv', NEW c \in Conn, EnsureAncestors(c),
         Present \subseteq Present'
  PROVE  HierarchyInv'
<1>1. /\ key[c] \in Key /\ IsStore(store) /\ pc \in [Conn -> PC]
  BY DEF EnsureAncestors, HierarchyInv, TypeInv, TypeOK, Serving
<1>2. /\ DOMAIN store' = DOMAIN store \cup Ancestors(key[c])
      /\ \A x \in DOMAIN store : store'[x] = store[x]
      /\ \A x \in Ancestors(key[c]) \ DOMAIN store : store'[x] = ContainerEntry
  BY <1>1, WithAncestorsType DEF EnsureAncestors
<1>3. /\ pc' = [pc EXCEPT ![c] = "insert"]
      /\ UNCHANGED <<req, key, reply, removed, accepted>>
  BY DEF EnsureAncestors, histVars
<1>4. WalkClosed'
  <2>1. SUFFICES ASSUME NEW k \in DOMAIN store'
                 PROVE  Ancestors(k) \subseteq Present'
    BY DEF WalkClosed, Present
  <2>2. CASE k \in DOMAIN store
    BY <2>2 DEF HierarchyInv, WalkClosed, Present
  <2>3. CASE k \in Ancestors(key[c])
    BY <2>3, <1>1, <1>2, AncestorsTransitive DEF Present
  <2> QED BY <2>1, <2>2, <2>3, <1>2
<1>5. ContainersByPath'
  <2>1. \A x \in Ancestors(key[c]) : IsContainerKey(x)
    BY <1>1, AncestorsAreContainers
  <2>2. ContainerEntry.is_container = TRUE
    BY DEF ContainerEntry
  <2> QED BY <1>2, <2>1, <2>2 DEF HierarchyInv, ContainersByPath
<1>6. AcceptedStays'
  BY <1>3 DEF HierarchyInv, AcceptedStays, Present
<1>7. InsertReady'
  BY <1>1, <1>2, <1>3 DEF HierarchyInv, InsertReady, Present
<1>8. StoredReady'
  BY <1>1, <1>3 DEF HierarchyInv, StoredReady, Stored
<1> QED BY <1>4, <1>5, <1>6, <1>7, <1>8 DEF HierarchyInv

LEMMA HierarchyInsert ==
  ASSUME HierarchyInv, TypeInv', NEW c \in Conn, Insert(c),
         Present \subseteq Present'
  PROVE  HierarchyInv'
<1>1. /\ key[c] \in Key /\ req[c] \in Request /\ IsStore(store)
      /\ pc \in [Conn -> PC] /\ pc[c] = "insert"
  BY DEF Insert, HierarchyInv, TypeInv, TypeOK, Serving
<1>0. EntryFor(key[c], req[c].content_type, req[c].body) \in Entry
  BY <1>1, EntryForType
<1>2. PICK e \in Entry :
        /\ store' = WithEntry(store, key[c], e)
        /\ e.is_container = IsContainerKey(key[c])
  BY <1>0, <1>1, EntryForType DEF Insert
<1>3. /\ DOMAIN store' = DOMAIN store \cup {key[c]}
      /\ store'[key[c]] = e
      /\ \A x \in DOMAIN store \ {key[c]} : store'[x] = store[x]
  <2>1. /\ IsStore(WithEntry(store, key[c], e))
        /\ DOMAIN WithEntry(store, key[c], e) = DOMAIN store \cup {key[c]}
        /\ WithEntry(store, key[c], e)[key[c]] = e
        /\ \A x \in DOMAIN store \ {key[c]} :
             WithEntry(store, key[c], e)[x] = store[x]
    BY <1>1, <1>2, WithEntryType
  <2> QED BY <1>2, <2>1
<1>4. /\ pc' = [pc EXCEPT ![c] = "respond"]
      /\ UNCHANGED <<req, key, removed, accepted>>
      /\ \A d \in Conn \ {c} : reply'[d] = reply[d]
  BY DEF Insert, Answer, histVars, HierarchyInv, TypeInv, TypeOK
<1>5. WalkClosed'
  BY <1>1, <1>3 DEF HierarchyInv, WalkClosed, InsertReady, Present
<1>6. ContainersByPath'
  BY <1>2, <1>3 DEF HierarchyInv, ContainersByPath
<1>7. AcceptedStays'
  BY <1>4 DEF HierarchyInv, AcceptedStays, Present
<1>8. InsertReady'
  BY <1>1, <1>4 DEF HierarchyInv, InsertReady
<1>9. StoredReady'
  <2>1. key[c] \in Present'
    BY <1>3 DEF Present
  <2> QED BY <1>1, <1>4, <2>1 DEF HierarchyInv, StoredReady, Stored
<1> QED BY <1>5, <1>6, <1>7, <1>8, <1>9 DEF HierarchyInv

LEMMA HierarchyRespond ==
  ASSUME HierarchyInv, TypeInv', NEW c \in Conn, Respond(c)
  PROVE  HierarchyInv'
<1>1. /\ pc[c] = "respond" /\ pc' = [pc EXCEPT ![c] = "idle"]
      /\ UNCHANGED <<store, removed>> /\ pc \in [Conn -> PC]
      /\ \A d \in Conn \ {c} :
           req'[d] = req[d] /\ key'[d] = key[d] /\ reply'[d] = reply[d]
  BY DEF Respond, Reset, HierarchyInv, TypeInv, TypeOK
<1>2. AcceptedStays'
  <2>1. accepted' = accepted \cup (IF Stored(c) THEN {key[c]} ELSE {})
    BY DEF Respond
  <2> QED BY <1>1, <2>1 DEF HierarchyInv, AcceptedStays, StoredReady, Present
<1>3. WalkClosed' /\ ContainersByPath'
  BY <1>1 DEF HierarchyInv, WalkClosed, ContainersByPath, Present
<1>4. InsertReady'
  BY <1>1 DEF HierarchyInv, InsertReady, Present
<1>5. StoredReady'
  BY <1>1 DEF HierarchyInv, StoredReady, Stored, Present
<1> QED BY <1>2, <1>3, <1>4, <1>5 DEF HierarchyInv

LEMMA HierarchyNext == HierarchyInv /\ [Next]_vars => HierarchyInv'
<1> SUFFICES ASSUME HierarchyInv, [Next]_vars PROVE HierarchyInv'
  OBVIOUS
<1>1. TypeInv /\ TypeInv' /\ Present \subseteq Present'
  BY TypeNext, PresentGrows DEF HierarchyInv
<1>2. /\ pc \in [Conn -> PC] /\ reply \in [Conn -> Reply \cup {None}]
      /\ req \in [Conn -> Request \cup {None}]
      /\ key \in [Conn -> Key \cup {None}]
  BY <1>1 DEF TypeInv, TypeOK
<1>3. ASSUME NEW c \in Conn, Receive(c) PROVE HierarchyInv'
  <2>1. \A d \in Conn \ {c} : UNCHANGED <<pc[d], req[d], key[d], reply[d]>>
    BY <1>2, <1>3 DEF Receive, Enter
  <2>2. pc'[c] = "permissions" /\ UNCHANGED <<store, removed, accepted>>
    BY <1>2, <1>3 DEF Receive, Enter, histVars
  <2> QED BY <1>1, <2>1, <2>2, HierarchyQuiet
<1>4. ASSUME NEW c \in Conn,
             \/ ReadPermissions(c) \/ Authorize(c)
             \/ HandleRead(c) \/ HandleStateless(c) \/ BodyError(c)
      PROVE  HierarchyInv'
  <2>1. /\ UNCHANGED <<req, key, store, removed, accepted>>
        /\ \A d \in Conn \ {c} : UNCHANGED <<pc[d], reply[d]>>
    BY <1>2, <1>4 DEF ReadPermissions, Authorize, HandleRead, HandleStateless,
                      BodyError, Answer, histVars
  <2>2. pc'[c] # "insert"
    BY <1>2, <1>4 DEF ReadPermissions, Authorize, HandleRead, HandleStateless,
                      BodyError, Answer
  <2>3. ASSUME pc'[c] = "respond"
        PROVE  \/ req[c].method \notin {"PUT", "POST"}
               \/ reply'[c].status \notin {201, 204}
    <3>1. CASE ReadPermissions(c) \/ Authorize(c) \/ BodyError(c)
      <4>1. \E code \in {400, 401, 500} : reply'[c] = Status(code)
        BY <1>2, <2>3, <3>1 DEF ReadPermissions, Authorize, BodyError, Answer
      <4> QED BY <4>1, StatusType DEF Codes
    <3>2. CASE HandleRead(c) \/ HandleStateless(c)
      BY <3>2 DEF HandleRead, HandleStateless, At
    <3> QED BY <1>4, <3>1, <3>2
  <2> QED BY <1>1, <2>1, <2>2, <2>3, HierarchyQuiet
<1>5. ASSUME NEW c \in Conn, PutBody(c) \/ PostBody(c) \/ Disconnect(c)
      PROVE  HierarchyInv'
  <2>1. /\ UNCHANGED <<store, removed, accepted>>
        /\ pc'[c] \in {"ancestors", "idle"}
        /\ \A d \in Conn \ {c} : UNCHANGED <<pc[d], req[d], key[d], reply[d]>>
    BY <1>2, <1>5 DEF PutBody, PostBody, Disconnect, Reset, histVars
  <2> QED BY <1>1, <2>1, HierarchyQuiet
<1>6. ASSUME NEW c \in Conn, HandleDelete(c) PROVE HierarchyInv'
  BY <1>1, <1>6, HierarchyDelete
<1>7. ASSUME NEW c \in Conn, EnsureAncestors(c) PROVE HierarchyInv'
  BY <1>1, <1>7, HierarchyEnsure
<1>8. ASSUME NEW c \in Conn, Insert(c) PROVE HierarchyInv'
  BY <1>1, <1>8, HierarchyInsert
<1>9. ASSUME NEW c \in Conn, Respond(c) PROVE HierarchyInv'
  BY <1>1, <1>9, HierarchyRespond
<1>10. CASE UNCHANGED vars
  BY <1>1, <1>10, HierarchyQuiet DEF vars, connVars, histVars
<1> QED BY <1>3, <1>4, <1>5, <1>6, <1>7, <1>8, <1>9, <1>10
        DEF Next, Serve, Client

LEMMA HierarchyAlways == Spec => []HierarchyInv
BY HierarchyInit, HierarchyNext, PTL DEF Spec

\* Of a path that is short enough the walk leaves nothing out.
LEMMA WalkIsComplete ==
  ASSUME NEW k \in Key, TrimmedLen(k) < SplitLimit
  PROVE  EveryAncestor(k) \subseteq Ancestors(k)
<1>1. TrimmedLen(k) \in Nat
  BY TrimmedLenSpec, KeyLength
<1>2. TrimmedLen(k) # 0 => WalkDepth(k) = TrimmedLen(k) - 1
  BY <1>1, SplitLimitAssumption DEF WalkDepth
<1>3. 0..(TrimmedLen(k) - 1) \subseteq 0..WalkDepth(k)
  BY <1>1, <1>2
<1> QED BY <1>3 DEF EveryAncestor, Ancestors

\* put leaves no gap above a resource, however its two critical sections and
\* those of other requests interleave: only a DELETE makes one.
THEOREM HierarchyIsClosed == Spec => []HierarchyClosed
<1>1. HierarchyInv => HierarchyClosed
  BY WalkIsComplete DEF HierarchyInv, WalkClosed, HierarchyClosed, Present,
                        TypeInv, TypeOK, IsStore
<1> QED BY <1>1, HierarchyAlways, PTL

\* A resource a client was told is stored is there until a DELETE of it.
THEOREM AcceptedResourcesStay == Spec => []AcceptedStays
BY HierarchyAlways, PTL DEF HierarchyInv

\* The container flag of every entry agrees with its path.
THEOREM ContainersAreByPath == Spec => []ContainersByPath
BY HierarchyAlways, PTL DEF HierarchyInv

-----------------------------------------------------------------------------
(* What a step may do to an entry.                                           *)

EntryStep ==
  \A k \in DOMAIN store :
    \/ k \in DOMAIN store' /\ store'[k] = store[k]
    \/ \E c \in Conn : key[c] = k /\ pc[c] \in {"insert", "handler"}
                         /\ pc'[c] = "respond"

\* No entry changes or goes but by the request that names it: auto-creation
\* keeps what is there, whoever put it there since the key was looked at.
THEOREM EntriesChangeByName == Spec => OnlyTargetedEntriesChange
<1>1. TypeInv /\ [Next]_vars => EntryStep
  <2> SUFFICES ASSUME TypeInv, [Next]_vars PROVE EntryStep
    OBVIOUS
  <2>0. pc \in [Conn -> PC]
    BY DEF TypeInv, TypeOK
  <2>1. ASSUME NEW c \in Conn, HandleDelete(c) PROVE EntryStep
    <3>1. /\ \A x \in DOMAIN store \ {key[c]} :
               x \in DOMAIN store' /\ store'[x] = store[x]
          /\ pc[c] = "handler" /\ pc'[c] = "respond"
      BY <2>0, <2>1 DEF HandleDelete, Without, At, Answer
    <3> QED BY <3>1 DEF EntryStep
  <2>2. ASSUME NEW c \in Conn, EnsureAncestors(c) PROVE EntryStep
    BY <2>2 DEF EnsureAncestors, WithAncestors, EntryStep
  <2>3. ASSUME NEW c \in Conn, Insert(c) PROVE EntryStep
    <3>1. /\ \A x \in DOMAIN store \ {key[c]} :
               x \in DOMAIN store' /\ store'[x] = store[x]
          /\ pc[c] = "insert" /\ pc'[c] = "respond"
      BY <2>0, <2>3 DEF Insert, WithEntry, Answer
    <3> QED BY <3>1 DEF EntryStep
  <2>4. ASSUME NEW c \in Conn,
               \/ Receive(c) \/ ReadPermissions(c) \/ Authorize(c)
               \/ HandleRead(c) \/ HandleStateless(c) \/ PutBody(c)
               \/ PostBody(c) \/ BodyError(c) \/ Respond(c) \/ Disconnect(c)
        PROVE  EntryStep
    BY <2>4 DEF Receive, Enter, ReadPermissions, Authorize, HandleRead,
                HandleStateless, PutBody, PostBody, BodyError, Respond,
                Disconnect, EntryStep
  <2>5. CASE UNCHANGED vars
    BY <2>5 DEF vars, EntryStep
  <2> QED BY <2>1, <2>2, <2>3, <2>4, <2>5 DEF Next, Serve, Client
<1>2. TypeInv /\ [Next]_vars => [EntryStep]_vars
  BY <1>1
<1>3. Spec => []TypeInv
  BY TypeInit, TypeNext, PTL DEF Spec
<1>4. [][EntryStep]_vars => OnlyTargetedEntriesChange
  BY DEF EntryStep, OnlyTargetedEntriesChange
<1> QED BY <1>2, <1>3, <1>4, PTL DEF Spec

-----------------------------------------------------------------------------
(* The segments of keys, and the names of children.                          *)

Segs(k) == {k[i] : i \in 1..Len(k)}
NameIn(k) == k[Len(k)]

LEMMA SegsOfResolvePath ==
  ASSUME NEW url \in Key
  PROVE  Segs(ResolvePath(url)) \subseteq Segs(url)
<1>1. CASE Len(url) > 1 /\ url[1] = Empty
  <2>1. url \in Seq(Part) /\ url # <<>> /\ Len(url) \in Nat
    BY KeyLength DEF Key
  <2>2. /\ Len(Tail(url)) = Len(url) - 1
        /\ \A i \in 1..Len(Tail(url)) : Tail(url)[i] = url[i + 1]
    BY <2>1, HeadTailProperties
  <2>3. \A i \in 1..Len(Tail(url)) : i + 1 \in 1..Len(url)
    BY <2>1, <2>2
  <2> QED BY <1>1, <2>2, <2>3 DEF ResolvePath, Segs
<1>2. CASE ~(Len(url) > 1 /\ url[1] = Empty)
  BY <1>2 DEF ResolvePath
<1> QED BY <1>1, <1>2

\* A child key is what is left of its parent, then the name.
LEMMA SegsOfChildKey ==
  ASSUME NEW k \in Key, NEW s \in Seg
  PROVE  /\ Segs(ChildKey(k, s)) \subseteq Segs(k) \cup {s}
         /\ NameIn(ChildKey(k, s)) = s
         /\ \A i \in 1..(Len(ChildKey(k, s)) - 1) : ChildKey(k, s)[i] \in Segs(k)
<1>1. /\ Trim(k) \in Seq(Part) /\ s \in Part
      /\ Len(Trim(k)) = TrimmedLen(k) /\ TrimmedLen(k) \in 0..Len(k)
      /\ Len(k) \in Nat /\ \A i \in 1..TrimmedLen(k) : Trim(k)[i] = k[i]
  BY TrimProperties, TrimmedLenSpec, KeyLength DEF Part
<1>2. /\ Len(ChildKey(k, s)) = TrimmedLen(k) + 1
      /\ ChildKey(k, s)[TrimmedLen(k) + 1] = s
      /\ \A i \in 1..TrimmedLen(k) : ChildKey(k, s)[i] = Trim(k)[i]
  BY <1>1, AppendProperties DEF ChildKey
<1>3. \A i \in 1..TrimmedLen(k) : ChildKey(k, s)[i] \in Segs(k)
  BY <1>1, <1>2 DEF Segs
<1>4. (Len(ChildKey(k, s)) - 1) = TrimmedLen(k)
  BY <1>1, <1>2
<1>5. \A i \in 1..Len(ChildKey(k, s)) :
        i \in 1..TrimmedLen(k) \/ i = TrimmedLen(k) + 1
  BY <1>1, <1>2
<1>6. Segs(ChildKey(k, s)) \subseteq Segs(k) \cup {s}
  BY <1>2, <1>3, <1>5 DEF Segs
<1> QED BY <1>2, <1>3, <1>4, <1>6 DEF NameIn

\* The containers above a key are named by its segments but the last.
LEMMA SegsOfAncestors ==
  ASSUME NEW k \in Key, NEW x \in Ancestors(k)
  PROVE  Segs(x) \subseteq {k[i] : i \in 1..(Len(k) - 1)} \cup {Empty}
<1>1. PICK i \in 0..WalkDepth(k) : x = ContainerKey(SubSeq(Trim(k), 1, i))
  BY DEF Ancestors
<1> DEFINE p == SubSeq(Trim(k), 1, i)
<1>2. /\ p \in Seq(Part) /\ Len(p) = i /\ i \in Nat
      /\ \A j \in 1..i : p[j] = k[j]
  BY WalkedPrefix, TrimmedLenSpec, KeyLength
<1>3. i <= Len(k) - 1
  <2>1. TrimmedLen(k) \in 0..Len(k) /\ Len(k) \in Nat /\ Len(k) >= 1
    BY TrimmedLenSpec, KeyLength
  <2> QED BY <2>1, SplitLimitAssumption DEF WalkDepth
<1>4. CASE x = Root
  BY <1>4 DEF Root, Segs
<1>5. CASE x # Root
  <2>1. x = Append(p, Empty)
    BY <1>1, <1>5 DEF ContainerKey
  <2>2. Len(x) = i + 1 /\ x[i + 1] = Empty /\ \A j \in 1..i : x[j] = k[j]
    BY <2>1, <1>2, AppendProperties DEF Part
  <2>3. \A j \in 1..Len(x) : j = i + 1 \/ (j \in 1..i /\ j \in 1..(Len(k) - 1))
    BY <2>2, <1>2, <1>3, KeyLength
  <2> QED BY <2>2, <2>3 DEF Segs
<1> QED BY <1>4, <1>5

-----------------------------------------------------------------------------
(* The names POST draws are new.                                             *)

\* A POST that has drawn a name and not stored its child yet.
Creating(c) == pc[c] \in {"ancestors", "insert"} /\ req[c].method = "POST"

\* The key a handler works on is the one its request names, or a child of it.
KeysResolved ==
  \A c \in Conn :
    /\ \/ pc[c] \in {"permissions", "authorize", "handler"}
       \/ pc[c] \in {"ancestors", "insert"} /\ req[c].method = "PUT"
       => key[c] = ResolvePath(req[c].target)
    /\ Creating(c) =>
         key[c] = ChildKey(ResolvePath(req[c].target), NameIn(key[c]))

\* Only names that were drawn are in use.
SlugsSpent ==
  /\ \A k \in DOMAIN store : Segs(k) \cap Slug \subseteq slugs
  /\ \A c \in Conn : pc[c] # "idle" => Segs(key[c]) \cap Slug \subseteq slugs

\* The name s is that of the child c is about to store, and nobody else's.
Fresh(s, c) ==
  /\ s \in slugs \ known
  /\ s \notin Segs(ResolvePath(req[c].target))
  /\ \A k \in DOMAIN store : s \notin Segs(k)
  /\ \A d \in Conn \ {c} : pc[d] # "idle" => s \notin Segs(key[d])

NamesAreFresh == \A c \in Conn : Creating(c) => Fresh(NameIn(key[c]), c)

NamesInv == KeysResolved /\ SlugsSpent /\ NamesAreFresh

LEMMA NamesInit == Init => NamesInv
<1> SUFFICES ASSUME Init PROVE NamesInv
  OBVIOUS
<1>1. DOMAIN store = {Root} /\ \A c \in Conn : pc[c] = "idle"
  BY FreshStoreType DEF Init, InitWith
<1>2. Segs(Root) \cap Slug = {}
  BY SlugAssumption, SegAssumption DEF Segs, Root
<1> QED BY <1>1, <1>2
        DEF NamesInv, KeysResolved, SlugsSpent, NamesAreFresh, Creating

\* What holds of the connections that take no step: the keys of the store are
\* old or made of names others use, and what is told is not theirs.
LEMMA NamesStep ==
  ASSUME TypeInv, NamesInv, NEW c \in Conn,
         \A d \in Conn \ {c} : UNCHANGED <<pc[d], req[d], key[d]>>,
         slugs \subseteq slugs',
         \A d \in Conn \ {c} : Creating(d) =>
           /\ NameIn(key[d]) \notin known'
           /\ \A k \in DOMAIN store' : NameIn(key[d]) \notin Segs(k)
           /\ pc'[c] # "idle" => NameIn(key[d]) \notin Segs(key'[c]),
         \A k \in DOMAIN store' : Segs(k) \cap Slug \subseteq slugs',
         pc'[c] # "idle" => Segs(key'[c]) \cap Slug \subseteq slugs',
         \/ pc'[c] \in {"permissions", "authorize", "handler"}
         \/ pc'[c] \in {"ancestors", "insert"} /\ req'[c].method = "PUT"
         => key'[c] = ResolvePath(req'[c].target),
         Creating(c)' =>
           /\ key'[c] = ChildKey(ResolvePath(req'[c].target), NameIn(key'[c]))
           /\ Fresh(NameIn(key[c]), c)'
  PROVE  NamesInv'
<1>1. KeysResolved'
  BY DEF NamesInv, KeysResolved, Creating
<1>2. SlugsSpent'
  BY DEF NamesInv, SlugsSpent
<1>3. NamesAreFresh'
  <2>1. SUFFICES ASSUME NEW d \in Conn, Creating(d)'
                 PROVE  Fresh(NameIn(key[d]), d)'
    BY DEF NamesAreFresh
  <2>2. CASE d = c
    BY <2>1, <2>2
  <2>3. CASE d # c
    <3>1. Creating(d) /\ Fresh(NameIn(key[d]), d)
      BY <2>1, <2>3 DEF Creating, NamesInv, NamesAreFresh
    <3>2. key'[d] = key[d] /\ req'[d] = req[d]
      BY <2>3
    <3>3. \A e \in Conn \ {d} : pc'[e] # "idle" => NameIn(key[d]) \notin Segs(key'[e])
      <4>1. ASSUME NEW e \in Conn \ {d}, e # c, pc'[e] # "idle"
            PROVE  NameIn(key[d]) \notin Segs(key'[e])
        <5>1. pc[e] # "idle" /\ key'[e] = key[e]
          BY <4>1
        <5> QED BY <5>1, <3>1, <4>1 DEF Fresh
      <4>2. pc'[c] # "idle" => NameIn(key[d]) \notin Segs(key'[c])
        BY <3>1, <2>3
      <4> QED BY <4>1, <4>2
    <3> QED BY <2>3, <3>1, <3>2, <3>3 DEF Fresh
  <2> QED BY <2>2, <2>3
<1> QED BY <1>1, <1>2, <1>3 DEF NamesInv

\* Steps that add no key to the store and tell nothing, of a connection that
\* goes on with its key or has done with its request.
LEMMA NamesQuiet ==
  ASSUME TypeInv, NamesInv, NEW c \in Conn,
         \A d \in Conn \ {c} : UNCHANGED <<pc[d], req[d], key[d]>>,
         UNCHANGED <<slugs, known>>, DOMAIN store' \subseteq DOMAIN store,
         \/ pc'[c] \in {"idle", "respond"}
         \/ /\ pc'[c] \in {"permissions", "authorize", "handler"}
            /\ pc[c] \in {"permissions", "authorize", "handler"}
         \/ /\ pc'[c] = "ancestors" /\ pc[c] = "handler"
            /\ req[c].method = "PUT",
         pc'[c] # "idle" =>
           pc[c] # "idle" /\ UNCHANGED <<req[c], key[c]>>
  PROVE  NamesInv'
<1>1. ~Creating(c)'
  BY DEF Creating
<1>2. \A d \in Conn \ {c} : Creating(d) =>
        /\ NameIn(key[d]) \notin known'
        /\ \A k \in DOMAIN store' : NameIn(key[d]) \notin Segs(k)
        /\ pc'[c] # "idle" => NameIn(key[d]) \notin Segs(key'[c])
  BY DEF NamesInv, NamesAreFresh, Fresh
<1>3. /\ \A k \in DOMAIN store' : Segs(k) \cap Slug \subseteq slugs'
      /\ pc'[c] # "idle" => Segs(key'[c]) \cap Slug \subseteq slugs'
  BY DEF NamesInv, SlugsSpent
<1>4. \/ pc'[c] \in {"permissions", "authorize", "handler"}
      \/ pc'[c] \in {"ancestors", "insert"} /\ req'[c].method = "PUT"
      => key'[c] = ResolvePath(req'[c].target)
  BY DEF NamesInv, KeysResolved
<1> QED BY <1>1, <1>2, <1>3, <1>4, NamesStep

LEMMA NamesNext == TypeInv /\ NamesInv /\ [Next]_vars => NamesInv'
<1> SUFFICES ASSUME TypeInv, NamesInv, [Next]_vars PROVE NamesInv'
  OBVIOUS
<1>0. /\ pc \in [Conn -> PC] /\ reply \in [Conn -> Reply \cup {None}]
      /\ req \in [Conn -> Request \cup {None}]
      /\ key \in [Conn -> Key \cup {None}]
      /\ known \subseteq slugs /\ slugs \subseteq Slug /\ IsStore(store)
  BY DEF TypeInv, TypeOK
<1>1. ASSUME NEW c \in Conn, Receive(c) PROVE NamesInv'
  <2>1. PICK r \in Request : Nameable(r.target) /\ Enter(c, r)
    BY <1>1 DEF Receive
  <2>2. /\ pc' = [pc EXCEPT ![c] = "permissions"]
        /\ req' = [req EXCEPT ![c] = r]
        /\ key' = [key EXCEPT ![c] = ResolvePath(r.target)]
        /\ UNCHANGED <<store, slugs, known>>
    BY <2>1 DEF Enter, histVars
  <2>3. /\ \A d \in Conn \ {c} : UNCHANGED <<pc[d], req[d], key[d]>>
        /\ pc'[c] = "permissions" /\ req'[c] = r
        /\ key'[c] = ResolvePath(r.target)
    BY <1>0, <2>2
  <2>4. Segs(key'[c]) \cap Slug \subseteq known
    <3>1. r.target \in Key
      BY TargetAssumption DEF Request
    <3>2. Segs(key'[c]) \subseteq Segs(r.target)
      BY <2>3, <3>1, SegsOfResolvePath
    <3> QED BY <2>1, <3>2 DEF Nameable, Segs
  <2>5. \A d \in Conn \ {c} : Creating(d) =>
          /\ NameIn(key[d]) \notin known'
          /\ \A k \in DOMAIN store' : NameIn(key[d]) \notin Segs(k)
          /\ NameIn(key[d]) \notin Segs(key'[c])
    BY <1>0, <2>2, <2>4 DEF NamesInv, NamesAreFresh, Fresh
  <2>6. \A k \in DOMAIN store' : Segs(k) \cap Slug \subseteq slugs'
    BY <2>2 DEF NamesInv, SlugsSpent
  <2>7. ~Creating(c)'
    BY <2>3 DEF Creating
  <2> QED BY <1>0, <2>2, <2>3, <2>4, <2>5, <2>6, <2>7, NamesStep
<1>2. ASSUME NEW c \in Conn,
             \/ ReadPermissions(c) \/ Authorize(c) \/ HandleRead(c)
             \/ HandleStateless(c) \/ PutBody(c) \/ BodyError(c)
      PROVE  NamesInv'
  <2>1. /\ pc[c] \in {"permissions", "authorize", "handler"}
        /\ UNCHANGED <<store, req, key, slugs, known>>
        /\ \A d \in Conn \ {c} : pc'[d] = pc[d]
        /\ \/ pc'[c] \in {"authorize", "handler", "respond"}
           \/ /\ pc'[c] = "ancestors" /\ pc[c] = "handler"
              /\ req[c].method = "PUT"
    BY <1>0, <1>2 DEF ReadPermissions, Authorize, HandleRead, HandleStateless,
                      PutBody, BodyError, At, Answer, histVars
  <2> QED BY <2>1, NamesQuiet
<1>3. ASSUME NEW c \in Conn, HandleDelete(c) PROVE NamesInv'
  <2>1. /\ pc[c] = "handler" /\ pc'[c] = "respond"
        /\ UNCHANGED <<req, key, slugs, known>>
        /\ \A d \in Conn \ {c} : pc'[d] = pc[d]
        /\ DOMAIN store' \subseteq DOMAIN store
    BY <1>0, <1>3 DEF HandleDelete, At, Answer, Without
  <2> QED BY <2>1, NamesQuiet
<1>4. ASSUME NEW c \in Conn, PostBody(c) PROVE NamesInv'
  <2>1. PICK s \in Slug \ slugs :
          /\ slugs' = slugs \cup {s}
          /\ key' = [key EXCEPT ![c] = ChildKey(key[c], s)]
    BY <1>4 DEF PostBody
  <2>2. /\ key[c] \in Key /\ pc[c] = "handler" /\ s \in Seg
        /\ pc' = [pc EXCEPT ![c] = "ancestors"] /\ req[c].method = "POST"
        /\ UNCHANGED <<store, req, known>>
    BY <1>4, SlugAssumption DEF PostBody, At, TypeInv, Serving
  <2>3. /\ key'[c] = ChildKey(key[c], s) /\ pc'[c] = "ancestors"
        /\ \A d \in Conn \ {c} : UNCHANGED <<pc[d], req[d], key[d]>>
    BY <1>0, <2>1, <2>2
  <2>4. Segs(key'[c]) \subseteq Segs(key[c]) \cup {s} /\ NameIn(key'[c]) = s
    BY <2>2, <2>3, SegsOfChildKey
  <2>5. /\ Segs(key[c]) \cap Slug \subseteq slugs
        /\ \A k \in DOMAIN store : Segs(k) \cap Slug \subseteq slugs
        /\ \A d \in Conn : pc[d] # "idle" => Segs(key[d]) \cap Slug \subseteq slugs
    BY <2>2 DEF NamesInv, SlugsSpent
  <2>6. key[c] = ResolvePath(req[c].target)
    BY <2>2 DEF NamesInv, KeysResolved
  <2>7. Fresh(s, c)'
    BY <1>0, <2>1, <2>2, <2>3, <2>5, <2>6 DEF Fresh
  <2>8. \A d \in Conn \ {c} : Creating(d) =>
          /\ NameIn(key[d]) \notin known'
          /\ \A k \in DOMAIN store' : NameIn(key[d]) \notin Segs(k)
          /\ NameIn(key[d]) \notin Segs(key'[c])
    <3>1. ASSUME NEW d \in Conn \ {c}, Creating(d)
          PROVE  Fresh(NameIn(key[d]), d) /\ NameIn(key[d]) # s
      BY <2>1, <3>1 DEF NamesInv, NamesAreFresh, Fresh
    <3> QED BY <2>2, <2>4, <3>1 DEF Fresh
  <2>9. /\ slugs \subseteq slugs'
        /\ \A k \in DOMAIN store' : Segs(k) \cap Slug \subseteq slugs'
        /\ Segs(key'[c]) \cap Slug \subseteq slugs'
    BY <2>1, <2>2, <2>4, <2>5
  <2>10. /\ key'[c] = ChildKey(ResolvePath(req'[c].target), NameIn(key'[c]))
         /\ Fresh(NameIn(key[c]), c)'
    BY <2>2, <2>3, <2>4, <2>6, <2>7 DEF NameIn
  <2>11. req'[c].method = "POST"
    BY <2>2
  <2> QED BY <2>3, <2>8, <2>9, <2>10, <2>11, NamesStep
<1>5. ASSUME NEW c \in Conn, EnsureAncestors(c) PROVE NamesInv'
  <2>1. /\ pc[c] = "ancestors" /\ pc' = [pc EXCEPT ![c] = "insert"]
        /\ UNCHANGED <<req, key, slugs, known>>
        /\ key[c] \in Key /\ req[c] \in Request
        /\ req[c].method \in {"PUT", "POST"}
    BY <1>5 DEF EnsureAncestors, TypeInv, Serving, histVars
  <2>2. DOMAIN store' = DOMAIN store \cup Ancestors(key[c])
    BY <1>0, <1>5, <2>1, WithAncestorsType DEF EnsureAncestors
  <2>3. /\ pc'[c] = "insert"
        /\ \A d \in Conn \ {c} : UNCHANGED <<pc[d], req[d], key[d]>>
    BY <1>0, <2>1
  <2>4. Empty \notin Slug
    BY SlugAssumption, SegAssumption
  <2>5. \A x \in Ancestors(key[c]) : Segs(x) \subseteq Segs(key[c]) \cup {Empty}
    <3>1. {key[c][i] : i \in 1..(Len(key[c]) - 1)} \subseteq Segs(key[c])
      BY <2>1, KeyLength DEF Segs
    <3> QED BY <2>1, <3>1, SegsOfAncestors
  <2>6. Segs(key[c]) \cap Slug \subseteq slugs
    BY <2>1 DEF NamesInv, SlugsSpent
  <2>7. \A k \in DOMAIN store' : Segs(k) \cap Slug \subseteq slugs'
    BY <2>1, <2>2, <2>4, <2>5, <2>6 DEF NamesInv, SlugsSpent
  <2>8. \A d \in Conn \ {c} : Creating(d) =>
          /\ NameIn(key[d]) \notin known'
          /\ \A k \in DOMAIN store' : NameIn(key[d]) \notin Segs(k)
          /\ NameIn(key[d]) \notin Segs(key'[c])
    <3>1. SUFFICES ASSUME NEW d \in Conn \ {c}, Creating(d)
                   PROVE  /\ NameIn(key[d]) \notin known
                          /\ \A k \in DOMAIN store' : NameIn(key[d]) \notin Segs(k)
                          /\ NameIn(key[d]) \notin Segs(key[c])
      BY <2>1
    <3>2. Fresh(NameIn(key[d]), d)
      BY <3>1 DEF NamesInv, NamesAreFresh
    <3>3. NameIn(key[d]) # Empty /\ NameIn(key[d]) \notin Segs(key[c])
      BY <1>0, <2>1, <2>4, <3>1, <3>2 DEF Fresh
    <3> QED BY <2>2, <2>5, <3>2, <3>3 DEF Fresh
  <2>9. Creating(c)' =>
          /\ key'[c] = ChildKey(ResolvePath(req'[c].target), NameIn(key'[c]))
          /\ Fresh(NameIn(key[c]), c)'
    <3>1. SUFFICES ASSUME req[c].method = "POST"
                   PROVE  /\ key[c] = ChildKey(ResolvePath(req[c].target),
                                               NameIn(key[c]))
                          /\ Fresh(NameIn(key[c]), c)'
      BY <2>1 DEF Creating
    <3>2. /\ Fresh(NameIn(key[c]), c)
          /\ key[c] = ChildKey(ResolvePath(req[c].target), NameIn(key[c]))
      BY <2>1, <3>1 DEF Creating, NamesInv, NamesAreFresh, KeysResolved
    <3>3. /\ ResolvePath(req[c].target) \in Key /\ NameIn(key[c]) \in Seg
          /\ NameIn(key[c]) # Empty
      BY <1>0, <2>1, <2>4, <3>2, SlugAssumption, TargetAssumption,
         ResolvePathType DEF Request, Fresh
    <3>4. \A i \in 1..(Len(key[c]) - 1) : key[c][i] # NameIn(key[c])
      BY <3>2, <3>3, SegsOfChildKey DEF Fresh
    <3>5. \A x \in Ancestors(key[c]) : NameIn(key[c]) \notin Segs(x)
      BY <2>1, <3>3, <3>4, SegsOfAncestors
    <3>6. \A k \in DOMAIN store' : NameIn(key[c]) \notin Segs(k)
      BY <2>2, <3>2, <3>5 DEF Fresh
    <3> QED BY <2>1, <2>3, <3>2, <3>6 DEF Fresh
  <2>10. req[c].method = "PUT" => key[c] = ResolvePath(req[c].target)
    BY <2>1 DEF NamesInv, KeysResolved
  <2> QED BY <2>1, <2>3, <2>6, <2>7, <2>8, <2>9, <2>10, NamesStep
<1>6. ASSUME NEW c \in Conn, Insert(c) PROVE NamesInv'
  <2>1. /\ pc[c] = "insert" /\ pc' = [pc EXCEPT ![c] = "respond"]
        /\ UNCHANGED <<req, key, slugs, known>>
        /\ DOMAIN store' = DOMAIN store \cup {key[c]}
    BY <1>6 DEF Insert, Answer, WithEntry, histVars
  <2>2. /\ pc'[c] = "respond" /\ ~Creating(c)'
        /\ \A d \in Conn \ {c} : UNCHANGED <<pc[d], req[d], key[d]>>
    BY <1>0, <2>1 DEF Creating
  <2>3. /\ Segs(key[c]) \cap Slug \subseteq slugs
        /\ \A k \in DOMAIN store' : Segs(k) \cap Slug \subseteq slugs
    BY <2>1 DEF NamesInv, SlugsSpent
  <2>4. \A d \in Conn \ {c} : Creating(d) =>
          /\ NameIn(key[d]) \notin known'
          /\ \A k \in DOMAIN store' : NameIn(key[d]) \notin Segs(k)
          /\ NameIn(key[d]) \notin Segs(key'[c])
    BY <2>1 DEF NamesInv, NamesAreFresh, Fresh
  <2> QED BY <2>1, <2>2, <2>3, <2>4, NamesStep
<1>7. ASSUME NEW c \in Conn, Respond(c) PROVE NamesInv'
  <2>1. /\ pc[c] = "respond" /\ key[c] \in Key
        /\ reply[c].location # None => NameIn(key[c]) \in slugs
    BY <1>7 DEF Respond, TypeInv, Serving, NameIn
  <2>2. /\ pc'[c] = "idle" /\ ~Creating(c)' /\ UNCHANGED <<store, slugs>>
        /\ \A d \in Conn \ {c} : UNCHANGED <<pc[d], req[d], key[d]>>
        /\ known' \subseteq known \cup {NameIn(key[c])}
    BY <1>0, <1>7 DEF Respond, Reset, Creating, NameIn
  <2>3. NameIn(key[c]) \in Segs(key[c])
    BY <2>1, KeyLength DEF NameIn, Segs
  <2>4. \A d \in Conn \ {c} : Creating(d) =>
          /\ NameIn(key[d]) \notin known'
          /\ \A k \in DOMAIN store' : NameIn(key[d]) \notin Segs(k)
    BY <2>1, <2>2, <2>3 DEF NamesInv, NamesAreFresh, Fresh
  <2>5. \A k \in DOMAIN store' : Segs(k) \cap Slug \subseteq slugs'
    BY <2>2 DEF NamesInv, SlugsSpent
  <2> QED BY <2>2, <2>4, <2>5, NamesStep
<1>8. ASSUME NEW c \in Conn, Disconnect(c) PROVE NamesInv'
  <2>1. /\ pc'[c] = "idle" /\ UNCHANGED <<store, slugs, known>>
        /\ \A d \in Conn \ {c} : UNCHANGED <<pc[d], req[d], key[d]>>
    BY <1>0, <1>8 DEF Disconnect, Reset, histVars
  <2> QED BY <2>1, NamesQuiet
<1>9. CASE UNCHANGED vars
  BY <1>9 DEF vars, connVars, histVars, NamesInv, KeysResolved, SlugsSpent,
              NamesAreFresh, Creating, Fresh
<1> QED BY <1>1, <1>2, <1>3, <1>4, <1>5, <1>6, <1>7, <1>8, <1>9
        DEF Next, Serve, Client

-----------------------------------------------------------------------------
(* How far a request reaches.                                                *)

\* The keys the request r may make, replace or remove an entry at.
Reach(r) == Places(r.method, r.target) \cup Above(r.method, r.target)

\* The walk of put visits nothing but the containers above the key, the root
\* among them; only the root is among its own.
LEMMA AncestorsAreAbove ==
  ASSUME NEW k \in Key, NEW x \in Ancestors(k)
  PROVE  /\ x \in EveryAncestor(k) \cup {Root}
         /\ k # Root => x # k
<1>1. PICK i \in 0..WalkDepth(k) : x = ContainerKey(SubSeq(Trim(k), 1, i))
  BY DEF Ancestors
<1>2. /\ TrimmedLen(k) \in 0..Len(k) /\ Len(k) \in Nat /\ Len(k) >= 1
      /\ TrimmedLen(k) = 0 \/ k[TrimmedLen(k)] # Empty
  BY TrimmedLenSpec, KeyLength
<1>3. /\ i \in Nat
      /\ TrimmedLen(k) # 0 => i <= TrimmedLen(k) - 1
      /\ TrimmedLen(k) = 0 => i = 0
  BY <1>2, SplitLimitAssumption DEF WalkDepth
<1>4. CASE x = Root
  BY <1>4
<1>5. CASE x # Root
  <2> DEFINE p == SubSeq(Trim(k), 1, i)
  <2>1. p \in Seq(Part) /\ Len(p) = i
    BY WalkedPrefix
  <2>2. x = Append(p, Empty) /\ p # <<>>
    BY <1>1, <1>5 DEF ContainerKey
  <2>3. TrimmedLen(k) # 0
    <3>1. SUFFICES ASSUME TrimmedLen(k) = 0 PROVE FALSE
      OBVIOUS
    <3>2. Len(p) = 0
      BY <2>1, <1>3, <3>1
    <3> QED BY <2>1, <2>2, <3>2, EmptySeq
  <2>4. i \in 0..(TrimmedLen(k) - 1)
    BY <1>2, <1>3, <2>3
  <2>5. x \in EveryAncestor(k)
    BY <1>1, <2>4 DEF EveryAncestor
  <2>6. Len(x) = i + 1 /\ x[i + 1] = Empty
    BY <2>1, <2>2, AppendProperties DEF Part
  <2>7. x # k
    <3>1. SUFFICES ASSUME x = k PROVE FALSE
      OBVIOUS
    <3>2. TrimmedLen(k) = i + 1
      BY <1>2, <2>4, <2>6, <3>1
    <3> QED BY <1>2, <2>6, <3>1, <3>2
  <2> QED BY <2>5, <2>7
<1> QED BY <1>4, <1>5

\* The key a handler changes the store with is one its request is about.
LEMMA KeyIsPlace ==
  ASSUME TypeInv, NamesInv, NEW c \in Conn,
         \/ pc[c] \in {"ancestors", "insert"}
         \/ pc[c] = "handler" /\ req[c].method # "POST"
  PROVE  key[c] \in Key /\ key[c] \in Places(req[c].method, req[c].target)
<1>1. key[c] \in Key
  BY DEF TypeInv, Serving
<1>2. CASE req[c].method # "POST"
  <2>1. key[c] = ResolvePath(req[c].target)
    BY <1>2 DEF NamesInv, KeysResolved, TypeInv, Serving
  <2> QED BY <1>1, <1>2, <2>1 DEF Places
<1>3. CASE req[c].method = "POST"
  <2>1. Creating(c)
    BY <1>3 DEF Creating
  <2>2. /\ key[c] = ChildKey(ResolvePath(req[c].target), NameIn(key[c]))
        /\ NameIn(key[c]) \in slugs
    BY <2>1 DEF NamesInv, KeysResolved, NamesAreFresh, Fresh
  <2>3. NameIn(key[c]) \in Slug
    BY <2>2 DEF TypeInv, TypeOK
  <2> QED BY <1>1, <1>3, <2>2, <2>3 DEF Places
<1> QED BY <1>2, <1>3

\* So are the containers put makes on the way.
LEMMA AncestorsInReach ==
  ASSUME NEW r, NEW k \in Key, k \in Places(r.method, r.target)
  PROVE  Ancestors(k) \subseteq Reach(r)
<1>1. ASSUME NEW x \in Ancestors(k) PROVE x \in Reach(r)
  <2>1. x \in EveryAncestor(k) \cup {Root}
    BY AncestorsAreAbove
  <2> QED BY <2>1 DEF Reach, Above
<1> QED BY <1>1

-----------------------------------------------------------------------------
(* Access decided before effects, effects before success.                    *)

\* How far a request has come tells what it was granted and has done.
AccessInv ==
  \A c \in Conn :
    /\ pc[c] \in {"idle", "permissions", "authorize", "handler"} => wrote[c] = {}
    /\ pc[c] \in {"handler", "ancestors", "insert"} =>
         approved[c] = {AccessMap(req[c])}
    /\ pc[c] \in {"ancestors", "insert", "respond"} =>
         wrote[c] \subseteq Reach(req[c])
    /\ pc[c] = "respond" =>
         /\ wrote[c] # {} => req[c].method \in {"PUT", "POST", "DELETE"}
         /\ wrote[c] # {} \/ reply[c].status \in 200..299 =>
              approved[c] = {AccessMap(req[c])}
         /\ reply[c].status \in 400..499 => wrote[c] = {}

\* Only the connection c takes a step.
LEMMA AccessStep ==
  ASSUME TypeInv, AccessInv, NEW c \in Conn,
         \A d \in Conn \ {c} :
           UNCHANGED <<pc[d], req[d], reply[d], approved[d], wrote[d]>>,
         /\ pc'[c] \in {"idle", "permissions", "authorize", "handler"} =>
              wrote'[c] = {}
         /\ pc'[c] \in {"handler", "ancestors", "insert"} =>
              approved'[c] = {AccessMap(req'[c])}
         /\ pc'[c] \in {"ancestors", "insert", "respond"} =>
              wrote'[c] \subseteq Reach(req'[c])
         /\ pc'[c] = "respond" =>
              /\ wrote'[c] # {} => req'[c].method \in {"PUT", "POST", "DELETE"}
              /\ wrote'[c] # {} \/ reply'[c].status \in 200..299 =>
                   approved'[c] = {AccessMap(req'[c])}
              /\ reply'[c].status \in 400..499 => wrote'[c] = {}
  PROVE  AccessInv'
BY DEF AccessInv

LEMMA AccessNext == TypeInv /\ NamesInv /\ AccessInv /\ [Next]_vars => AccessInv'
<1> SUFFICES ASSUME TypeInv, NamesInv, AccessInv, [Next]_vars PROVE AccessInv'
  OBVIOUS
<1>1. /\ pc \in [Conn -> PC] /\ reply \in [Conn -> Reply \cup {None}]
      /\ req \in [Conn -> Request \cup {None}]
      /\ approved \in [Conn -> SUBSET Grant]
      /\ wrote \in [Conn -> SUBSET Key]
  BY DEF TypeInv, TypeOK
<1>2. ASSUME NEW c \in Conn, Receive(c) PROVE AccessInv'
  <2>1. /\ \A d \in Conn \ {c} :
             UNCHANGED <<pc[d], req[d], reply[d], approved[d], wrote[d]>>
        /\ pc[c] = "idle" /\ pc'[c] = "permissions" /\ wrote'[c] = wrote[c]
    BY <1>1, <1>2 DEF Receive, Enter
  <2> QED BY <2>1, AccessStep DEF AccessInv
<1>3. ASSUME NEW c \in Conn, ReadPermissions(c) PROVE AccessInv'
  <2>1. /\ \A d \in Conn \ {c} :
             UNCHANGED <<pc[d], req[d], reply[d], approved[d], wrote[d]>>
        /\ pc[c] = "permissions" /\ wrote'[c] = wrote[c]
        /\ \/ pc'[c] = "authorize"
           \/ pc'[c] = "respond" /\ reply'[c] = Status(500)
    BY <1>1, <1>3 DEF ReadPermissions, Answer
  <2>2. Status(500).status = 500
    BY StatusType DEF Codes
  <2>3. wrote'[c] = {}
    BY <2>1 DEF AccessInv
  <2> QED BY <2>1, <2>2, <2>3, AccessStep
<1>4. ASSUME NEW c \in Conn, Authorize(c) PROVE AccessInv'
  <2>1. /\ \A d \in Conn \ {c} :
             UNCHANGED <<pc[d], req[d], reply[d], approved[d], wrote[d]>>
        /\ pc[c] = "authorize" /\ wrote'[c] = wrote[c] /\ req'[c] = req[c]
        /\ \/ /\ pc'[c] = "handler"
              /\ approved'[c] = {AccessMap(req[c])}
           \/ pc'[c] = "respond" /\ reply'[c] = Status(401)
    BY <1>1, <1>4 DEF Authorize, Answer
  <2>2. Status(401).status = 401
    BY StatusType DEF Codes
  <2>3. wrote'[c] = {}
    BY <2>1 DEF AccessInv
  <2> QED BY <2>1, <2>2, <2>3, AccessStep
<1>5. ASSUME NEW c \in Conn,
             HandleRead(c) \/ HandleStateless(c) \/ BodyError(c)
      PROVE  AccessInv'
  <2>1. /\ \A d \in Conn \ {c} :
             UNCHANGED <<pc[d], req[d], reply[d], approved[d], wrote[d]>>
        /\ pc[c] = "handler" /\ pc'[c] = "respond" /\ req'[c] = req[c]
        /\ wrote'[c] = wrote[c] /\ approved'[c] = approved[c]
    BY <1>1, <1>5 DEF HandleRead, HandleStateless, BodyError, At, Answer
  <2>2. wrote'[c] = {} /\ approved'[c] = {AccessMap(req'[c])}
    BY <2>1 DEF AccessInv
  <2> QED BY <2>1, <2>2, AccessStep
<1>6. ASSUME NEW c \in Conn, HandleDelete(c) PROVE AccessInv'
  <2>1. /\ \A d \in Conn \ {c} :
             UNCHANGED <<pc[d], req[d], reply[d], approved[d], wrote[d]>>
        /\ pc[c] = "handler" /\ pc'[c] = "respond" /\ req[c].method = "DELETE"
        /\ wrote'[c] = {key[c]} \cap DOMAIN store
        /\ approved'[c] = approved[c] /\ req'[c] = req[c]
        /\ reply'[c] = Status(IF key[c] \in DOMAIN store THEN 204 ELSE 404)
    BY <1>1, <1>6 DEF HandleDelete, At, Answer, DeleteReply
  <2>2. /\ reply'[c].status \in {204, 404}
        /\ wrote'[c] # {} => reply'[c].status = 204
    BY <2>1, StatusType DEF Codes
  <2>3. approved'[c] = {AccessMap(req'[c])}
    BY <2>1 DEF AccessInv
  <2>4. reply'[c].status \in 400..499 => wrote'[c] = {}
    BY <2>2
  <2>5. wrote'[c] \subseteq Reach(req'[c])
    BY <2>1, KeyIsPlace DEF Reach
  <2> QED BY <2>1, <2>3, <2>4, <2>5, AccessStep
<1>7. ASSUME NEW c \in Conn, PutBody(c) \/ PostBody(c) PROVE AccessInv'
  <2>1. /\ \A d \in Conn \ {c} :
             UNCHANGED <<pc[d], req[d], reply[d], approved[d], wrote[d]>>
        /\ pc[c] = "handler" /\ pc'[c] = "ancestors" /\ req'[c] = req[c]
        /\ approved'[c] = approved[c] /\ wrote'[c] = wrote[c]
    BY <1>1, <1>7 DEF PutBody, PostBody, At
  <2>2. wrote'[c] = {} /\ approved'[c] = {AccessMap(req'[c])}
    BY <2>1 DEF AccessInv
  <2> QED BY <2>1, <2>2, AccessStep
<1>8. ASSUME NEW c \in Conn, EnsureAncestors(c) PROVE AccessInv'
  <2>1. /\ \A d \in Conn \ {c} :
             UNCHANGED <<pc[d], req[d], reply[d], approved[d], wrote[d]>>
        /\ pc[c] = "ancestors" /\ pc'[c] = "insert" /\ req'[c] = req[c]
        /\ approved'[c] = approved[c]
        /\ wrote'[c] = DOMAIN store' \ DOMAIN store
        /\ store' = WithAncestors(store, key[c])
    BY <1>1, <1>8 DEF EnsureAncestors
  <2>2. wrote'[c] \subseteq Ancestors(key[c])
    BY <2>1 DEF WithAncestors
  <2>3. Ancestors(key[c]) \subseteq Reach(req[c])
    BY <2>1, KeyIsPlace, AncestorsInReach
  <2>4. approved'[c] = {AccessMap(req'[c])}
    BY <2>1 DEF AccessInv
  <2> QED BY <2>1, <2>2, <2>3, <2>4, AccessStep
<1>9. ASSUME NEW c \in Conn, Insert(c) PROVE AccessInv'
  <2> DEFINE rp == WriteReply(req[c], key[c], key[c] \notin DOMAIN store)
  <2>1. /\ \A d \in Conn \ {c} :
             UNCHANGED <<pc[d], req[d], reply[d], approved[d], wrote[d]>>
        /\ pc[c] = "insert" /\ pc'[c] = "respond" /\ reply'[c] = rp
        /\ approved'[c] = approved[c] /\ req'[c] = req[c]
        /\ wrote'[c] = wrote[c] \cup {key[c]}
    BY <1>1, <1>9 DEF Insert, Answer
  <2>2. /\ req[c] \in Request /\ key[c] \in Key
        /\ req[c].method \in {"PUT", "POST"}
    BY <2>1 DEF TypeInv, Serving
  <2>3. rp.status \in {201, 204, 500}
    BY <2>2, WriteReplyType
  <2>4. approved'[c] = {AccessMap(req'[c])}
    BY <2>1 DEF AccessInv
  <2>5. wrote'[c] \subseteq Reach(req'[c])
    BY <2>1, KeyIsPlace DEF AccessInv, Reach
  <2> HIDE DEF rp
  <2> QED BY <2>1, <2>2, <2>3, <2>4, <2>5, AccessStep
<1>10. ASSUME NEW c \in Conn, Respond(c) \/ Disconnect(c) PROVE AccessInv'
  <2>1. /\ \A d \in Conn \ {c} :
             UNCHANGED <<pc[d], req[d], reply[d], approved[d], wrote[d]>>
        /\ pc'[c] = "idle" /\ wrote'[c] = {}
    BY <1>1, <1>10 DEF Respond, Disconnect, Reset
  <2> QED BY <2>1, AccessStep
<1>11. CASE UNCHANGED vars
  BY <1>11 DEF vars, connVars, AccessInv
<1> QED BY <1>2, <1>3, <1>4, <1>5, <1>6, <1>7, <1>8, <1>9, <1>10, <1>11
        DEF Next, Serve, Client

LEMMA AccessAlways == Spec => [](TypeInv /\ AccessInv)
<1>1. Init => AccessInv
  BY DEF Init, InitWith, AccessInv
<1>2. Init => TypeInv /\ NamesInv /\ AccessInv
  BY <1>1, TypeInit, NamesInit
<1>3. TypeInv /\ NamesInv /\ AccessInv /\ [Next]_vars
        => (TypeInv /\ NamesInv /\ AccessInv)'
  BY TypeNext, NamesNext, AccessNext
<1> QED BY <1>2, <1>3, PTL DEF Spec

\* A request answered with a client error, or given up by its client before its
\* body was there, has not written to the store.
THEOREM ErrorsLeaveNoTrace == Spec => []ErrorLeavesNoTrace
<1>1. AccessInv => ErrorLeavesNoTrace
  BY DEF AccessInv, ErrorLeavesNoTrace
<1> QED BY <1>1, AccessAlways, PTL

\* Whatever writes or succeeds was authorized: for writing if it writes, and for
\* the resource whose key, child or containers it writes.
THEOREM EffectsAreAuthorized == Spec => []AuthorizedEffects
<1>1. TypeInv /\ AccessInv => AuthorizedEffects
  <2> SUFFICES ASSUME TypeInv, AccessInv, NEW c \in Conn
               PROVE  /\ \A k \in wrote[c] : \E g \in approved[c] :
                           /\ g.mode = "Write"
                           /\ k \in Places(req[c].method, g.resource)
                                    \cup Above(req[c].method, g.resource)
                      /\ pc[c] = "respond" /\ reply[c].status \in 200..299 =>
                           \E g \in approved[c] : g.resource = req[c].target
    BY DEF AuthorizedEffects
  <2>1. pc[c] \in PC
    BY DEF TypeInv, TypeOK
  <2>2. AccessMap(req[c]).resource = req[c].target
    BY DEF AccessMap
  <2>3. ASSUME NEW k \in wrote[c]
        PROVE  \E g \in approved[c] :
                 /\ g.mode = "Write"
                 /\ k \in Places(req[c].method, g.resource)
                          \cup Above(req[c].method, g.resource)
    <3>1. pc[c] \in {"ancestors", "insert", "respond"}
      BY <2>1, <2>3 DEF AccessInv, PC
    <3>2. req[c].method \in {"PUT", "POST", "DELETE"}
      BY <2>3, <3>1 DEF AccessInv, TypeInv, Serving
    <3>3. AccessMap(req[c]).mode = "Write"
      BY <3>2 DEF AccessMap, RequiredMode
    <3>4. approved[c] = {AccessMap(req[c])} /\ k \in Reach(req[c])
      BY <2>3, <3>1 DEF AccessInv
    <3> QED BY <2>2, <3>3, <3>4 DEF Reach
  <2>4. ASSUME pc[c] = "respond", reply[c].status \in 200..299
        PROVE  \E g \in approved[c] : g.resource = req[c].target
    BY <2>2, <2>4 DEF AccessInv
  <2> QED BY <2>3, <2>4
<1> QED BY <1>1, AccessAlways, PTL

-----------------------------------------------------------------------------
(* The server implements the service.                                        *)

\* Where the service sees the request of c.
Phase(c) == IF pc[c] \in {"idle", "respond"} THEN pc[c] ELSE "busy"
Phases == [c \in Conn |-> Phase(c)]

ServiceInv == HierarchyInv /\ NamesInv

\* A step that answers the request of c settles it.
LEMMA AnswerSettles ==
  ASSUME TypeInv, NEW c \in Conn, pc[c] \notin {"idle", "respond"},
         NEW rp, Answer(c, rp), UNCHANGED req,
         NEW methods, req[c].method \in methods
  PROVE  Service!Settle(c, methods) /\ reply'[c] = rp
<1>1. pc \in [Conn -> PC] /\ reply \in [Conn -> Reply \cup {None}]
  BY DEF TypeInv, TypeOK
<1>2. /\ reply'[c] = rp /\ \A d \in Conn \ {c} : reply'[d] = reply[d]
      /\ pc' = [pc EXCEPT ![c] = "respond"]
  BY <1>1 DEF Answer
<1>3. Phases' = [Phases EXCEPT ![c] = "respond"]
  BY <1>1, <1>2 DEF Phases, Phase
<1>4. Phases[c] = "busy"
  BY DEF Phases, Phase
<1> QED BY <1>2, <1>3, <1>4 DEF Phases, Phase, Service!Settle

\* The service speaks of the same requests, responses and keys.
LEMMA SameMessages ==
  /\ Service!Request = Request /\ Service!Method = Method
  /\ Service!ContainerEntry = ContainerEntry /\ Service!Root = Root
  /\ \A k : Service!ResolvePath(k) = ResolvePath(k)
  /\ \A k : Service!IsContainerKey(k) = IsContainerKey(k)
  /\ \A k, s : Service!ChildKey(k, s) = ChildKey(k, s)
  /\ \A k : Service!EveryAncestor(k) = EveryAncestor(k)
  /\ \A code : Service!Status(code) = Status(code)
  /\ \A k, ct, b : Service!EntryFor(k, ct, b) = EntryFor(k, ct, b)
<1>1. Service!Request = Request /\ Service!Method = Method
  BY DEF Service!Request, Request, Service!Method, Method
<1>2. Service!ContainerEntry = ContainerEntry /\ Service!Root = Root
  BY DEF Service!ContainerEntry, ContainerEntry, Service!Root, Root
<1>3. \A k : /\ Service!ResolvePath(k) = ResolvePath(k)
             /\ Service!IsContainerKey(k) = IsContainerKey(k)
  BY DEF Service!ResolvePath, ResolvePath, Service!IsContainerKey, IsContainerKey
<1>4. \A k, s : Service!ChildKey(k, s) = ChildKey(k, s)
  BY DEF Service!ChildKey, ChildKey, Service!Trim, Trim, Service!TrimmedLen,
         TrimmedLen
<1>5. \A code : Service!Status(code) = Status(code)
  BY DEF Service!Status, Status
<1>6. \A k, ct, b : Service!EntryFor(k, ct, b) = EntryFor(k, ct, b)
  BY DEF Service!EntryFor, EntryFor, Service!IsContainerKey, IsContainerKey
<1>7. \A k : Service!EveryAncestor(k) = EveryAncestor(k)
  BY <1>2 DEF Service!EveryAncestor, EveryAncestor, Service!ContainerKey,
              ContainerKey, Service!Trim, Trim, Service!TrimmedLen, TrimmedLen
<1> QED BY <1>1, <1>2, <1>3, <1>4, <1>5, <1>6, <1>7

LEMMA SameReach ==
  ASSUME NEW method, NEW target
  PROVE  Service!Above(method, target) = Above(method, target)
<1>1. Service!Places(method, target) = Places(method, target)
  BY SameMessages DEF Service!Places, Places
<1> QED BY <1>1, SameMessages DEF Service!Above, Above

LEMMA SameTellable ==
  ASSUME NEW k
  PROVE  Service!Tellable(k) <=> ~\E i \in 1..Len(k) : k[i] \in Unprintable
BY DEF Service!Tellable

\* GET and HEAD tell what the store holds at that instant.
LEMMA ReadImplements ==
  ASSUME ServiceInv, NEW c \in Conn, HandleRead(c)
  PROVE  Service!Read(c)
<1> DEFINE k == ResolvePath(req[c].target)
           rp == ReadReply(req[c], k, store)
<1>1. /\ pc[c] = "handler" /\ req[c].method \in {"GET", "HEAD"}
      /\ Answer(c, ReadReply(req[c], key[c], store)) /\ UNCHANGED <<store, req>>
  BY DEF HandleRead, At
<1>2. TypeInv /\ IsStore(store) /\ req[c] \in Request /\ key[c] = k
  BY <1>1 DEF ServiceInv, HierarchyInv, NamesInv, KeysResolved, TypeInv, TypeOK,
              Serving
<1>3. Service!Settle(c, {"GET", "HEAD"}) /\ reply'[c] = rp
  BY <1>1, <1>2, AnswerSettles
<1>4. CASE k \notin DOMAIN store
  <2>1. rp = Status(404)
    BY <1>4 DEF ReadReply
  <2>2. rp.status = 404
    BY <2>1, StatusType DEF Codes
  <2> QED BY <1>1, <1>3, <1>4, <2>2, SameMessages DEF Service!Read
<1>5. CASE /\ k \in DOMAIN store /\ req[c].accept # NoAccept
           /\ ~AcceptSatisfied(req[c].accept, store[k].content_type)
  <2>1. rp = Status(406)
    BY <1>5 DEF ReadReply
  <2>2. rp.status = 406
    BY <2>1, StatusType DEF Codes
  <2> QED BY <1>1, <1>3, <1>5, <2>2, SameMessages DEF Service!Read
<1>6. CASE /\ k \in DOMAIN store
           /\ ~(/\ req[c].accept # NoAccept
                /\ ~AcceptSatisfied(req[c].accept, store[k].content_type))
  <2> DEFINE e == IF req[c].method = "GET" THEN store[k]
                  ELSE [store[k] EXCEPT !.body = NoBody]
             l == IF store[k].is_container THEN ContainerLink
                  ELSE IF req[c].method = "GET" THEN ResourceLink ELSE {}
  <2>1. rp = [status |-> 200, links |-> l, entry |-> e, location |-> None]
    BY <1>6 DEF ReadReply, Status
  <2>2. store[k] \in Entry
    BY <1>2, <1>6 DEF IsStore
  <2>3. /\ e.content_type = store[k].content_type
        /\ req[c].method = "GET" => e.body = store[k].body
    BY <2>2 DEF Entry
  <2>4. "Container" \in l <=> IsContainerKey(k)
    BY <1>6 DEF ServiceInv, HierarchyInv, ContainersByPath, ContainerLink,
                ResourceLink
  <2>5. rp.status = 200 /\ rp.entry = e /\ rp.links = l
    BY <2>1
  <2> HIDE DEF e, l, rp
  <2> QED BY <1>1, <1>3, <1>6, <2>3, <2>4, <2>5, SameMessages DEF Service!Read
<1> QED BY <1>4, <1>5, <1>6

\* DELETE says whether it has removed something.
LEMMA DeleteImplements ==
  ASSUME ServiceInv, NEW c \in Conn, HandleDelete(c)
  PROVE  Service!Remove(c)
<1>1. /\ pc[c] = "handler" /\ req[c].method \in {"DELETE"}
      /\ Answer(c, DeleteReply(key[c], store)) /\ UNCHANGED req
      /\ store' = Without(store, key[c])
  BY DEF HandleDelete, At
<1>2. TypeInv /\ key[c] = ResolvePath(req[c].target)
  BY <1>1 DEF ServiceInv, HierarchyInv, NamesInv, KeysResolved
<1>3. Service!Settle(c, {"DELETE"}) /\ reply'[c] = DeleteReply(key[c], store)
  BY <1>1, <1>2, AnswerSettles
<1> QED BY <1>1, <1>2, <1>3, SameMessages DEF Service!Remove, Without, DeleteReply

\* A container above what a request makes is not what it makes, the root aside.
LEMMA AncestorsApart ==
  ASSUME NEW method, NEW target \in Key, NEW k \in Places(method, target),
         k \in Key, k # Root, NEW x \in Ancestors(k)
  PROVE  x \in Above(method, target)
<1>1. x \in EveryAncestor(k) \cup {Root} /\ x # k
  BY AncestorsAreAbove
<1>2. x \in Key /\ IsContainerKey(x)
  BY AncestorsAreContainers
<1>3. x \notin Places(method, target)
  <2>1. CASE method = "POST"
    <3>1. SUFFICES ASSUME NEW slug \in Slug, x = ChildKey(ResolvePath(target), slug)
                   PROVE  FALSE
      BY <2>1 DEF Places
    <3>2. ResolvePath(target) \in Key /\ slug \in Seg
      BY ResolvePathType, SlugAssumption
    <3>3. x[Len(x)] = slug
      BY <3>1, <3>2, ChildKeyType
    <3> QED BY <1>2, <3>2, <3>3, SegAssumption DEF IsContainerKey
  <2>2. CASE method # "POST"
    BY <1>1, <2>2 DEF Places
  <2> QED BY <2>1, <2>2
<1> QED BY <1>1, <1>3 DEF Above

\* The containers made first are the service's Provision; a PUT of the root that
\* makes its target with them is the exception the service allows.
LEMMA EnsureImplements ==
  ASSUME ServiceInv, NEW c \in Conn, EnsureAncestors(c)
  PROVE  Service!Provision(c) \/ Service!MakeRoot(c)
<1>1. /\ pc[c] = "ancestors" /\ pc' = [pc EXCEPT ![c] = "insert"]
      /\ store' = WithAncestors(store, key[c]) /\ UNCHANGED <<req, reply>>
  BY DEF EnsureAncestors
<1>2. /\ TypeInv /\ IsStore(store) /\ key[c] \in Key /\ pc \in [Conn -> PC]
      /\ req[c] \in Request /\ req[c].method \in {"PUT", "POST"}
  BY <1>1 DEF ServiceInv, HierarchyInv, TypeInv, TypeOK, Serving
<1>3. /\ DOMAIN store' = DOMAIN store \cup Ancestors(key[c])
      /\ \A x \in DOMAIN store : store'[x] = store[x]
      /\ \A x \in Ancestors(key[c]) \ DOMAIN store : store'[x] = ContainerEntry
  BY <1>1, <1>2, WithAncestorsType
<1>4. \A x \in Ancestors(key[c]) : IsContainerKey(x)
  BY <1>2, AncestorsAreContainers
<1>5. Phases[c] = "busy" /\ Phases' = Phases
  BY <1>1, <1>2 DEF Phases, Phase
<1>6. key[c] \in Places(req[c].method, req[c].target)
  BY <1>1, <1>2, KeyIsPlace DEF ServiceInv
<1>7. ASSUME NEW ks, Ancestors(key[c]) \subseteq ks PROVE Service!Appear(ks)
  BY <1>1, <1>3, <1>4, <1>5, <1>7, SameMessages DEF Service!Appear, Phases, Phase
<1>8. CASE key[c] # Root
  <2>1. req[c].target \in Key
    BY <1>2, TargetAssumption DEF Request
  <2>2. Ancestors(key[c]) \subseteq Above(req[c].method, req[c].target)
    BY <1>2, <1>6, <1>8, <2>1, AncestorsApart
  <2>3. Service!Appear(Service!Above(req[c].method, req[c].target))
    BY <1>7, <2>2, SameReach
  <2> QED BY <1>2, <1>5, <2>3 DEF Service!Provision, Phases, Phase
<1>9. CASE key[c] = Root
  <2>1. req[c].method = "PUT" /\ ResolvePath(req[c].target) = Root
    <3>1. CASE req[c].method = "POST"
      <4>1. PICK slug \in Slug : key[c] = ChildKey(ResolvePath(req[c].target), slug)
        BY <1>6, <3>1 DEF Places
      <4>2. ResolvePath(req[c].target) \in Key /\ slug \in Seg
        BY <1>2, TargetAssumption, ResolvePathType, SlugAssumption DEF Request
      <4>3. key[c][Len(key[c])] = slug
        BY <4>1, <4>2, ChildKeyType
      <4> QED BY <1>9, <4>2, <4>3, RootIsKey, SegAssumption DEF IsContainerKey
    <3>2. CASE req[c].method = "PUT"
      BY <1>6, <1>9, <3>2 DEF Places
    <3> QED BY <1>2, <3>1, <3>2
  <2>2. Service!Appear({Root})
    BY <1>7, <1>9, AncestorsOfRoot
  <2> QED BY <1>5, <2>1, <2>2, SameMessages DEF Service!MakeRoot, Phases, Phase
<1> QED BY <1>8, <1>9

\* The insertion is what settles a PUT or a POST; the name of the child makes
\* its key one that is not in the store.
LEMMA InsertImplements ==
  ASSUME ServiceInv, NEW c \in Conn, Insert(c)
  PROVE  Service!Write(c) \/ Service!Create(c)
<1> DEFINE e == EntryFor(key[c], req[c].content_type, req[c].body)
           rp == WriteReply(req[c], key[c], key[c] \notin DOMAIN store)
<1>1. /\ pc[c] = "insert" /\ Answer(c, rp) /\ UNCHANGED req
      /\ store' = WithEntry(store, key[c], e)
  BY DEF Insert
<1>2. /\ TypeInv /\ IsStore(store) /\ key[c] \in Key /\ req[c] \in Request
      /\ req[c].method \in {"PUT", "POST"}
  BY <1>1 DEF ServiceInv, HierarchyInv, TypeInv, TypeOK, Serving
<1>3. \A methods : req[c].method \in methods =>
                      Service!Settle(c, methods) /\ reply'[c] = rp
  BY <1>1, <1>2, AnswerSettles
<1>4. /\ DOMAIN store' = DOMAIN store \cup {key[c]}
      /\ store'[key[c]] = e
      /\ \A x \in DOMAIN store \ {key[c]} : store'[x] = store[x]
  BY <1>1 DEF WithEntry
<1>5. Service!Place(c, key[c])
  BY <1>4, SameMessages DEF Service!Place
<1>6. CASE req[c].method = "PUT"
  <2>1. key[c] = ResolvePath(req[c].target)
    BY <1>1, <1>6 DEF ServiceInv, NamesInv, KeysResolved
  <2>2. rp.status = IF key[c] \in DOMAIN store THEN 204 ELSE 201
    BY <1>6 DEF WriteReply, Status
  <2>3. Service!Settle(c, {"PUT"}) /\ reply'[c] = rp
    BY <1>3, <1>6
  <2> HIDE DEF rp
  <2> QED BY <1>5, <2>1, <2>2, <2>3, SameMessages DEF Service!Write
<1>7. CASE req[c].method = "POST"
  <2>1. /\ key[c] = ChildKey(ResolvePath(req[c].target), NameIn(key[c]))
        /\ Fresh(NameIn(key[c]), c)
    BY <1>1, <1>7 DEF ServiceInv, NamesInv, KeysResolved, NamesAreFresh, Creating
  <2>2. NameIn(key[c]) \in Slug
    BY <1>2, <2>1 DEF Fresh, TypeInv, TypeOK
  <2>3. key[c] \notin DOMAIN store
    <3>1. NameIn(key[c]) \in Segs(key[c])
      BY <1>2, KeyLength DEF NameIn, Segs
    <3> QED BY <2>1, <3>1 DEF Fresh
  <2>4. rp = IF Service!Tellable(key[c])
             THEN [Status(201) EXCEPT !.location = key[c]] ELSE Status(500)
    BY <1>7, SameTellable DEF WriteReply
  <2>5. \E slug \in Slug :
          /\ key[c] = ChildKey(ResolvePath(req[c].target), slug)
          /\ key[c] \notin DOMAIN store
    BY <2>1, <2>2, <2>3
  <2>6. Service!Settle(c, {"POST"}) /\ reply'[c] = rp
    BY <1>3, <1>7
  <2> HIDE DEF rp
  <2> QED BY <1>5, <2>6, <2>4, <2>5, SameMessages DEF Service!Create
<1> QED BY <1>2, <1>6, <1>7

\* Every step of the server is one of the service, or invisible there.
LEMMA ServerStepImplements ==
  ASSUME ServiceInv, [Next]_vars
  PROVE  [Service!Next]_Service!vars
<1>0. /\ TypeInv /\ pc \in [Conn -> PC] /\ req \in [Conn -> Request \cup {None}]
      /\ reply \in [Conn -> Reply \cup {None}]
  BY DEF ServiceInv, HierarchyInv, TypeInv, TypeOK
<1> DEFINE Unseen == UNCHANGED <<store, Phases, req, reply>>
<1>1. ASSUME NEW c \in Conn, Receive(c) PROVE Service!Arrive(c)
  <2>1. PICK r \in Request : Enter(c, r)
    BY <1>1 DEF Receive
  <2>2. Phases[c] = "idle" /\ Phases' = [Phases EXCEPT ![c] = "busy"]
    BY <1>0, <1>1, <2>1 DEF Phases, Phase, Receive, Enter
  <2> QED BY <2>1, <2>2, SameMessages DEF Enter, Service!Arrive, Phases, Phase
<1>2. ASSUME NEW c \in Conn, ReadPermissions(c) \/ Authorize(c)
      PROVE  Unseen \/ Service!Refuse(c)
  <2>1. pc[c] \in {"permissions", "authorize"} /\ UNCHANGED <<store, req>>
    BY <1>2 DEF ReadPermissions, Authorize
  <2>2. CASE \E code \in {500, 401} : Answer(c, Status(code))
    <3>1. PICK code \in {500, 401} : Answer(c, Status(code))
      BY <2>2
    <3>2. req[c].method \in Method
      BY <1>0, <2>1 DEF TypeInv, Serving, Request
    <3>3. Service!Settle(c, Method) /\ reply'[c] = Status(code)
      BY <1>0, <2>1, <3>1, <3>2, AnswerSettles
    <3> QED BY <2>1, <3>3, SameMessages DEF Service!Refuse
  <2>3. CASE UNCHANGED reply /\ pc' \in {[pc EXCEPT ![c] = "authorize"],
                                         [pc EXCEPT ![c] = "handler"]}
    BY <1>0, <2>1, <2>3 DEF Phases, Phase
  <2> QED BY <1>2, <2>2, <2>3 DEF ReadPermissions, Authorize
<1>3. ASSUME NEW c \in Conn, HandleStateless(c)
      PROVE  Service!Describe(c) \/ Service!Refuse(c)
  <2>1. /\ pc[c] = "handler" /\ req[c].method \in {"OPTIONS", "PATCH"}
        /\ Answer(c, Status(IF req[c].method = "OPTIONS" THEN 204 ELSE 415))
        /\ UNCHANGED <<store, req>>
    BY <1>3 DEF HandleStateless, At
  <2>2. CASE req[c].method = "OPTIONS"
    <3>1. Service!Settle(c, {"OPTIONS"}) /\ reply'[c] = Status(204)
      BY <1>0, <2>1, <2>2, AnswerSettles
    <3> QED BY <2>1, <3>1, SameMessages DEF Service!Describe
  <2>3. CASE req[c].method = "PATCH"
    <3>1. Service!Settle(c, Method) /\ reply'[c] = Status(415)
      BY <1>0, <2>1, <2>3, AnswerSettles DEF Method
    <3> QED BY <2>1, <3>1, SameMessages DEF Service!Refuse
  <2> QED BY <2>1, <2>2, <2>3
<1>4. ASSUME NEW c \in Conn, BodyError(c) PROVE Service!Refuse(c)
  <2>1. Service!Settle(c, Method) /\ reply'[c] = Status(400)
    BY <1>0, <1>4, AnswerSettles DEF BodyError, At, Method
  <2> QED BY <1>4, <2>1, SameMessages DEF BodyError, Service!Refuse
<1>5. ASSUME NEW c \in Conn, PutBody(c) \/ PostBody(c) PROVE Unseen
  <2>1. /\ pc[c] = "handler" /\ pc' = [pc EXCEPT ![c] = "ancestors"]
        /\ UNCHANGED <<store, req, reply>>
    BY <1>5 DEF PutBody, PostBody, At
  <2> QED BY <1>0, <2>1 DEF Phases, Phase
<1>6. ASSUME NEW c \in Conn, Respond(c) \/ Disconnect(c) PROVE Service!Leave(c)
  <2>1. pc[c] # "idle" /\ UNCHANGED store /\ Reset(c)
    BY <1>6 DEF Respond, Disconnect, At
  <2>2. Phases[c] # "idle" /\ Phases' = [Phases EXCEPT ![c] = "idle"]
    BY <1>0, <2>1 DEF Reset, Phases, Phase
  <2> QED BY <2>1, <2>2 DEF Reset, Service!Leave, Phases, Phase
<1>7. CASE UNCHANGED vars
  BY <1>7 DEF vars, connVars, Service!vars
<1>8. Unseen => UNCHANGED Service!vars
  BY DEF Service!vars, Phases, Phase
<1> HIDE DEF Unseen
<1> QED BY <1>1, <1>2, <1>3, <1>4, <1>5, <1>6, <1>7, <1>8, ReadImplements,
           DeleteImplements, EnsureImplements, InsertImplements
        DEF Next, Serve, Client, Service!Next

\* Concurrent requests, each over several steps of the pipeline and the store,
\* take effect one at a time and are answered as if they were alone: the server
\* implements the service, for any number of connections and any targets.  It
\* rests on the freshness of the names POST draws.
THEOREM ServerImplementsService == Spec => ImplementsService
<1>1. Init => Service!Init
  BY SameMessages DEF Init, InitWith, FreshStore, Service!Init
<1>2. ServiceInv /\ [Next]_vars => [Service!Next]_Service!vars
  BY ServerStepImplements
<1>3. Init => ServiceInv
  BY HierarchyInit, NamesInit DEF ServiceInv
<1>4. ServiceInv /\ [Next]_vars => ServiceInv'
  BY HierarchyNext, NamesNext DEF ServiceInv, HierarchyInv
<1> QED BY <1>1, <1>2, <1>3, <1>4, PTL DEF Spec, ImplementsService, Service!Spec

-----------------------------------------------------------------------------
(* The server through crashes and restarts.  Between two steps of one life   *)
(* the invariants of the server hold as they do without a life's end; they   *)
(* also hold of a store that has nothing in it, and of a fresh one.          *)

\* While the process is down, nothing of its last life is left.
Down == ~up => accepted = {} /\ \A c \in Conn : pc[c] = "idle"

LifeInv == HierarchyInv /\ up \in BOOLEAN /\ Down /\ RootUnlessDeleted

LEMMA NoStoreType == IsStore(NoStore) /\ DOMAIN NoStore = {}
BY DEF NoStore, IsStore

LEMMA LifeRun == LifeInv /\ Run => LifeInv'
<1> SUFFICES ASSUME LifeInv, Run PROVE LifeInv'
  OBVIOUS
<1>1. HierarchyInv' /\ Present \subseteq Present' /\ up /\ up'
  BY HierarchyNext, PresentGrows DEF LifeInv, HierarchyInv, Run
<1> QED BY <1>1 DEF LifeInv, Down, RootUnlessDeleted, Present

LEMMA LifeExit == LifeInv /\ Exit => LifeInv'
<1> SUFFICES ASSUME LifeInv, Exit PROVE LifeInv'
  OBVIOUS
<1>1. IsStore(store') /\ DOMAIN store' = {}
  BY NoStoreType DEF Exit
<1>2. TypeInv'
  BY <1>1 DEF Exit, LifeInv, HierarchyInv, TypeInv, TypeOK, Serving, PC
<1>3. WalkClosed' /\ AcceptedStays' /\ ContainersByPath'
  BY <1>1 DEF Exit, WalkClosed, AcceptedStays, ContainersByPath
<1>4. InsertReady' /\ StoredReady'
  BY DEF Exit, InsertReady, StoredReady
<1> QED BY <1>2, <1>3, <1>4
        DEF Exit, LifeInv, HierarchyInv, Down, RootUnlessDeleted

LEMMA LifeBoot == LifeInv /\ Boot => LifeInv'
<1> SUFFICES ASSUME LifeInv, Boot PROVE LifeInv'
  OBVIOUS
<1>1. IsStore(store') /\ DOMAIN store' = {Root} /\ store'[Root] = ContainerEntry
  BY FreshStoreType DEF Boot, FreshStore
<1>2. /\ accepted = {} /\ \A c \in Conn : pc[c] = "idle"
      /\ UNCHANGED <<pc, req, key, reply, approved, wrote>>
      /\ UNCHANGED <<slugs, known, removed, accepted>>
  BY DEF Boot, LifeInv, Down, connVars, histVars
<1>3. TypeInv'
  BY <1>1, <1>2 DEF LifeInv, HierarchyInv, TypeInv, TypeOK, Serving
<1>4. WalkClosed' /\ AcceptedStays'
  BY <1>1, <1>2, AncestorsOfRoot DEF WalkClosed, AcceptedStays, Present
<1>5. ContainersByPath'
  BY <1>1, RootIsKey DEF ContainersByPath, ContainerEntry
<1>6. InsertReady' /\ StoredReady'
  BY <1>2 DEF InsertReady, StoredReady
<1> QED BY <1>1, <1>3, <1>4, <1>5, <1>6
        DEF Boot, LifeInv, HierarchyInv, Down, RootUnlessDeleted

LEMMA LifeAlways == LifeSpec => []LifeInv
<1>1. LifeInit => LifeInv
  <2> SUFFICES ASSUME LifeInit PROVE LifeInv
    OBVIOUS
  <2>1. HierarchyInv /\ up = TRUE
    BY HierarchyInit DEF LifeInit
  <2>2. Root \in DOMAIN store
    BY FreshStoreType DEF LifeInit, Init, InitWith
  <2> QED BY <2>1, <2>2 DEF LifeInv, Down, RootUnlessDeleted
<1>2. LifeInv /\ UNCHANGED allVars => LifeInv'
  <2> SUFFICES ASSUME LifeInv, UNCHANGED allVars PROVE LifeInv'
    OBVIOUS
  <2>1. UNCHANGED vars /\ up' = up
    BY DEF allVars
  <2>2. HierarchyInv' /\ Present \subseteq Present'
    BY <2>1, HierarchyNext, PresentGrows DEF LifeInv, HierarchyInv
  <2>3. UNCHANGED <<pc, accepted>>
    BY <2>1 DEF vars, connVars, histVars
  <2> QED BY <2>1, <2>2, <2>3 DEF LifeInv, Down, RootUnlessDeleted, Present
<1>3. LifeInv /\ [LifeNext]_allVars => LifeInv'
  BY <1>2, LifeRun, LifeExit, LifeBoot DEF LifeNext
<1> QED BY <1>1, <1>3, PTL DEF LifeSpec

\* In every life of the process there is an entry for "/" until a client of
\* that life deletes it, whenever the last life ended.
THEOREM RootIsSeeded == LifeSpec => []RootUnlessDeleted
BY LifeAlways, PTL DEF LifeInv

\* The types are those of LdpServer in every life.
THEOREM TypeCorrectForLife == LifeSpec => []TypeOK
<1>1. LifeInv => TypeOK
  BY DEF LifeInv, HierarchyInv, TypeInv
<1> QED BY <1>1, LifeAlways, PTL

\* No crash between the two critical sections of a put, and no restart, leaves
\* a resource without a container above it that nobody has deleted.
THEOREM HierarchySurvives == LifeSpec => []HierarchyClosed
<1>1. LifeInv => HierarchyClosed
  <2> SUFFICES ASSUME LifeInv PROVE HierarchyClosed
    OBVIOUS
  <2>1. \A k \in DOMAIN store : k \in Key
    BY DEF LifeInv, HierarchyInv, TypeInv, TypeOK, IsStore
  <2> QED BY <2>1, WalkIsComplete
          DEF LifeInv, HierarchyInv, WalkClosed, Present, HierarchyClosed
<1> QED BY <1>1, LifeAlways, PTL

\* What a client was told is stored, in a life of the process, is there for
\* the rest of it, unless a client deletes it.
THEOREM AcceptedStaysForLife == LifeSpec => []AcceptedStays
<1>1. LifeInv => AcceptedStays
  BY DEF LifeInv, HierarchyInv
<1> QED BY <1>1, LifeAlways, PTL
=============================================================================
