----------------------- MODULE IdentityStoresProofs -------------------------
(* Proofs about IdentityStores, for any callers, ids and labels.             *)
EXTENDS IdentityStores, FiniteSetTheorems, TLAPS

-----------------------------------------------------------------------------
(* The inductive invariant.                                                  *)

\* What a call holds at each of its stages.
StageInv(c) ==
  /\ pc[c] # "idle" => call[c] \in Call
  /\ pc[c] \in {"idle", "call"} => row[c] = None
  /\ pc[c] # "idle" /\ call[c].op \in {"update_owner", "remove_owner"} =>
       call[c].pod \in DOMAIN pods
  /\ pc[c] \in {"second", "done"} /\ call[c].op = "create_pod" =>
       /\ row[c] \in DOMAIN pods /\ given[row[c]] = call[c].web
       /\ pc[c] = "second" => call[c].web \in WebId
  /\ pc[c] \in {"second", "done"} /\ call[c].op = "create_token" =>
       row[c] \in Token \cap (DOMAIN by_id \cup removed)
  /\ pc[c] = "second" /\ call[c].op = "find_by_label" => row[c] \in Token
  /\ pc[c] = "done" /\ call[c].op = "create_link" =>
       row[c] \in Link \cap (DOMAIN links \cup removed)

PodInv ==
  /\ DOMAIN given = DOMAIN pods
  /\ \A o \in DOMAIN owners : owners[o].pod_id \in DOMAIN pods

TypeInv == TypeOK /\ PodInv /\ \A c \in Client : StageInv(c)

\* What was stored for a caller stays, from the critical section that stored it.
Kept(p, w) == <<p, w>> \in removed \/ w \in Owners(p)

AckInv ==
  /\ \A p \in Pod, w \in WebId : <<p, w>> \in acked => Kept(p, w)
  /\ acked \cap Token \subseteq DOMAIN by_id \cup removed
  /\ acked \cap Link \subseteq DOMAIN links \cup removed
  /\ \A c \in Client :
       pc[c] = "done" =>
         /\ call[c].op = "create_pod" /\ call[c].web # None =>
              Kept(row[c], call[c].web)
         /\ call[c].op = "update_owner" => Kept(call[c].pod, call[c].web)

\* A pod is created by one call, which meets at most one row of its WebID, and
\* adds one.
Creates(c, p) ==
  pc[c] = "second" /\ call[c].op = "create_pod" /\ row[c] = p

Single(S) == \A x, y \in S : x = y
Pair(S) == \E x, y : S \subseteq {x, y}

OwnerInv ==
  /\ \A p \in DOMAIN pods, w \in WebId :
       /\ Pair(Rows(p, w))
       /\ given[p] # w \/ (\E c \in Client : Creates(c, p)) => Single(Rows(p, w))
  /\ \A c, d \in Client, p \in Pod : Creates(c, p) /\ Creates(d, p) => c = d

\* A label is on its way to a token, leads to one, or has lost it for good,
\* unless several tokens share it.
Asks(c, l) ==
  pc[c] = "call" /\ call[c].op = "create_token" /\ call[c].label = l

Unused(l) == \A t \in DOMAIN by_id : by_id[t].label # l

Gone(l) ==
  l \in shared \/ (l \in labels /\ Unused(l) /\ \A c \in Client : ~Asks(c, l))

Leads(l, t) ==
  IF t \in DOMAIN by_id THEN by_id[t].label = l ELSE t \in removed /\ Gone(l)

Reserved(c, l) == Unused(l) /\ \A d \in Client : Asks(d, l) => d = c

LabelsAreUnique ==
  /\ \A t \in DOMAIN by_id :
       /\ by_id[t].label \in labels
       /\ \A u \in DOMAIN by_id :
            by_id[t].label = by_id[u].label => t = u \/ by_id[t].label \in shared
  /\ \A c \in Client, l \in Label :
       Asks(c, l) => l \in labels /\ (l \in shared \/ Reserved(c, l))

LabelsLead ==
  /\ \A l \in DOMAIN by_label : Leads(l, by_label[l])
  /\ \A c \in Client :
       pc[c] = "second" =>
         /\ call[c].op \in {"create_token", "find_by_label"} =>
              Leads(call[c].label, row[c])
         /\ call[c].op = "delete_token" => Gone(row[c])

Made(c, t) == pc[c] = "done" /\ call[c].op = "create_token" /\ row[c] = t

\* A token whose create is over is indexed, unless others share its label.
TokensIndexed ==
  \A t \in DOMAIN by_id :
    t \in acked \/ (\E c \in Client : Made(c, t)) =>
      by_id[t].label \in DOMAIN by_label \cup shared

LabelInv == LabelsAreUnique /\ LabelsLead /\ TokensIndexed

-----------------------------------------------------------------------------
(* Tables and calls.                                                         *)

LEMMA PutIs ==
  ASSUME NEW m, NEW k, NEW v
  PROVE  /\ DOMAIN Put(m, k, v) = DOMAIN m \cup {k}
         /\ Put(m, k, v)[k] = v
         /\ \A x \in DOMAIN m : x # k => Put(m, k, v)[x] = m[x]
<1>1. k \in DOMAIN m \cup {k} /\ DOMAIN m \subseteq DOMAIN m \cup {k}
  OBVIOUS
<1> QED BY <1>1 DEF Put

LEMMA DropIs ==
  ASSUME NEW m, NEW k
  PROVE  /\ DOMAIN Drop(m, k) = DOMAIN m \ {k}
         /\ \A x \in DOMAIN m : x # k => Drop(m, k)[x] = m[x]
BY DEF Drop, Restrict

LEMMA PutRowed ==
  ASSUME NEW m, NEW ids, NEW rows, Rowed(m, ids, rows),
         NEW k \in ids, NEW v \in rows
  PROVE  Rowed(Put(m, k, v), ids, rows)
BY DEF Put, Rowed

LEMMA DropRowed ==
  ASSUME NEW m, NEW ids, NEW rows, Rowed(m, ids, rows), NEW k
  PROVE  Rowed(Drop(m, k), ids, rows)
BY DEF Drop, Restrict, Rowed

LEMMA CallFields ==
  ASSUME NEW x \in Call
  PROVE  /\ x.op = "create_pod" =>
              x.account \in AccountId /\ x.base \in Url /\ x.web \in WebId \cup {None}
         /\ x.op = "update_owner" =>
              x.pod \in Pod /\ x.web \in WebId /\ x.visible \in BOOLEAN
         /\ x.op = "remove_owner" => x.pod \in Pod /\ x.web \in WebId
         /\ x.op = "create_token" =>
              x.label \in Label /\ x.web \in WebId /\ x.account \in AccountId
         /\ x.op = "delete_token" => x.token \in Token
         /\ x.op = "find_by_label" => x.label \in Label
         /\ x.op = "create_link" => x.web \in WebId /\ x.account \in AccountId
         /\ x.op = "delete_link" => x.link \in Link
BY DEF Call, PodCall, TokenCall, LinkCall

\* A step of c is none of another client's.
LEMMA Others ==
  ASSUME TypeOK, NEW c \in Client, Step(c), NEW d \in Client, d # c
  PROVE  pc'[d] = pc[d] /\ call'[d] = call[d] /\ row'[d] = row[d]
<1>0. DOMAIN pc = Client /\ DOMAIN call = Client /\ DOMAIN row = Client
  BY DEF TypeOK
<1>1. CASE Invoke(c) \/ Return(c)
  BY <1>0, <1>1 DEF Invoke, Return
<1>2. CASE CreatePod(c) \/ FirstOwner(c) \/ UpdateOwner(c) \/ RemoveOwner(c)
  BY <1>0, <1>2 DEF CreatePod, FirstOwner, UpdateOwner, RemoveOwner, Runs
<1>3. CASE CreateToken(c) \/ IndexToken(c) \/ UnindexToken(c)
  BY <1>0, <1>3 DEF CreateToken, IndexToken, UnindexToken, Runs
<1>4. CASE DeleteToken(c) \/ FindId(c)
  BY <1>0, <1>4 DEF DeleteToken, FindId, Runs, tables
<1>5. CASE FindToken(c) \/ CreateLink(c) \/ DeleteLink(c)
  BY <1>0, <1>5 DEF FindToken, CreateLink, DeleteLink, Runs, tables
<1> QED BY <1>1, <1>2, <1>3, <1>4, <1>5 DEF Step

\* UUIDs are not drawn twice, and no step but a new call asks for a label.
LEMMA Monotone ==
  ASSUME PodInv, NEW c \in Client, Step(c)
  PROVE  /\ \A p \in DOMAIN pods : p \in DOMAIN pods' /\ given'[p] = given[p]
         /\ removed \subseteq removed'
         /\ DOMAIN by_id \cup removed \subseteq DOMAIN by_id' \cup removed'
         /\ DOMAIN links \cup removed \subseteq DOMAIN links' \cup removed'
         /\ labels \subseteq labels' /\ shared \subseteq shared'
<1>1. CASE Invoke(c) \/ Return(c)
  BY <1>1 DEF Invoke, Return, tables
<1>2. CASE CreatePod(c) \/ FirstOwner(c) \/ UpdateOwner(c) \/ RemoveOwner(c)
  BY <1>2 DEF PodInv, Put, CreatePod, FirstOwner, UpdateOwner, RemoveOwner, Runs
<1>3. CASE CreateToken(c) \/ IndexToken(c) \/ DeleteToken(c) \/ UnindexToken(c)
  BY <1>3 DEF Put, Drop, Restrict, CreateToken, IndexToken, DeleteToken, UnindexToken, Runs
<1>4. CASE FindId(c) \/ FindToken(c) \/ CreateLink(c) \/ DeleteLink(c)
  BY <1>4 DEF Put, Drop, Restrict, FindId, FindToken, CreateLink, DeleteLink, Runs, tables
<1> QED BY <1>1, <1>2, <1>3, <1>4 DEF Step

LEMMA OtherStages ==
  ASSUME TypeInv, NEW c \in Client, Step(c), NEW d \in Client, d # c
  PROVE  StageInv(d)'
BY Others, Monotone DEF TypeInv, StageInv

-----------------------------------------------------------------------------
(* Types.                                                                    *)

LEMMA TypeInit == Init => TypeInv
BY DEF Init, PodStoreInit, TokenStoreInit, WebIdStoreInit, NoRows, TypeInv,
       TypeOK, Rowed, PodInv, StageInv

\* A row stored for an owner keeps the owner table in order.
LEMMA NewOwnerTyped ==
  ASSUME TypeInv, NEW p \in DOMAIN pods, NEW w \in WebId, NEW visible \in BOOLEAN,
         NewOwner(p, w, visible)
  PROVE  /\ Rowed(owners, OwnerId, OwnerRow)'
         /\ \A o \in DOMAIN owners' : owners'[o].pod_id \in DOMAIN pods
<1>1. PICK o \in OwnerId \ DOMAIN owners :
        owners' = Put(owners, o, [pod_id |-> p, web_id |-> w, visible |-> visible])
  BY DEF NewOwner
<1>2. p \in Pod
  BY DEF TypeInv, TypeOK, Rowed
<1>3. Rowed(owners, OwnerId, OwnerRow)'
  BY <1>1, <1>2 DEF TypeInv, TypeOK, Rowed, Put, OwnerRow
<1>4. \A x \in DOMAIN owners' : owners'[x].pod_id \in DOMAIN pods
  BY <1>1 DEF TypeInv, PodInv, Put
<1> QED BY <1>3, <1>4

LEMMA TypeNext == TypeInv /\ [Next]_vars => TypeInv'
<1> SUFFICES ASSUME TypeInv, [Next]_vars PROVE TypeInv'
  OBVIOUS
<1> USE DEF TypeInv
<1>1. ASSUME NEW c \in Client, Step(c), TypeOK', PodInv', StageInv(c)' PROVE TypeInv'
  BY <1>1, OtherStages
<1>2. ASSUME NEW c \in Client, Invoke(c) PROVE TypeInv'
  <2>1. PICK x \in Call : Sensible(x) /\ call' = [call EXCEPT ![c] = x]
                        /\ labels' = labels \cup Wanted(x)
                        /\ shared' = shared \cup (Wanted(x) \cap labels)
    BY <1>2 DEF Invoke
  <2>2. TypeOK'
    BY <1>2, <2>1, CallFields DEF Invoke, Wanted, TypeOK, tables, Rowed
  <2>3. PodInv' /\ StageInv(c)'
    BY <1>2, <2>1 DEF Invoke, Sensible, TypeOK, tables, PodInv, StageInv
  <2> QED BY <1>1, <1>2, <2>2, <2>3 DEF Step
<1>3. ASSUME NEW c \in Client, Return(c) PROVE TypeInv'
  <2>1. call[c] \in Call /\ pc[c] = "done"
    BY <1>3 DEF Return, StageInv
  <2>2. Stored(c) \subseteq Token \cup Link \cup (Pod \X WebId)
    BY <2>1, CallFields DEF Stored, StageInv, TypeOK, Rowed
  <2>3. TypeOK' /\ PodInv' /\ StageInv(c)'
    BY <1>3, <2>2 DEF Return, TypeOK, tables, Rowed, PodInv, StageInv
  <2> QED BY <1>1, <1>3, <2>3 DEF Step
<1>4. ASSUME NEW c \in Client, CreatePod(c) PROVE TypeInv'
  <2>1. PICK p \in Pod \ DOMAIN pods :
          /\ pods' = Put(pods, p, [base_url |-> call[c].base,
                                   account_id |-> call[c].account])
          /\ given' = Put(given, p, call[c].web)
          /\ row' = [row EXCEPT ![c] = p]
    BY <1>4 DEF CreatePod
  <2>2. /\ call[c] \in Call
        /\ call[c].base \in Url /\ call[c].account \in AccountId
        /\ call[c].web \in WebId \cup {None}
    BY <1>4, CallFields DEF CreatePod, Runs, StageInv
  <2>3. Rowed(pods, Pod, PodRow)' /\ Rowed(given, Pod, WebId \cup {None})'
    BY <2>1, <2>2 DEF TypeOK, PodRow, Rowed, Put
  <2>4. TypeOK'
    BY <1>4, <2>1, <2>3 DEF CreatePod, Runs, TypeOK, Rowed
  <2>5. PodInv'
    BY <1>4, <2>1 DEF CreatePod, Put, PodInv
  <2>6. StageInv(c)'
    BY <1>4, <2>1, <2>2 DEF CreatePod, Runs, Put, TypeOK, StageInv
  <2> QED BY <1>1, <1>4, <2>4, <2>5, <2>6 DEF Step
<1>5. ASSUME NEW c \in Client, FirstOwner(c) PROVE TypeInv'
  <2>1. row[c] \in DOMAIN pods /\ call[c].web \in WebId /\ call[c] \in Call
    BY <1>5 DEF FirstOwner, Runs, StageInv
  <2>2. /\ Rowed(owners, OwnerId, OwnerRow)'
        /\ \A o \in DOMAIN owners' : owners'[o].pod_id \in DOMAIN pods
    BY <1>5, <2>1, NewOwnerTyped DEF FirstOwner
  <2>3. TypeOK' /\ PodInv' /\ StageInv(c)'
    BY <1>5, <2>2 DEF FirstOwner, Runs, TypeOK, Rowed, PodInv, StageInv
  <2> QED BY <1>1, <1>5, <2>3 DEF Step
<1>6. ASSUME NEW c \in Client, UpdateOwner(c) PROVE TypeInv'
  <2>1. /\ call[c] \in Call /\ call[c].pod \in DOMAIN pods
        /\ call[c].web \in WebId /\ call[c].visible \in BOOLEAN
    BY <1>6, CallFields DEF UpdateOwner, Runs, StageInv
  <2>2. ASSUME NEW o \in Rows(call[c].pod, call[c].web),
               owners' = [owners EXCEPT ![o].visible = call[c].visible]
        PROVE  /\ Rowed(owners, OwnerId, OwnerRow)'
               /\ \A x \in DOMAIN owners' : owners'[x].pod_id \in DOMAIN pods
    BY <2>1, <2>2 DEF Rows, TypeOK, Rowed, OwnerRow, PodInv
  <2>3. /\ Rowed(owners, OwnerId, OwnerRow)'
        /\ \A x \in DOMAIN owners' : owners'[x].pod_id \in DOMAIN pods
    BY <1>6, <2>1, <2>2, NewOwnerTyped DEF UpdateOwner
  <2>4. TypeOK' /\ PodInv' /\ StageInv(c)'
    BY <1>6, <2>3 DEF UpdateOwner, Runs, TypeOK, Rowed, PodInv, StageInv
  <2> QED BY <1>1, <1>6, <2>4 DEF Step
<1>7. ASSUME NEW c \in Client, RemoveOwner(c) PROVE TypeInv'
  <2>1. call[c] \in Call /\ call[c].pod \in Pod /\ call[c].web \in WebId
    BY <1>7, CallFields DEF RemoveOwner, Runs, StageInv
  <2>2. /\ Rowed(owners, OwnerId, OwnerRow)'
        /\ \A x \in DOMAIN owners' : owners'[x].pod_id \in DOMAIN pods
    BY <1>7 DEF RemoveOwner, Drop, Restrict, TypeOK, Rowed, PodInv
  <2>3. TypeOK' /\ PodInv' /\ StageInv(c)'
    BY <1>7, <2>1, <2>2 DEF RemoveOwner, Runs, TypeOK, Rowed, PodInv, StageInv
  <2> QED BY <1>1, <1>7, <2>3 DEF Step
<1>8. ASSUME NEW c \in Client, CreateToken(c) PROVE TypeInv'
  <2>1. PICK t \in Token \ (DOMAIN by_id \cup removed) :
          /\ by_id' = Put(by_id, t, [label |-> call[c].label, web_id |-> call[c].web,
                                     account_id |-> call[c].account])
          /\ row' = [row EXCEPT ![c] = t]
    BY <1>8 DEF CreateToken
  <2>2. /\ call[c] \in Call /\ call[c].label \in Label
        /\ call[c].web \in WebId /\ call[c].account \in AccountId
    BY <1>8, CallFields DEF CreateToken, Runs, StageInv
  <2>3. Rowed(by_id, Token, ClientCredentials)' /\ t \in DOMAIN by_id'
    BY <2>1, <2>2 DEF TypeOK, Rowed, Put, ClientCredentials
  <2>4. TypeOK' /\ PodInv'
    BY <1>8, <2>1, <2>3 DEF CreateToken, Runs, TypeOK, Rowed, PodInv
  <2>5. StageInv(c)'
    BY <1>8, <2>1, <2>2, <2>3 DEF CreateToken, Runs, TypeOK, StageInv
  <2> QED BY <1>1, <1>8, <2>4, <2>5 DEF Step
<1>9. ASSUME NEW c \in Client, IndexToken(c) PROVE TypeInv'
  <2>1. call[c] \in Call /\ call[c].label \in Label /\ row[c] \in Token
    BY <1>9, CallFields DEF IndexToken, Runs, StageInv
  <2>2. Rowed(by_label, Label, Token)'
    BY <1>9, <2>1 DEF IndexToken, TypeOK, Rowed, Put
  <2>3. TypeOK' /\ PodInv' /\ StageInv(c)'
    BY <1>9, <2>1, <2>2 DEF IndexToken, Runs, TypeOK, Rowed, PodInv, StageInv
  <2> QED BY <1>1, <1>9, <2>3 DEF Step
<1>10. ASSUME NEW c \in Client, DeleteToken(c) PROVE TypeInv'
  <2>1. call[c] \in Call /\ call[c].token \in Token
    BY <1>10, CallFields DEF DeleteToken, Runs, StageInv
  <2>2. Rowed(by_id, Token, ClientCredentials)'
    BY <1>10 DEF DeleteToken, TypeOK, Rowed, Drop, Restrict
  <2>3. call[c].token \in DOMAIN by_id => by_id[call[c].token].label \in Label
    BY DEF TypeOK, Rowed, ClientCredentials
  <2>4. TypeOK' /\ PodInv' /\ StageInv(c)'
    BY <1>10, <2>1, <2>2, <2>3 DEF DeleteToken, Runs, TypeOK, Rowed, PodInv, StageInv
  <2> QED BY <1>1, <1>10, <2>4 DEF Step
<1>11. ASSUME NEW c \in Client, UnindexToken(c) PROVE TypeInv'
  <2>1. Rowed(by_label, Label, Token)'
    BY <1>11 DEF UnindexToken, TypeOK, Rowed, Drop, Restrict
  <2>2. TypeOK' /\ PodInv' /\ StageInv(c)'
    BY <1>11, <2>1 DEF UnindexToken, Runs, TypeOK, Rowed, PodInv, StageInv
  <2> QED BY <1>1, <1>11, <2>2 DEF Step
<1>12. ASSUME NEW c \in Client, FindId(c) PROVE TypeInv'
  <2>1. TypeOK' /\ PodInv' /\ StageInv(c)'
    BY <1>12 DEF FindId, Runs, TypeOK, tables, Rowed, PodInv, StageInv
  <2> QED BY <1>1, <1>12, <2>1 DEF Step
<1>13. ASSUME NEW c \in Client, FindToken(c) PROVE TypeInv'
  <2>1. TypeOK' /\ PodInv' /\ StageInv(c)'
    BY <1>13 DEF FindToken, Runs, TypeOK, tables, Rowed, PodInv, StageInv
  <2> QED BY <1>1, <1>13, <2>1 DEF Step
<1>14. ASSUME NEW c \in Client, CreateLink(c) PROVE TypeInv'
  <2>1. PICK l \in Link \ (DOMAIN links \cup removed) :
          /\ links' = Put(links, l, [web_id |-> call[c].web,
                                     account_id |-> call[c].account])
          /\ row' = [row EXCEPT ![c] = l]
    BY <1>14 DEF CreateLink
  <2>2. call[c] \in Call /\ call[c].web \in WebId /\ call[c].account \in AccountId
    BY <1>14, CallFields DEF CreateLink, Runs, StageInv
  <2>3. Rowed(links, Link, WebIdLink)' /\ l \in DOMAIN links'
    BY <2>1, <2>2 DEF TypeOK, Rowed, Put, WebIdLink
  <2>4. TypeOK' /\ PodInv'
    BY <1>14, <2>1, <2>3 DEF CreateLink, Runs, TypeOK, Rowed, PodInv
  <2>5. StageInv(c)'
    BY <1>14, <2>1, <2>2, <2>3 DEF CreateLink, Runs, TypeOK, StageInv
  <2> QED BY <1>1, <1>14, <2>4, <2>5 DEF Step
<1>15. ASSUME NEW c \in Client, DeleteLink(c) PROVE TypeInv'
  <2>1. call[c] \in Call /\ call[c].link \in Link
    BY <1>15, CallFields DEF DeleteLink, Runs, StageInv
  <2>2. Rowed(links, Link, WebIdLink)'
    BY <1>15 DEF DeleteLink, TypeOK, Rowed, Drop, Restrict
  <2>3. TypeOK' /\ PodInv' /\ StageInv(c)'
    BY <1>15, <2>1, <2>2 DEF DeleteLink, Runs, TypeOK, Rowed, PodInv, StageInv
  <2> QED BY <1>1, <1>15, <2>3 DEF Step
<1>16. CASE UNCHANGED vars
  BY <1>16 DEF vars, tables, clients, history, TypeOK, Rowed, PodInv, StageInv
<1> QED
  BY <1>2, <1>3, <1>4, <1>5, <1>6, <1>7, <1>8, <1>9, <1>10, <1>11, <1>12,
     <1>13, <1>14, <1>15, <1>16 DEF Next, Step

\* The tables, the calls and the histories of the three stores keep their types
\* (TypeOK), for any callers, ids and labels.
THEOREM TypeCorrect == Spec => []TypeOK
<1>1. TypeInv => TypeOK
  BY DEF TypeInv
<1> QED BY <1>1, TypeInit, TypeNext, PTL DEF Spec

-----------------------------------------------------------------------------
(* What was acknowledged stays.                                              *)

\* A row of a new owner joins the rows of its pod and WebID, and no others.
LEMMA NewOwnerRows ==
  ASSUME NEW q, NEW v, NEW visible, NewOwner(q, v, visible)
  PROVE  \E o \in OwnerId \ DOMAIN owners :
           /\ Rows(q, v)' = Rows(q, v) \cup {o}
           /\ \A p, w : p # q \/ w # v => Rows(p, w)' = Rows(p, w)
<1>1. PICK o \in OwnerId \ DOMAIN owners :
        owners' = Put(owners, o, [pod_id |-> q, web_id |-> v, visible |-> visible])
  BY DEF NewOwner
<1> QED BY <1>1 DEF Put, Rows

LEMMA NewOwnerHasRow ==
  ASSUME NEW q, NEW v, NEW visible, NewOwner(q, v, visible)
  PROVE  Rows(q, v) \subseteq Rows(q, v)' /\ Rows(q, v)' # {}
BY NewOwnerRows

LEMMA OwnersAreRows ==
  /\ \A p, w : w \in Owners(p) <=> Rows(p, w) # {}
  /\ \A p, w : w \in Owners(p)' <=> Rows(p, w)' # {}
BY DEF Owners, Rows

\* What update_owner leaves of the rows of any pod and WebID.
LEMMA UpdateOwnerRows ==
  ASSUME TypeInv, NEW c \in Client, UpdateOwner(c),
         NEW q, NEW v, q = call[c].pod, v = call[c].web
  PROVE  \/ \A p, w : Rows(p, w)' = Rows(p, w)
         \/ /\ Rows(q, v) = {}
            /\ \E o : Rows(q, v)' = {o}
            /\ \A p, w : p # q \/ w # v => Rows(p, w)' = Rows(p, w)
<1>1. ASSUME NEW o \in Rows(q, v),
             owners' = [owners EXCEPT ![o].visible = call[c].visible]
      PROVE  \A p, w : Rows(p, w)' = Rows(p, w)
  BY <1>1 DEF Rows, TypeInv, TypeOK, Rowed, OwnerRow
<1>2. ASSUME Rows(q, v) = {}, NEW visible, NewOwner(q, v, visible)
      PROVE  /\ \E o : Rows(q, v)' = {o}
             /\ \A p, w : p # q \/ w # v => Rows(p, w)' = Rows(p, w)
  <2>1. PICK o \in OwnerId \ DOMAIN owners :
          /\ Rows(q, v)' = Rows(q, v) \cup {o}
          /\ \A p, w : p # q \/ w # v => Rows(p, w)' = Rows(p, w)
    BY <1>2, NewOwnerRows
  <2>2. Rows(q, v)' = {o}
    BY <1>2, <2>1
  <2> QED BY <2>1, <2>2
<1>3. \/ \E o \in Rows(q, v) : owners' = [owners EXCEPT ![o].visible = call[c].visible]
      \/ Rows(q, v) = {} /\ NewOwner(q, v, call[c].visible)
  BY DEF UpdateOwner
<1> QED BY <1>1, <1>2, <1>3

LEMMA KeptStays ==
  ASSUME TypeInv, NEW c \in Client, Step(c), NEW p, NEW w, Kept(p, w)
  PROVE  Kept(p, w)'
<1> USE OwnersAreRows DEF Kept
<1>1. removed \subseteq removed'
  BY Monotone DEF TypeInv
<1>2. CASE FirstOwner(c)
  <2>1. ASSUME NEW q, NEW v, NewOwner(q, v, FALSE)
        PROVE  Rows(p, w) \subseteq Rows(p, w)'
    BY <2>1, NewOwnerRows
  <2>2. Rows(p, w) \subseteq Rows(p, w)'
    BY <1>2, <2>1 DEF FirstOwner
  <2> QED BY <1>1, <2>2
<1>3. CASE UpdateOwner(c)
  BY <1>1, <1>3, UpdateOwnerRows
<1>4. CASE RemoveOwner(c)
  <2>1. <<call[c].pod, call[c].web>> \in removed'
    BY <1>4 DEF RemoveOwner
  <2>2. ASSUME p # call[c].pod \/ w # call[c].web PROVE Rows(p, w)' = Rows(p, w)
    BY <1>4, <2>2 DEF RemoveOwner, Rows, Drop, Restrict
  <2> QED BY <1>1, <2>1, <2>2
<1>5. CASE owners' = owners
  BY <1>1, <1>5 DEF Owners
<1>6. FirstOwner(c) \/ UpdateOwner(c) \/ RemoveOwner(c) \/ owners' = owners
  BY DEF Step, Invoke, Return, CreatePod, CreateToken, IndexToken, DeleteToken,
         UnindexToken, FindId, FindToken, CreateLink, DeleteLink, tables
<1> QED BY <1>2, <1>3, <1>4, <1>5, <1>6

\* The critical sections that store an owner.
LEMMA StoredOwnerKept ==
  ASSUME TypeInv, NEW c \in Client, FirstOwner(c) \/ UpdateOwner(c),
         NEW p, NEW w, w = call[c].web,
         p = IF FirstOwner(c) THEN row[c] ELSE call[c].pod
  PROVE  Kept(p, w)'
<1>1. CASE FirstOwner(c)
  <2>1. NewOwner(p, w, FALSE)
    BY <1>1 DEF FirstOwner
  <2>2. Rows(p, w)' # {}
    BY <2>1, NewOwnerHasRow, Zenon
  <2> QED BY <2>2, OwnersAreRows DEF Kept
<1>2. CASE ~FirstOwner(c) /\ UpdateOwner(c)
  <2>1. ASSUME Rows(p, w) = {} PROVE Rows(p, w)' # {}
    <3>1. NewOwner(p, w, call[c].visible)
      BY <1>2, <2>1 DEF UpdateOwner
    <3> QED BY <3>1, NewOwnerRows
  <2>2. ASSUME Rows(p, w) # {} PROVE Rows(p, w)' # {}
    BY <1>2, <2>2, UpdateOwnerRows
  <2> QED BY <2>1, <2>2, OwnersAreRows DEF Kept
<1> QED BY <1>1, <1>2

LEMMA AckInit == Init => AckInv
BY DEF Init, AckInv

LEMMA AckNext == TypeInv /\ AckInv /\ [Next]_vars => AckInv'
<1> SUFFICES ASSUME TypeInv, AckInv, [Next]_vars PROVE AckInv'
  OBVIOUS
<1>1. ASSUME NEW c \in Client, Step(c) PROVE AckInv'
  <2> DEFINE Told(p, w) ==
        \/ <<p, w>> \in acked
        \/ /\ Return(c) /\ call[c].op = "create_pod"
           /\ call[c].web # None /\ p = row[c] /\ w = call[c].web
        \/ /\ Return(c) /\ call[c].op = "update_owner"
           /\ p = call[c].pod /\ w = call[c].web
  <2>1. acked' = IF Return(c) THEN acked \cup Stored(c) ELSE acked
    BY <1>1 DEF Step, Return, Invoke, CreatePod, FirstOwner, UpdateOwner,
                RemoveOwner, CreateToken, IndexToken, DeleteToken, UnindexToken,
                FindId, FindToken, CreateLink, DeleteLink, Runs
  <2>2. ASSUME Return(c)
        PROVE  /\ call[c].op = "create_token" => row[c] \in Token \cap (DOMAIN by_id \cup removed)
               /\ call[c].op = "create_link" => row[c] \in Link \cap (DOMAIN links \cup removed)
    BY <2>2 DEF Return, TypeInv, StageInv
  <2>3. ASSUME NEW p \in Pod, NEW w \in WebId, <<p, w>> \in acked' PROVE Kept(p, w)'
    <3>1. Told(p, w)
      BY <2>1, <2>2, <2>3, IdAssumption DEF Stored
    <3>2. Kept(p, w)
      BY <3>1 DEF AckInv, Return
    <3> QED BY <1>1, <3>2, KeptStays
  <2>4. ASSUME NEW t \in acked', t \in Token PROVE t \in DOMAIN by_id' \cup removed'
    <3>1. Return(c) /\ t \notin acked => t \in DOMAIN by_id \cup removed
      <4>1. SUFFICES ASSUME Return(c), t \in Stored(c)
                     PROVE  t \in DOMAIN by_id \cup removed
        BY <2>1, <2>4
      <4>2. call[c] \in Call /\ pc[c] = "done"
        BY <4>1 DEF Return, TypeInv, StageInv
      <4>3. call[c].op = "create_pod" => row[c] \in Pod
        BY <4>2 DEF TypeInv, StageInv, TypeOK, Rowed
      <4> QED BY <2>2, <2>4, <4>1, <4>2, <4>3, CallFields, IdAssumption DEF Stored
    <3> QED BY <1>1, <2>1, <2>4, <3>1, Monotone DEF AckInv, TypeInv
  <2>5. ASSUME NEW l \in acked', l \in Link PROVE l \in DOMAIN links' \cup removed'
    <3>1. Return(c) /\ l \notin acked => l \in DOMAIN links \cup removed
      <4>1. SUFFICES ASSUME Return(c), l \in Stored(c)
                     PROVE  l \in DOMAIN links \cup removed
        BY <2>1, <2>5
      <4>2. call[c] \in Call /\ pc[c] = "done"
        BY <4>1 DEF Return, TypeInv, StageInv
      <4>3. call[c].op = "create_pod" => row[c] \in Pod
        BY <4>2 DEF TypeInv, StageInv, TypeOK, Rowed
      <4> QED BY <2>2, <2>5, <4>1, <4>2, <4>3, CallFields, IdAssumption DEF Stored
    <3> QED BY <1>1, <2>1, <2>5, <3>1, Monotone DEF AckInv, TypeInv
  <2>6. ASSUME NEW d \in Client, pc'[d] = "done", NEW p, NEW w, w = call'[d].web,
               \/ call'[d].op = "create_pod" /\ p = row'[d] /\ w # None
               \/ call'[d].op = "update_owner" /\ p = call'[d].pod
        PROVE  Kept(p, w)'
    <3>1. CASE d # c
      <4>1. pc'[d] = pc[d] /\ call'[d] = call[d] /\ row'[d] = row[d]
        BY <1>1, <3>1, Others DEF TypeInv
      <4>2. Kept(p, w)
        BY <2>6, <4>1 DEF AckInv
      <4> QED BY <1>1, <4>2, KeptStays
    <3>2. CASE d = c
      <4>1. FirstOwner(c) \/ UpdateOwner(c)
        BY <1>1, <2>6, <3>2 DEF TypeInv, TypeOK, Step, Return, Invoke, CreatePod,
           RemoveOwner, CreateToken, IndexToken, DeleteToken, UnindexToken,
           FindId, FindToken, CreateLink, DeleteLink, Runs
      <4>2. w = call[c].web /\ p = IF FirstOwner(c) THEN row[c] ELSE call[c].pod
        BY <2>6, <3>2, <4>1 DEF FirstOwner, UpdateOwner, Runs
      <4> QED BY <4>1, <4>2, StoredOwnerKept
    <3> QED BY <3>1, <3>2
  <2>7. \A p \in Pod, w \in WebId : <<p, w>> \in acked' => Kept(p, w)'
    BY <2>3
  <2>8. \A d \in Client :
          pc'[d] = "done" =>
            /\ call'[d].op = "create_pod" /\ call'[d].web # None =>
                 Kept(row[d], call[d].web)'
            /\ call'[d].op = "update_owner" => Kept(call[d].pod, call[d].web)'
    BY <2>6 DEF Kept, Owners
  <2> QED BY <2>4, <2>5, <2>7, <2>8 DEF AckInv
<1>2. CASE UNCHANGED vars
  BY <1>2 DEF vars, tables, clients, history, AckInv, Kept, Owners
<1> QED BY <1>1, <1>2 DEF Next

\* What a returned call has stored is there until somebody removes it, for any
\* callers: owners of pods, tokens and links (AcknowledgedStays).
THEOREM AcknowledgedRowsStay == Spec => []AcknowledgedStays
<1>1. TypeInv /\ AckInv => AcknowledgedStays
  BY DEF AckInv, Kept, AcknowledgedStays
<1>2. Init => TypeInv /\ AckInv
  BY TypeInit, AckInit
<1>3. TypeInv /\ AckInv /\ [Next]_vars => (TypeInv /\ AckInv)'
  BY TypeNext, AckNext
<1> QED BY <1>1, <1>2, <1>3, PTL DEF Spec

-----------------------------------------------------------------------------
(* One row for an owner, two for one that create stores.                     *)

LEMMA OwnerInit == Init => OwnerInv
BY DEF Init, PodStoreInit, NoRows, OwnerInv, Creates

\* Only CreatePod brings a call to create's second critical section.
LEMMA CreatesBefore ==
  ASSUME TypeInv, NEW c \in Client, Step(c), ~CreatePod(c),
         NEW d \in Client, NEW p, Creates(d, p)'
  PROVE  Creates(d, p)
<1>1. CASE d # c
  BY <1>1, Others DEF Creates, TypeInv
<1>2. CASE d = c
  BY <1>2 DEF Creates, TypeInv, TypeOK, Step, Return, Invoke, FirstOwner,
     UpdateOwner, RemoveOwner, CreateToken, IndexToken, DeleteToken,
     UnindexToken, FindId, FindToken, CreateLink, DeleteLink, Runs
<1> QED BY <1>1, <1>2

\* A step that leaves no pod and WebID with another row keeps the invariant.
LEMMA OwnersAsBefore ==
  ASSUME TypeInv, OwnerInv, NEW c \in Client, Step(c), pods' = pods, ~CreatePod(c),
         \A p \in DOMAIN pods, w \in WebId :
           Rows(p, w)' \subseteq Rows(p, w) \/ \E o : Rows(p, w)' = {o}
  PROVE  OwnerInv'
<1>1. \A p \in DOMAIN pods : given'[p] = given[p]
  BY Monotone DEF TypeInv
<1>2. \A d \in Client, p \in Pod : Creates(d, p)' => Creates(d, p)
  BY CreatesBefore
<1>3. ASSUME NEW p \in DOMAIN pods, NEW w \in WebId
      PROVE  /\ Pair(Rows(p, w))'
             /\ given'[p] # w \/ (\E d \in Client : Creates(d, p)') => Single(Rows(p, w))'
  <2>1. p \in Pod
    BY DEF TypeInv, TypeOK, Rowed
  <2>2. CASE Rows(p, w)' \subseteq Rows(p, w)
    BY <1>1, <1>2, <2>1, <2>2 DEF OwnerInv, Pair, Single
  <2>3. CASE \E o : Rows(p, w)' = {o}
    BY <2>3 DEF Pair, Single
  <2> QED BY <2>2, <2>3
<1> QED BY <1>2, <1>3 DEF OwnerInv

LEMMA OwnerNext == TypeInv /\ OwnerInv /\ [Next]_vars => OwnerInv'
<1> SUFFICES ASSUME TypeInv, OwnerInv, [Next]_vars PROVE OwnerInv'
  OBVIOUS
<1>1. ASSUME NEW c \in Client, CreatePod(c) PROVE OwnerInv'
  <2>1. PICK p \in Pod \ DOMAIN pods :
          /\ pods' = Put(pods, p, [base_url |-> call[c].base,
                                   account_id |-> call[c].account])
          /\ given' = Put(given, p, call[c].web)
          /\ row' = [row EXCEPT ![c] = p]
    BY <1>1 DEF CreatePod
  <2>2. \A q, w : Rows(q, w)' = Rows(q, w)
    BY <1>1 DEF CreatePod, Rows
  <2>3. \A w : Rows(p, w) = {}
    BY <2>1 DEF Rows, TypeInv, PodInv
  <2>4. \A d \in Client : \A q : d # c => (Creates(d, q)' <=> Creates(d, q))
    BY <1>1, Others DEF Creates, TypeInv, Step
  <2>5. \A d \in Client : ~Creates(d, p)
    BY <2>1 DEF Creates, TypeInv, StageInv
  <2>6. \A q : Creates(c, q)' => q = p
    BY <2>1 DEF Creates, TypeInv, TypeOK
  <2>7. ASSUME NEW q \in DOMAIN pods', NEW w \in WebId
        PROVE  /\ Pair(Rows(q, w))'
               /\ given'[q] # w \/ (\E d \in Client : Creates(d, q)') => Single(Rows(q, w))'
    <3>1. CASE q = p
      BY <2>2, <2>3, <3>1 DEF Pair, Single
    <3>2. CASE q # p
      <4>1. q \in DOMAIN pods /\ given'[q] = given[q]
        BY <2>1, <2>7, <3>2 DEF Put, TypeInv, PodInv
      <4>2. (\E d \in Client : Creates(d, q)') => \E d \in Client : Creates(d, q)
        BY <2>4, <2>6, <3>2
      <4> QED BY <2>2, <4>1, <4>2 DEF OwnerInv, Pair, Single
    <3> QED BY <3>1, <3>2
  <2>8. \A d, e \in Client, q \in Pod : Creates(d, q)' /\ Creates(e, q)' => d = e
    BY <2>4, <2>5, <2>6 DEF OwnerInv
  <2> QED BY <2>7, <2>8 DEF OwnerInv
<1>2. ASSUME NEW c \in Client, FirstOwner(c) PROVE OwnerInv'
  <2>1. PICK q \in DOMAIN pods, v \in WebId :
          q = row[c] /\ v = call[c].web /\ given[q] = v /\ q \in Pod
    BY <1>2 DEF FirstOwner, Runs, TypeInv, StageInv, TypeOK, Rowed
  <2>2. NewOwner(q, v, FALSE)
    BY <1>2, <2>1 DEF FirstOwner
  <2>3. \E o \in OwnerId \ DOMAIN owners :
          /\ Rows(q, v)' = Rows(q, v) \cup {o}
          /\ \A p, w : p # q \/ w # v => Rows(p, w)' = Rows(p, w)
    BY <2>2, NewOwnerRows, Zenon
  <2>4. Creates(c, q) /\ Single(Rows(q, v))
    BY <1>2, <2>1 DEF FirstOwner, Runs, Creates, OwnerInv
  <2>5. \A d \in Client : \A p : Creates(d, p)' => Creates(d, p) /\ d # c
    <3>1. ~CreatePod(c) /\ Step(c)
      BY <1>2 DEF FirstOwner, CreatePod, Runs, Step
    <3>2. \A p : ~Creates(c, p)'
      BY <1>2 DEF FirstOwner, Runs, Creates, TypeInv, TypeOK
    <3> QED BY <3>1, <3>2, CreatesBefore
  <2>6. \A d \in Client : ~Creates(d, q)'
    BY <2>1, <2>4, <2>5 DEF OwnerInv
  <2>7. Pair(Rows(q, v))'
    BY <2>3, <2>4 DEF Pair, Single
  <2>8. ASSUME NEW p \in DOMAIN pods', NEW w \in WebId
        PROVE  /\ Pair(Rows(p, w))'
               /\ given'[p] # w \/ (\E d \in Client : Creates(d, p)') => Single(Rows(p, w))'
    <3>1. p \in DOMAIN pods /\ given' = given
      BY <1>2, <2>8 DEF FirstOwner
    <3>2. CASE p = q /\ w = v
      BY <2>1, <2>6, <2>7, <3>1, <3>2
    <3>3. CASE p # q \/ w # v
      <4>1. Rows(p, w)' = Rows(p, w)
        BY <2>3, <3>3
      <4>2. (\E d \in Client : Creates(d, p)') => \E d \in Client : Creates(d, p)
        BY <2>5
      <4>3. /\ Pair(Rows(p, w))
            /\ given[p] # w \/ (\E d \in Client : Creates(d, p)) => Single(Rows(p, w))
        BY <3>1 DEF OwnerInv
      <4>4. Pair(Rows(p, w))'
        BY <4>1, <4>3 DEF Pair
      <4>5. Single(Rows(p, w)) => Single(Rows(p, w))'
        BY <4>1 DEF Single
      <4> QED BY <3>1, <4>2, <4>3, <4>4, <4>5
    <3> QED BY <3>2, <3>3
  <2> QED BY <2>5, <2>8 DEF OwnerInv
<1>3. ASSUME NEW c \in Client, UpdateOwner(c) PROVE OwnerInv'
  <2>1. PICK q, v : q = call[c].pod /\ v = call[c].web
    OBVIOUS
  <2>2. \A p, w : Rows(p, w)' = Rows(p, w) \/ \E o : Rows(p, w)' = {o}
    BY <1>3, <2>1, UpdateOwnerRows
  <2>3. Step(c) /\ pods' = pods /\ ~CreatePod(c)
    BY <1>3 DEF UpdateOwner, CreatePod, Runs, Step
  <2> QED BY <2>2, <2>3, OwnersAsBefore
<1>4. ASSUME NEW c \in Client, RemoveOwner(c) PROVE OwnerInv'
  <2>1. \A p, w : Rows(p, w)' \subseteq Rows(p, w)
    BY <1>4 DEF RemoveOwner, Rows, Drop, Restrict
  <2>2. Step(c) /\ pods' = pods /\ ~CreatePod(c)
    BY <1>4 DEF RemoveOwner, CreatePod, Runs, Step
  <2> QED BY <2>1, <2>2, OwnersAsBefore
<1>5. ASSUME NEW c \in Client, Step(c), ~CreatePod(c), ~FirstOwner(c),
             ~UpdateOwner(c), ~RemoveOwner(c)
      PROVE  OwnerInv'
  <2>1. owners' = owners /\ pods' = pods
    BY <1>5 DEF Step, Return, Invoke, CreateToken, IndexToken, DeleteToken,
       UnindexToken, FindId, FindToken, CreateLink, DeleteLink, tables
  <2>2. \A p, w : Rows(p, w)' = Rows(p, w)
    BY <2>1 DEF Rows
  <2> QED BY <1>5, <2>1, <2>2, OwnersAsBefore
<1>6. CASE UNCHANGED vars
  BY <1>6 DEF vars, tables, clients, history, OwnerInv, Rows, Creates
<1> QED BY <1>1, <1>2, <1>3, <1>4, <1>5, <1>6 DEF Next

LEMMA SingleIsOne ==
  ASSUME NEW S, Single(S)
  PROVE  Cardinality(S) <= 1
<1>1. CASE S = {}
  BY <1>1, FS_EmptySet
<1>2. ASSUME NEW x \in S PROVE Cardinality(S) = 1
  <2>1. S = {x}
    BY <1>2 DEF Single
  <2> QED BY <2>1, FS_Singleton
<1> QED BY <1>1, <1>2

LEMMA PairIsTwo ==
  ASSUME NEW S, Pair(S)
  PROVE  Cardinality(S) <= 2
<1>1. PICK x, y : S \subseteq {x, y}
  BY DEF Pair
<1>2. IsFiniteSet({x}) /\ Cardinality({x}) = 1
  BY FS_Singleton
<1>3. /\ IsFiniteSet({x} \cup {y})
      /\ Cardinality({x} \cup {y}) = 1 \/ Cardinality({x} \cup {y}) = 2
  BY <1>2, FS_AddElement
<1>4. S \subseteq {x} \cup {y}
  BY <1>1
<1> QED BY <1>3, <1>4, FS_Subset, FS_CardinalityType

\* However create and update_owner interleave, an owner has one row, or two if
\* it is the one its pod was created with (OneRowPerOwner).
THEOREM OwnersHaveOneRow == Spec => []OneRowPerOwner
<1>1. TypeInv /\ OwnerInv => OneRowPerOwner
  <2> SUFFICES ASSUME TypeInv, OwnerInv, NEW p \in DOMAIN pods, NEW w \in WebId
               PROVE  Cardinality(Rows(p, w)) <= IF given[p] = w THEN 2 ELSE 1
    BY DEF OneRowPerOwner
  <2> QED BY SingleIsOne, PairIsTwo DEF OwnerInv
<1>2. Init => TypeInv /\ OwnerInv
  BY TypeInit, OwnerInit
<1>3. TypeInv /\ OwnerInv /\ [Next]_vars => (TypeInv /\ OwnerInv)'
  BY TypeNext, OwnerNext
<1> QED BY <1>1, <1>2, <1>3, PTL DEF Spec

-----------------------------------------------------------------------------
(* A label leads to its token.                                               *)

LEMMA LabelInit == Init => LabelInv
BY DEF Init, TokenStoreInit, NoRows, LabelInv, LabelsAreUnique, LabelsLead,
       TokensIndexed, Asks, Unused, Gone, Leads, Made

\* The steps that touch tokens and labels.
TokenStep(c) ==
  CreateToken(c) \/ IndexToken(c) \/ DeleteToken(c) \/ UnindexToken(c)

LEMMA TokenFrame ==
  ASSUME NEW c \in Client, Step(c)
  PROVE  /\ CreateToken(c) \/ DeleteToken(c) \/ by_id' = by_id
         /\ IndexToken(c) \/ UnindexToken(c) \/ by_label' = by_label
         /\ Return(c) \/ acked' = acked
<1>1. CASE TokenStep(c)
  BY <1>1 DEF TokenStep, CreateToken, IndexToken, DeleteToken, UnindexToken, Runs
<1>2. CASE ~TokenStep(c)
  BY <1>2 DEF TokenStep, Step, Return, Invoke, CreatePod, FirstOwner, UpdateOwner,
     RemoveOwner, FindId, FindToken, CreateLink, DeleteLink, Runs, tables
<1> QED BY <1>1, <1>2

\* Who asks for a label has asked for it before, or is the first to, or the
\* label is shared from now on.
LEMMA AsksBefore ==
  ASSUME TypeInv, NEW c \in Client, Step(c), NEW d \in Client, NEW l, Asks(d, l)'
  PROVE  \/ Asks(d, l) /\ d # c
         \/ d = c /\ l \in Label /\ l \in labels' /\ Invoke(c)
            /\ (l \notin labels \/ l \in shared')
<1>1. CASE d # c
  BY <1>1, Others DEF Asks, TypeInv
<1>2. CASE d = c /\ Invoke(c)
  <2>1. PICK x \in Call : Sensible(x) /\ call' = [call EXCEPT ![c] = x]
                        /\ labels' = labels \cup Wanted(x)
                        /\ shared' = shared \cup (Wanted(x) \cap labels)
    BY <1>2 DEF Invoke
  <2>2. call'[c] = x
    BY <2>1 DEF TypeInv, TypeOK
  <2>3. x.op = "create_token" /\ x.label = l
    BY <1>2, <2>2 DEF Asks
  <2> QED BY <1>2, <2>1, <2>3, CallFields DEF Wanted
<1>3. CASE d = c /\ ~Invoke(c)
  <2>1. pc'[c] # "call"
    BY <1>3 DEF Step, Return, CreatePod, FirstOwner, UpdateOwner, RemoveOwner,
       CreateToken, IndexToken, DeleteToken, UnindexToken, FindId, FindToken,
       CreateLink, DeleteLink, Runs, TypeInv, TypeOK
  <2> QED BY <1>3, <2>1 DEF Asks
<1> QED BY <1>1, <1>2, <1>3

\* The token that CreateToken stores.
LEMMA CreatedToken ==
  ASSUME TypeInv, NEW c \in Client, CreateToken(c)
  PROVE  \E t \in Token \ (DOMAIN by_id \cup removed) :
           /\ DOMAIN by_id' = DOMAIN by_id \cup {t}
           /\ by_id'[t].label = call[c].label
           /\ \A u \in DOMAIN by_id : by_id'[u] = by_id[u]
           /\ row'[c] = t
<1>1. PICK t \in Token \ (DOMAIN by_id \cup removed) :
        /\ by_id' = Put(by_id, t, [label |-> call[c].label, web_id |-> call[c].web,
                                   account_id |-> call[c].account])
        /\ row' = [row EXCEPT ![c] = t]
  BY DEF CreateToken
<1> QED BY <1>1 DEF Put, TypeInv, TypeOK

LEMMA DeletedToken ==
  ASSUME NEW c \in Client, DeleteToken(c)
  PROVE  /\ DOMAIN by_id' = DOMAIN by_id \ {call[c].token}
         /\ \A u \in DOMAIN by_id' : by_id'[u] = by_id[u]
         /\ call[c].token \in removed'
BY DEF DeleteToken, Drop, Restrict

LEMMA CreatorAsks ==
  ASSUME TypeInv, NEW c \in Client, CreateToken(c)
  PROVE  Asks(c, call[c].label) /\ call[c].label \in Label
BY CallFields DEF CreateToken, Runs, Asks, TypeInv, StageInv

LEMMA GoneStays ==
  ASSUME TypeInv, NEW c \in Client, Step(c), NEW l, Gone(l)
  PROVE  Gone(l)'
<1> SUFFICES ASSUME l \notin shared' PROVE Gone(l)'
  BY DEF Gone
<1>0. l \notin shared
  BY Monotone DEF TypeInv
<1>1. l \in labels /\ l \in labels' /\ Unused(l) /\ \A d \in Client : ~Asks(d, l)
  BY <1>0, Monotone DEF Gone, TypeInv
<1>2. \A d \in Client : ~Asks(d, l)'
  BY <1>1, AsksBefore
<1>3. Unused(l)'
  <2>1. CASE CreateToken(c)
    <3>1. call[c].label # l
      BY <1>1, <2>1, CreatorAsks
    <3> QED BY <1>1, <2>1, <3>1, CreatedToken DEF Unused
  <2>2. CASE DeleteToken(c)
    BY <1>1, <2>2, DeletedToken DEF Unused
  <2>3. CASE by_id' = by_id
    BY <1>1, <2>3 DEF Unused
  <2> QED BY <2>1, <2>2, <2>3, TokenFrame
<1> QED BY <1>1, <1>2, <1>3 DEF Gone

\* The label of a token that is deleted is gone.
LEMMA DeletedLabelGone ==
  ASSUME TypeInv, LabelsAreUnique, NEW c \in Client, DeleteToken(c),
         call[c].token \in DOMAIN by_id, NEW l, l = by_id[call[c].token].label
  PROVE  Gone(l)'
<1> SUFFICES ASSUME l \notin shared' PROVE Gone(l)'
  BY DEF Gone
<1>0. Step(c)
  BY DEF Step
<1>1. l \in Label /\ l \in labels /\ l \in labels' /\ l \notin shared
  BY <1>0, Monotone DEF TypeInv, TypeOK, Rowed, ClientCredentials, LabelsAreUnique
<1>2. Unused(l)'
  <2>1. \A u \in DOMAIN by_id : by_id[u].label = l => u = call[c].token
    BY <1>1 DEF LabelsAreUnique
  <2>2. \A u \in DOMAIN by_id' :
          u \in DOMAIN by_id /\ u # call[c].token /\ by_id'[u] = by_id[u]
    BY DeletedToken
  <2> QED BY <2>1, <2>2 DEF Unused
<1>3. \A d \in Client : ~Asks(d, l)
  BY <1>1 DEF LabelsAreUnique, Reserved, Unused
<1>4. \A d \in Client : ~Asks(d, l)'
  BY <1>0, <1>1, <1>3, AsksBefore
<1> QED BY <1>1, <1>2, <1>4 DEF Gone

LEMMA LeadsStays ==
  ASSUME TypeInv, LabelsAreUnique, NEW c \in Client, Step(c),
         NEW l, NEW t, Leads(l, t)
  PROVE  Leads(l, t)'
<1>1. removed \subseteq removed'
  BY Monotone DEF TypeInv
<1>2. Gone(l) => Gone(l)'
  BY GoneStays
<1>3. CASE CreateToken(c)
  BY <1>1, <1>2, <1>3, CreatedToken DEF Leads
<1>4. CASE DeleteToken(c)
  <2>1. CASE t = call[c].token /\ t \in DOMAIN by_id
    <3>1. Gone(l)'
      BY <1>4, <2>1, DeletedLabelGone DEF Leads
    <3> QED BY <1>4, <2>1, <3>1, DeletedToken DEF Leads
  <2>2. CASE t # call[c].token /\ t \in DOMAIN by_id
    BY <1>4, <2>2, DeletedToken DEF Leads
  <2>3. CASE t \notin DOMAIN by_id
    BY <1>1, <1>2, <1>4, <2>3, DeletedToken DEF Leads
  <2> QED BY <2>1, <2>2, <2>3
<1>5. CASE by_id' = by_id
  BY <1>1, <1>2, <1>5 DEF Leads
<1> QED BY <1>3, <1>4, <1>5, TokenFrame

LEMMA UniqueNext ==
  ASSUME TypeInv, LabelsAreUnique, NEW c \in Client, Step(c)
  PROVE  LabelsAreUnique'
<1>1. labels \subseteq labels' /\ shared \subseteq shared'
  BY Monotone DEF TypeInv
<1>2. \A t \in DOMAIN by_id' :
        /\ by_id'[t].label \in labels'
        /\ \A u \in DOMAIN by_id' :
             by_id'[t].label = by_id'[u].label => t = u \/ by_id'[t].label \in shared'
  <2>1. CASE CreateToken(c)
    <3>1. /\ call[c].label \in labels
          /\ call[c].label \in shared \/ Unused(call[c].label)
      BY <2>1, CreatorAsks DEF LabelsAreUnique, Reserved
    <3>2. PICK t \in Token \ (DOMAIN by_id \cup removed) :
            /\ DOMAIN by_id' = DOMAIN by_id \cup {t}
            /\ by_id'[t].label = call[c].label
            /\ \A u \in DOMAIN by_id : by_id'[u] = by_id[u]
      BY <2>1, CreatedToken
    <3> QED BY <1>1, <3>1, <3>2 DEF LabelsAreUnique, Unused
  <2>2. CASE DeleteToken(c)
    BY <1>1, <2>2, DeletedToken DEF LabelsAreUnique
  <2>3. CASE by_id' = by_id
    BY <1>1, <2>3 DEF LabelsAreUnique
  <2> QED BY <2>1, <2>2, <2>3, TokenFrame
<1>3. ASSUME NEW d \in Client, NEW l \in Label, Asks(d, l)', l \notin shared'
      PROVE  l \in labels' /\ Reserved(d, l)'
  <2>0. l \notin shared
    BY <1>1, <1>3
  <2>1. CASE Asks(d, l) /\ d # c
    <3>1. l \in labels /\ Unused(l) /\ \A e \in Client : Asks(e, l) => e = d
      BY <2>0, <2>1 DEF LabelsAreUnique, Reserved
    <3>2. \A e \in Client : Asks(e, l)' => e = d
      BY <1>3, <3>1, AsksBefore
    <3>3. Unused(l)'
      <4>1. CASE CreateToken(c)
        <5>1. call[c].label # l
          BY <2>1, <3>1, <4>1, CreatorAsks
        <5> QED BY <3>1, <4>1, <5>1, CreatedToken DEF Unused
      <4>2. CASE DeleteToken(c)
        BY <3>1, <4>2, DeletedToken DEF Unused
      <4>3. CASE by_id' = by_id
        BY <3>1, <4>3 DEF Unused
      <4> QED BY <4>1, <4>2, <4>3, TokenFrame
    <3> QED BY <1>1, <3>1, <3>2, <3>3 DEF Reserved
  <2>2. CASE d = c /\ l \notin labels /\ l \in labels' /\ Invoke(c)
    <3>1. by_id' = by_id
      BY <2>2 DEF Invoke, tables
    <3>2. Unused(l)'
      BY <2>2, <3>1 DEF LabelsAreUnique, Unused
    <3>3. \A e \in Client : ~Asks(e, l)
      BY <2>2 DEF LabelsAreUnique
    <3>4. \A e \in Client : Asks(e, l)' => e = d
      BY <2>2, <3>3, AsksBefore
    <3> QED BY <2>2, <3>2, <3>4 DEF Reserved
  <2> QED BY <1>3, <2>1, <2>2, AsksBefore
<1>4. ASSUME NEW d \in Client, NEW l \in Label, Asks(d, l)'
      PROVE  l \in labels'
  BY <1>1, <1>4, AsksBefore DEF LabelsAreUnique
<1> QED BY <1>2, <1>3, <1>4 DEF LabelsAreUnique

LEMMA LeadNext ==
  ASSUME TypeInv, LabelsAreUnique, LabelsLead, NEW c \in Client, Step(c)
  PROVE  LabelsLead'
<1>1. \A l, t : Leads(l, t) => Leads(l, t)'
  BY LeadsStays
<1>2. ASSUME NEW l \in DOMAIN by_label', NEW t, t = by_label'[l] PROVE Leads(l, t)'
  <2>1. CASE IndexToken(c) /\ l = call[c].label
    <3>1. t = row[c] /\ Leads(l, t)
      BY <1>2, <2>1 DEF IndexToken, Put, Runs, LabelsLead
    <3> QED BY <1>1, <3>1
  <2>2. CASE ~(IndexToken(c) /\ l = call[c].label)
    <3>1. l \in DOMAIN by_label /\ t = by_label[l]
      <4>1. CASE IndexToken(c)
        BY <1>2, <2>2, <4>1 DEF IndexToken, Put
      <4>2. CASE UnindexToken(c)
        BY <1>2, <4>2 DEF UnindexToken, Drop, Restrict
      <4>3. CASE by_label' = by_label
        BY <1>2, <4>3
      <4> QED BY <4>1, <4>2, <4>3, TokenFrame
    <3>2. Leads(l, t)
      BY <3>1 DEF LabelsLead
    <3> QED BY <1>1, <3>2
  <2> QED BY <2>1, <2>2
<1>3. ASSUME NEW d \in Client, pc'[d] = "second",
             call'[d].op \in {"create_token", "find_by_label"},
             NEW l, NEW t, l = call'[d].label, t = row'[d]
      PROVE  Leads(l, t)'
  <2>1. CASE d # c
    <3>1. Leads(l, t)
      BY <1>3, <2>1, Others DEF LabelsLead, TypeInv
    <3> QED BY <1>1, <3>1
  <2>2. CASE d = c /\ CreateToken(c)
    BY <1>3, <2>2, CreatedToken DEF Leads, CreateToken, Runs
  <2>3. CASE d = c /\ FindId(c)
    <3>1. Leads(l, t)
      BY <1>3, <2>3 DEF FindId, Runs, LabelsLead, TypeInv, TypeOK
    <3> QED BY <1>1, <3>1
  <2>4. d = c => CreateToken(c) \/ FindId(c)
    BY <1>3 DEF Step, Return, Invoke, CreatePod, FirstOwner, UpdateOwner,
       RemoveOwner, IndexToken, DeleteToken, UnindexToken, FindToken, CreateLink,
       DeleteLink, Runs, TypeInv, TypeOK
  <2> QED BY <2>1, <2>2, <2>3, <2>4
<1>4. ASSUME NEW d \in Client, pc'[d] = "second", call'[d].op = "delete_token",
             NEW l, l = row'[d]
      PROVE  Gone(l)'
  <2>1. CASE d # c
    <3>1. Gone(l)
      BY <1>4, <2>1, Others DEF LabelsLead, TypeInv
    <3> QED BY <3>1, GoneStays
  <2>2. CASE d = c
    <3>1. DeleteToken(c)
      BY <1>4, <2>2 DEF Step, Return, Invoke, CreatePod, FirstOwner, UpdateOwner,
         RemoveOwner, CreateToken, IndexToken, UnindexToken, FindId, FindToken,
         CreateLink, DeleteLink, Runs, TypeInv, TypeOK
    <3>2. call[c].token \in DOMAIN by_id /\ l = by_id[call[c].token].label
      BY <1>4, <2>2, <3>1 DEF DeleteToken, Runs, TypeInv, TypeOK
    <3> QED BY <3>1, <3>2, DeletedLabelGone
  <2> QED BY <2>1, <2>2
<1>5. \A l \in DOMAIN by_label' : Leads(l, by_label[l])'
  BY <1>2 DEF Leads, Gone, Unused, Asks
<1>6. \A d \in Client :
        pc'[d] = "second" =>
          /\ call'[d].op \in {"create_token", "find_by_label"} =>
               Leads(call[d].label, row[d])'
          /\ call'[d].op = "delete_token" => Gone(row[d])'
  BY <1>3, <1>4 DEF Leads, Gone, Unused, Asks
<1> QED BY <1>5, <1>6 DEF LabelsLead

LEMMA IndexedNext ==
  ASSUME TypeInv, AckInv, LabelInv, NEW c \in Client, Step(c)
  PROVE  TokensIndexed'
<1> USE DEF LabelInv
<1>1. ASSUME NEW t \in DOMAIN by_id', t \in acked' \/ \E d \in Client : Made(d, t)'
      PROVE  \/ /\ t \in DOMAIN by_id /\ by_id'[t].label = by_id[t].label
                /\ by_id[t].label \in DOMAIN by_label \cup shared
             \/ IndexToken(c) /\ t = row[c] /\ t \in DOMAIN by_id /\ by_id' = by_id
  <2>1. t \in Token
    <3>1. Rowed(by_id, Token, ClientCredentials)'
      BY <1>1, TypeNext DEF TypeInv, TypeOK, Next
    <3> QED BY <1>1, <3>1 DEF Rowed
  <2>2. t \in acked' => t \in acked \/ Made(c, t)
    <3>1. CASE Return(c)
      <4>1. call[c] \in Call /\ pc[c] = "done" /\ acked' = acked \cup Stored(c)
        BY <3>1 DEF Return, TypeInv, StageInv
      <4>2. /\ call[c].op = "create_pod" => row[c] \in Pod
            /\ call[c].op = "create_link" => row[c] \in Link
        BY <4>1 DEF TypeInv, StageInv, TypeOK, Rowed
      <4> QED BY <2>1, <4>1, <4>2, CallFields, IdAssumption DEF Stored, Made
    <3>2. CASE acked' = acked
      BY <3>2
    <3> QED BY <3>1, <3>2, TokenFrame
  <2>3. (\E d \in Client : Made(d, t)') =>
          (\E d \in Client : Made(d, t)) \/ (IndexToken(c) /\ t = row[c])
    <3> SUFFICES ASSUME NEW d \in Client, Made(d, t)'
                 PROVE  Made(d, t) \/ (IndexToken(c) /\ t = row[c])
      OBVIOUS
    <3>1. CASE d # c
      BY <3>1, Others DEF Made, TypeInv
    <3>2. CASE d = c
      <4>1. IndexToken(c)
        BY <3>2 DEF Made, Step, Return, Invoke, CreatePod, FirstOwner, UpdateOwner,
           RemoveOwner, CreateToken, DeleteToken, UnindexToken, FindId, FindToken,
           CreateLink, DeleteLink, Runs, TypeInv, TypeOK
      <4> QED BY <3>2, <4>1 DEF Made, IndexToken
    <3> QED BY <3>1, <3>2
  <2>4. t \in acked \/ (\E d \in Client : Made(d, t)) \/ (IndexToken(c) /\ t = row[c])
    BY <1>1, <2>2, <2>3
  <2>5. CASE IndexToken(c) /\ t = row[c]
    BY <1>1, <2>5 DEF IndexToken
  <2>6. CASE t \in acked \/ \E d \in Client : Made(d, t)
    <3>1. t \in DOMAIN by_id \cup removed
      BY <2>1, <2>6 DEF AckInv, Made, TypeInv, StageInv
    <3>2. t \in DOMAIN by_id /\ by_id'[t] = by_id[t]
      <4>1. CASE CreateToken(c)
        BY <1>1, <3>1, <4>1, CreatedToken
      <4>2. CASE DeleteToken(c)
        BY <1>1, <4>2, DeletedToken
      <4>3. CASE by_id' = by_id
        BY <1>1, <4>3
      <4> QED BY <4>1, <4>2, <4>3, TokenFrame
    <3> QED BY <2>6, <3>2 DEF TokensIndexed
  <2> QED BY <2>4, <2>5, <2>6
<1>2. ASSUME NEW t \in DOMAIN by_id', t \in acked' \/ \E d \in Client : Made(d, t)'
      PROVE  by_id'[t].label \in DOMAIN by_label' \cup shared'
  <2>1. CASE IndexToken(c) /\ t = row[c] /\ t \in DOMAIN by_id /\ by_id' = by_id
    <3>1. by_id[t].label = call[c].label
      BY <2>1 DEF IndexToken, Runs, LabelsLead, Leads
    <3> QED BY <2>1, <3>1 DEF IndexToken, Put
  <2>2. CASE /\ t \in DOMAIN by_id /\ by_id'[t].label = by_id[t].label
             /\ by_id[t].label \in DOMAIN by_label \cup shared
    <3>0. shared \subseteq shared'
      BY Monotone DEF TypeInv
    <3>1. CASE IndexToken(c)
      BY <2>2, <3>0, <3>1 DEF IndexToken, Put
    <3>2. CASE UnindexToken(c)
      <4>1. Gone(row[c]) /\ by_label' = Drop(by_label, row[c])
        BY <3>2 DEF UnindexToken, Runs, LabelsLead
      <4> QED BY <2>2, <3>0, <4>1 DEF Gone, Unused, Drop, Restrict
    <3>3. CASE by_label' = by_label
      BY <2>2, <3>0, <3>3
    <3> QED BY <3>1, <3>2, <3>3, TokenFrame
  <2> QED BY <1>1, <1>2, <2>1, <2>2
<1> QED BY <1>2 DEF TokensIndexed

LEMMA LabelNext == TypeInv /\ AckInv /\ LabelInv /\ [Next]_vars => LabelInv'
<1> SUFFICES ASSUME TypeInv, AckInv, LabelInv, [Next]_vars PROVE LabelInv'
  OBVIOUS
<1>1. ASSUME NEW c \in Client, Step(c) PROVE LabelInv'
  BY <1>1, UniqueNext, LeadNext, IndexedNext DEF LabelInv
<1>2. CASE UNCHANGED vars
  <2> USE DEF Asks, Unused, Gone, Leads, Made, Reserved
  <2>1. LabelsAreUnique'
    BY <1>2 DEF vars, tables, clients, history, LabelInv, LabelsAreUnique
  <2>2. LabelsLead'
    BY <1>2 DEF vars, tables, clients, history, LabelInv, LabelsLead
  <2>3. TokensIndexed'
    BY <1>2 DEF vars, tables, clients, history, LabelInv, TokensIndexed
  <2> QED BY <2>1, <2>2, <2>3 DEF LabelInv
<1> QED BY <1>1, <1>2 DEF Next

\* What a find_by_label that ends here may answer.
LEMMA FindAnswers ==
  ASSUME TypeInv, LabelInv, NEW c \in Client, FindId(c) \/ FindToken(c),
         pc'[c] = "done"
  PROVE  IF row'[c] = None
         THEN \/ call[c].label \in shared
              \/ \A t \in acked \cap DOMAIN by_id : by_id[t].label # call[c].label
         ELSE by_id[row'[c]].label = call[c].label
<1>1. CASE FindId(c)
  <2>1. call[c].label \notin DOMAIN by_label /\ row'[c] = None
    BY <1>1 DEF FindId, Runs, TypeInv, TypeOK, StageInv
  <2> QED BY <2>1 DEF LabelInv, TokensIndexed
<1>2. CASE FindToken(c)
  <2>1. Leads(call[c].label, row[c]) /\ row[c] # None
    BY <1>2, NoneAssumption DEF FindToken, Runs, LabelInv, LabelsLead, TypeInv, StageInv
  <2>2. row'[c] = IF row[c] \in DOMAIN by_id THEN row[c] ELSE None
    BY <1>2 DEF FindToken, TypeInv, TypeOK
  <2> QED BY <2>1, <2>2 DEF Leads, Gone, Unused
<1> QED BY <1>1, <1>2

\* find_by_label reads two maps that change in between, and still answers with a
\* token of the label, or with none only if no such token has been handed out
\* or several have (FoundByLabel), for any callers and labels.
THEOREM LabelsLeadToTokens == Spec => FoundByLabel
<1>1. TypeInv /\ LabelInv /\ [Next]_vars =>
        [\A c \in Client :
           pc[c] # "done" /\ pc'[c] = "done" /\ call[c].op = "find_by_label" =>
             IF row'[c] = None
             THEN \/ call[c].label \in shared
                  \/ \A t \in acked \cap DOMAIN by_id :
                       by_id[t].label # call[c].label
             ELSE by_id[row'[c]].label = call[c].label]_vars
  <2> SUFFICES ASSUME TypeInv, LabelInv, Next, NEW c \in Client, pc[c] # "done",
                      pc'[c] = "done", call[c].op = "find_by_label"
               PROVE  IF row'[c] = None
                      THEN \/ call[c].label \in shared
                           \/ \A t \in acked \cap DOMAIN by_id :
                                by_id[t].label # call[c].label
                      ELSE by_id[row'[c]].label = call[c].label
    OBVIOUS
  <2>1. PICK d \in Client : Step(d)
    BY DEF Next
  <2>2. d = c
    BY <2>1, Others DEF TypeInv
  <2>3. FindId(c) \/ FindToken(c)
    BY <2>1, <2>2 DEF Step, Return, Invoke, CreatePod, FirstOwner, UpdateOwner,
       RemoveOwner, CreateToken, IndexToken, DeleteToken, UnindexToken,
       CreateLink, DeleteLink, Runs, TypeInv, TypeOK
  <2> QED BY <2>3, FindAnswers
<1>2. Init => TypeInv /\ AckInv /\ LabelInv
  BY TypeInit, AckInit, LabelInit
<1>3. TypeInv /\ AckInv /\ LabelInv /\ [Next]_vars => (TypeInv /\ AckInv /\ LabelInv)'
  BY TypeNext, AckNext, LabelNext
<1> QED BY <1>1, <1>2, <1>3, PTL DEF Spec, FoundByLabel
=============================================================================
