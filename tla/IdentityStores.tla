---------------------------- MODULE IdentityStores --------------------------
(* The stores of the identity crate that keep rows and no time: BasePodStore *)
(* (identity/src/pod.rs), BaseClientCredentialsStore (client_credentials.rs) *)
(* and BaseWebIdStore (webid.rs).  Every table has a lock of its own, and a  *)
(* call that needs two tables locks them one after the other.                *)
(*                                                                           *)
(* Ids of rows are UUIDs.  Those of pods, tokens and links leave the stores, *)
(* by what create returns and by the find calls; those of owner rows do not. *)
(* The calls that read one table once change nothing: get_owners is Owners,  *)
(* for the properties to ask with; the others are left out.                  *)
EXTENDS Integers, FiniteSets, Tables

CONSTANTS
  AccountId,
  Url,       \* the base URLs of pods
  WebId,
  Pod,       \* the UUIDs of pods
  OwnerId,   \* the UUIDs of owner rows
  Token,     \* the UUIDs of client credentials
  Label,     \* the labels of client credentials
  Link       \* the UUIDs of WebID links

ASSUME NoneAssumption == None \notin Pod \cup Token \cup Link \cup WebId

\* What is acknowledged and removed is told apart by its kind.
ASSUME IdAssumption ==
  /\ Token \cap Link = {}
  /\ (Token \cup Link) \cap (Pod \X WebId) = {}

VARIABLES
  pods,      \* BasePodStore.pods
  owners,    \* BasePodStore.owners
  by_id,     \* BaseClientCredentialsStore.by_id
  by_label,  \* BaseClientCredentialsStore.by_label
  links,     \* BaseWebIdStore.links
  pc,        \* where the call of a client stands
  call,      \* the call
  row,       \* the pod, token or link the call has made or found
  labels,    \* history: the labels create was asked for so far
  shared,    \* history: those it was asked for more than once
  given,     \* history: the WebID each pod was created with
  acked,     \* history: what a returned call has stored
  removed    \* history: what a call has removed

tables == <<pods, owners, by_id, by_label, links>>
clients == <<pc, call, row>>
history == <<labels, shared, given, acked, removed>>
vars == <<tables, clients, history>>

PodRow == [base_url : Url, account_id : AccountId]
OwnerRow == [pod_id : Pod, web_id : WebId, visible : BOOLEAN]
ClientCredentials == [label : Label, web_id : WebId, account_id : AccountId]
WebIdLink == [web_id : WebId, account_id : AccountId]

PodCall ==
  [op : {"create_pod"}, account : AccountId, base : Url, web : WebId \cup {None}]
    \cup [op : {"update_owner"}, pod : Pod, web : WebId, visible : BOOLEAN]
    \cup [op : {"remove_owner"}, pod : Pod, web : WebId]

TokenCall ==
  [op : {"create_token"}, label : Label, web : WebId, account : AccountId]
    \cup [op : {"delete_token"}, token : Token]
    \cup [op : {"find_by_label"}, label : Label]

LinkCall ==
  [op : {"create_link"}, web : WebId, account : AccountId]
    \cup [op : {"delete_link"}, link : Link]

Call == PodCall \cup TokenCall \cup LinkCall

PodStoreInit == pods = NoRows /\ owners = NoRows
TokenStoreInit == by_id = NoRows /\ by_label = NoRows
WebIdStoreInit == links = NoRows

Init ==
  /\ PodStoreInit /\ TokenStoreInit /\ WebIdStoreInit
  /\ pc = [c \in Client |-> "idle"]
  /\ call = [c \in Client |-> None]
  /\ row = [c \in Client |-> None]
  /\ labels = {} /\ shared = {} /\ given = NoRows
  /\ acked = {} /\ removed = {}

\* Bound: a UUID is left for what a call creates.
Pending(op) == Cardinality({c \in Client : pc[c] = "call" /\ call[c].op = op})

Budget(x) ==
  /\ x.op = "create_pod" => Pending("create_pod") < Cardinality(Pod \ DOMAIN pods)
  /\ x.op = "create_token" =>
       Pending("create_token")
         < Cardinality(Token \ (DOMAIN by_id \cup removed))
  /\ x.op = "create_link" =>
       Pending("create_link") < Cardinality(Link \ (DOMAIN links \cup removed))

\* A call names rows that are or were there.
Sensible(x) ==
  /\ x.op \in {"update_owner", "remove_owner"} => x.pod \in DOMAIN pods
  /\ x.op = "delete_token" => x.token \in DOMAIN by_id \cup removed
  /\ x.op = "delete_link" => x.link \in DOMAIN links \cup removed

\* The label a call asks for.  "Labels are globally unique" is the callers' part
\* (client_credentials.rs:52-53, 61), and nothing holds them to it.
Wanted(x) == IF x.op = "create_token" THEN {x.label} ELSE {}

Invoke(c) ==
  /\ pc[c] = "idle"
  /\ \E x \in Call :
       /\ Sensible(x) /\ Budget(x)
       /\ call' = [call EXCEPT ![c] = x]
       /\ labels' = labels \cup Wanted(x)
       /\ shared' = shared \cup (Wanted(x) \cap labels)
  /\ pc' = [pc EXCEPT ![c] = "call"]
  /\ UNCHANGED <<tables, row, given, acked, removed>>

\* The call of c runs its critical section: of a call of op at stage.
Runs(c, op, stage, next) ==
  /\ pc[c] = stage /\ call[c].op = op
  /\ pc' = [pc EXCEPT ![c] = next]
  /\ UNCHANGED <<call, labels, shared, acked>>

-----------------------------------------------------------------------------
(* BasePodStore.                                                             *)

\* create: the pod, which others can find from now on,
CreatePod(c) ==
  /\ Runs(c, "create_pod", "call", IF call[c].web = None THEN "done" ELSE "second")
  /\ \E p \in Pod \ DOMAIN pods :
       /\ pods' = Put(pods, p, [base_url |-> call[c].base,
                                account_id |-> call[c].account])
       /\ given' = Put(given, p, call[c].web)
       /\ row' = [row EXCEPT ![c] = p]
  /\ UNCHANGED <<owners, by_id, by_label, links, removed>>

NewOwner(p, w, visible) ==
  \E o \in OwnerId \ DOMAIN owners :
    owners' = Put(owners, o, [pod_id |-> p, web_id |-> w, visible |-> visible])

\* and its first owner, without a look at the owners there are.
FirstOwner(c) ==
  /\ Runs(c, "create_pod", "second", "done")
  /\ NewOwner(row[c], call[c].web, FALSE)
  /\ UNCHANGED <<pods, by_id, by_label, links, row, given, removed>>

Rows(p, w) == {o \in DOMAIN owners : owners[o].pod_id = p /\ owners[o].web_id = w}

\* Mutant of UpdateOwner: a row for each call.
UpdateOwnerAdds(c) ==
  /\ Runs(c, "update_owner", "call", "done")
  /\ NewOwner(call[c].pod, call[c].web, call[c].visible)
  /\ UNCHANGED <<pods, by_id, by_label, links, row, given, removed>>

\* update_owner: the first row the map comes to, a new one if there is none.
UpdateOwner(c) ==
  /\ Runs(c, "update_owner", "call", "done")
  /\ LET rows == Rows(call[c].pod, call[c].web)
     IN  \/ \E o \in rows : owners' = [owners EXCEPT ![o].visible = call[c].visible]
         \/ rows = {} /\ NewOwner(call[c].pod, call[c].web, call[c].visible)
  /\ UNCHANGED <<pods, by_id, by_label, links, row, given, removed>>

\* Mutant of RemoveOwner: the first row of the pod.
RemoveOwnerOfPod(c) ==
  /\ Runs(c, "remove_owner", "call", "done")
  /\ \E o \in DOMAIN owners :
       owners[o].pod_id = call[c].pod /\ owners' = Drop(owners, o)
  /\ removed' = removed \cup {<<call[c].pod, call[c].web>>}
  /\ UNCHANGED <<pods, by_id, by_label, links, row, given>>

\* remove_owner: the first row the map comes to.
RemoveOwner(c) ==
  /\ Runs(c, "remove_owner", "call", "done")
  /\ LET rows == Rows(call[c].pod, call[c].web)
     IN  \/ \E o \in rows : owners' = Drop(owners, o)
         \/ rows = {} /\ UNCHANGED owners
  /\ removed' = removed \cup {<<call[c].pod, call[c].web>>}
  /\ UNCHANGED <<pods, by_id, by_label, links, row, given>>

\* get_owners: the WebIDs whose rows the map holds.
Owners(p) == {owners[o].web_id : o \in {x \in DOMAIN owners : owners[x].pod_id = p}}

-----------------------------------------------------------------------------
(* BaseClientCredentialsStore.                                               *)

\* Mutant of CreateToken: by_label is left to somebody else.
CreateTokenUnindexed(c) ==
  /\ Runs(c, "create_token", "call", "done")
  /\ \E t \in Token \ (DOMAIN by_id \cup removed) :
       /\ by_id' = Put(by_id, t, [label |-> call[c].label, web_id |-> call[c].web,
                                  account_id |-> call[c].account])
       /\ row' = [row EXCEPT ![c] = t]
  /\ UNCHANGED <<pods, owners, by_label, links, given, removed>>

\* create: the token, which others can find by its account from now on,
CreateToken(c) ==
  /\ Runs(c, "create_token", "call", "second")
  /\ \E t \in Token \ (DOMAIN by_id \cup removed) :
       /\ by_id' = Put(by_id, t, [label |-> call[c].label, web_id |-> call[c].web,
                                  account_id |-> call[c].account])
       /\ row' = [row EXCEPT ![c] = t]
  /\ UNCHANGED <<pods, owners, by_label, links, given, removed>>

\* Mutant of IndexToken: insert(id, label).
IndexTokenSwapped(c) ==
  /\ Runs(c, "create_token", "second", "done")
  /\ by_label' = Put(by_label, row[c], call[c].label)
  /\ UNCHANGED <<pods, owners, by_id, links, row, given, removed>>

\* and its label.
IndexToken(c) ==
  /\ Runs(c, "create_token", "second", "done")
  /\ by_label' = Put(by_label, call[c].label, row[c])
  /\ UNCHANGED <<pods, owners, by_id, links, row, given, removed>>

\* delete: the token, if it is there, with which its label is read,
DeleteToken(c) ==
  /\ call[c] # None /\ call[c].op = "delete_token"
  /\ LET found == call[c].token \in DOMAIN by_id
     IN  /\ Runs(c, "delete_token", "call", IF found THEN "second" ELSE "done")
         /\ row' = IF found THEN [row EXCEPT ![c] = by_id[call[c].token].label]
                   ELSE row
  /\ by_id' = Drop(by_id, call[c].token)
  /\ removed' = removed \cup {call[c].token}
  /\ UNCHANGED <<pods, owners, by_label, links, given>>

\* and the label, whatever token it leads to.
UnindexToken(c) ==
  /\ Runs(c, "delete_token", "second", "done")
  /\ by_label' = Drop(by_label, row[c])
  /\ UNCHANGED <<pods, owners, by_id, links, row, given, removed>>

\* find_by_label: the id of the token,
FindId(c) ==
  /\ call[c] # None /\ call[c].op = "find_by_label"
  /\ LET found == call[c].label \in DOMAIN by_label
     IN  /\ Runs(c, "find_by_label", "call", IF found THEN "second" ELSE "done")
         /\ row' = IF found THEN [row EXCEPT ![c] = by_label[call[c].label]] ELSE row
  /\ UNCHANGED <<tables, given, removed>>

\* then the token, if it is still there.
FindToken(c) ==
  /\ Runs(c, "find_by_label", "second", "done")
  /\ row' = IF row[c] \in DOMAIN by_id THEN row ELSE [row EXCEPT ![c] = None]
  /\ UNCHANGED <<tables, given, removed>>

-----------------------------------------------------------------------------
(* BaseWebIdStore.                                                           *)

CreateLink(c) ==
  /\ Runs(c, "create_link", "call", "done")
  /\ \E l \in Link \ (DOMAIN links \cup removed) :
       /\ links' = Put(links, l, [web_id |-> call[c].web,
                                  account_id |-> call[c].account])
       /\ row' = [row EXCEPT ![c] = l]
  /\ UNCHANGED <<pods, owners, by_id, by_label, given, removed>>

DeleteLink(c) ==
  /\ Runs(c, "delete_link", "call", "done")
  /\ links' = Drop(links, call[c].link)
  /\ removed' = removed \cup {call[c].link}
  /\ UNCHANGED <<pods, owners, by_id, by_label, row, given>>

-----------------------------------------------------------------------------
\* What the call of c has stored, for its caller to rely on.
Stored(c) ==
  LET x == call[c]
  IN  CASE x.op \in {"create_token", "create_link"} -> {row[c]}
        [] x.op = "create_pod" /\ x.web # None -> {<<row[c], x.web>>}
        [] x.op = "update_owner" -> {<<x.pod, x.web>>}
        [] OTHER -> {}

Return(c) ==
  /\ pc[c] = "done"
  /\ acked' = acked \cup Stored(c)
  /\ pc' = [pc EXCEPT ![c] = "idle"]
  /\ call' = [call EXCEPT ![c] = None]
  /\ row' = [row EXCEPT ![c] = None]
  /\ UNCHANGED <<tables, labels, shared, given, removed>>

Step(c) ==
  \/ Invoke(c) \/ Return(c)
  \/ CreatePod(c) \/ FirstOwner(c) \/ UpdateOwner(c) \/ RemoveOwner(c)
  \/ CreateToken(c) \/ IndexToken(c) \/ DeleteToken(c) \/ UnindexToken(c)
  \/ FindId(c) \/ FindToken(c)
  \/ CreateLink(c) \/ DeleteLink(c)

Next == \E c \in Client : Step(c)

Spec == Init /\ [][Next]_vars

-----------------------------------------------------------------------------
(* Properties.                                                               *)

Rowed(m, ids, rows) ==
  DOMAIN m \subseteq ids /\ \A x \in DOMAIN m : m[x] \in rows

\* The variables have the shapes the code gives them.
TypeOK ==
  /\ Rowed(pods, Pod, PodRow)
  /\ Rowed(owners, OwnerId, OwnerRow)
  /\ Rowed(by_id, Token, ClientCredentials)
  /\ Rowed(by_label, Label, Token)
  /\ Rowed(links, Link, WebIdLink)
  /\ pc \in [Client -> {"idle", "call", "second", "done"}]
  /\ call \in [Client -> Call \cup {None}]
  /\ row \in [Client -> Pod \cup Token \cup Link \cup Label \cup {None}]
  /\ labels \subseteq Label /\ shared \subseteq Label
  /\ Rowed(given, Pod, WebId \cup {None})
  /\ acked \subseteq Token \cup Link \cup (Pod \X WebId)
  /\ removed \subseteq Token \cup Link \cup (Pod \X WebId)

\* "Creates or updates the visibility of web_id as an owner" (pod.rs:78): a pod
\* has one row for a WebID.  The one create stores without a look may be a
\* second one, for the WebID the pod was created with, and there is never a third.
OneRowPerOwner ==
  \A p \in DOMAIN pods, w \in WebId :
    Cardinality(Rows(p, w)) <= IF given[p] = w THEN 2 ELSE 1

\* What a returned call has stored is there until somebody removes it: owners of
\* a pod, whichever of the rows a remove_owner takes, tokens and links.
AcknowledgedStays ==
  /\ \A p \in Pod, w \in WebId :
       <<p, w>> \in acked \ removed => w \in Owners(p)
  /\ (acked \ removed) \cap Token \subseteq DOMAIN by_id
  /\ (acked \ removed) \cap Link \subseteq DOMAIN links

\* "Returns the token whose label == label, or None" (client_credentials.rs:50),
\* from two tables that are locked in turn: what find_by_label finds has the
\* label, and it finds nothing only if no token with that label is there for
\* good, or its creators have not kept to one token for a label: the delete of
\* the one then takes the index of the other (172).
FoundByLabel ==
  [][\A c \in Client :
       pc[c] # "done" /\ pc'[c] = "done" /\ call[c].op = "find_by_label" =>
         IF row'[c] = None
         THEN \/ call[c].label \in shared
              \/ \A t \in acked \cap DOMAIN by_id : by_id[t].label # call[c].label
         ELSE by_id[row'[c]].label = call[c].label]_vars

\* "Removes web_id from the owner list of pod id" (pod.rs:81).
RemovedOwnerIsGone ==
  [][\A c \in Client :
       pc[c] = "call" /\ pc'[c] = "done" /\ call[c].op = "remove_owner" =>
         call[c].web \notin Owners(call[c].pod)']_vars
=============================================================================
