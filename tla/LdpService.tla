------------------------------ MODULE LdpService ----------------------------
(* What the LDP server promises its clients: a map of resources on which     *)
(* every request takes effect at one instant between its arrival and its     *)
(* answer, and is answered according to the map of that instant.  The one    *)
(* liberty is Provision: containers above what a PUT or POST makes may       *)
(* appear before it does.  The one exception is MakeRoot.                    *)
EXTENDS LdpMessages

CONSTANT Conn

VARIABLES
  store,   \* the resources
  phase,   \* "idle", "busy" before a request took effect, "respond" after
  req,     \* the request a connection serves
  reply    \* its answer

vars == <<store, phase, req, reply>>

Init ==
  /\ store = [k \in {Root} |-> ContainerEntry]
  /\ phase = [c \in Conn |-> "idle"]
  /\ req = [c \in Conn |-> None]
  /\ reply = [c \in Conn |-> None]

Arrive(c) ==
  /\ phase[c] = "idle"
  /\ phase' = [phase EXCEPT ![c] = "busy"]
  /\ \E r \in Request : req' = [req EXCEPT ![c] = r]
  /\ UNCHANGED <<store, reply>>

\* The request takes effect and its answer is settled.
Settle(c, methods) ==
  /\ phase[c] = "busy" /\ req[c].method \in methods
  /\ phase' = [phase EXCEPT ![c] = "respond"]
  /\ \A d \in Conn \ {c} : reply'[d] = reply[d]
  /\ UNCHANGED req

\* Nothing happens to the store and the answer says so.
Refuse(c) ==
  /\ Settle(c, Method)
  /\ reply'[c] \in {Status(code) : code \in {400, 401, 415, 500}}
  /\ UNCHANGED store

Describe(c) ==
  /\ Settle(c, {"OPTIONS"})
  /\ reply'[c] = Status(204)
  /\ UNCHANGED store

\* GET and HEAD describe the entry of the instant, or its absence.
Read(c) ==
  LET k == ResolvePath(req[c].target) IN
  /\ Settle(c, {"GET", "HEAD"})
  /\ reply'[c].status = 404 <=> k \notin DOMAIN store
  /\ reply'[c].status \in {200, 404, 406}
  /\ reply'[c].status = 200 =>
       /\ reply'[c].entry.content_type = store[k].content_type
       /\ req[c].method = "GET" => reply'[c].entry.body = store[k].body
       /\ "Container" \in reply'[c].links <=> IsContainerKey(k)
  /\ UNCHANGED store

\* Containers among ks appear, empty, and nothing else happens.
Appear(ks) ==
  /\ \A k \in DOMAIN store : k \in DOMAIN store' /\ store'[k] = store[k]
  /\ DOMAIN store' \subseteq DOMAIN store \cup ks
  /\ \A k \in DOMAIN store' \ DOMAIN store :
       IsContainerKey(k) /\ store'[k] = ContainerEntry
  /\ UNCHANGED <<phase, req, reply>>

\* Never what the request is about: what it is answered is said of the map
\* without its own doing.
Provision(c) ==
  /\ phase[c] = "busy" /\ req[c].method \in {"PUT", "POST"}
  /\ Appear(Above(req[c].method, req[c].target))

\* The exception: a PUT of the root counts it among the containers above it.
\* When a client has deleted the root, the PUT makes it first, and is then
\* answered as if it had been there.
MakeRoot(c) ==
  /\ phase[c] = "busy" /\ req[c].method = "PUT"
  /\ ResolvePath(req[c].target) = Root
  /\ Appear({Root})

\* The store after the request of c has put its entry at k.
Place(c, k) ==
  /\ DOMAIN store' = DOMAIN store \cup {k}
  /\ store'[k] = EntryFor(k, req[c].content_type, req[c].body)
  /\ \A x \in DOMAIN store \ {k} : store'[x] = store[x]

\* PUT: 201 exactly when there was no such resource, 204 otherwise.
Write(c) ==
  LET k == ResolvePath(req[c].target) IN
  /\ Settle(c, {"PUT"})
  /\ Place(c, k)
  /\ reply'[c].status = IF k \in DOMAIN store THEN 204 ELSE 201

Tellable(k) == \A i \in 1..Len(k) : k[i] \notin Unprintable

\* POST: a resource that was not there, under the target.  The client is told
\* its key, or 500 if that cannot be put into a header.
Create(c) ==
  /\ Settle(c, {"POST"})
  /\ \E slug \in Slug :
       LET k == ChildKey(ResolvePath(req[c].target), slug) IN
       /\ k \notin DOMAIN store
       /\ Place(c, k)
       /\ reply'[c] = IF Tellable(k) THEN [Status(201) EXCEPT !.location = k]
                       ELSE Status(500)

\* DELETE: 204 exactly when it removed something, 404 otherwise.
Remove(c) ==
  LET k == ResolvePath(req[c].target) IN
  /\ Settle(c, {"DELETE"})
  /\ store' = [x \in DOMAIN store \ {k} |-> store[x]]
  /\ reply'[c] = Status(IF k \in DOMAIN store THEN 204 ELSE 404)

\* The client has its answer, or left before it came.
Leave(c) ==
  /\ phase[c] # "idle"
  /\ phase' = [phase EXCEPT ![c] = "idle"]
  /\ req' = [req EXCEPT ![c] = None]
  /\ reply' = [reply EXCEPT ![c] = None]
  /\ UNCHANGED store

Next ==
  \E c \in Conn :
    \/ Arrive(c) \/ Leave(c)
    \/ Refuse(c) \/ Describe(c) \/ Read(c)
    \/ Provision(c) \/ MakeRoot(c) \/ Write(c) \/ Create(c) \/ Remove(c)

Spec == Init /\ [][Next]_vars
=============================================================================
