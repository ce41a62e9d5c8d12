------------------------------ MODULE LdpServer -----------------------------
(* The request pipeline over the store: authz_middleware of                  *)
(* server-core/src/pipeline.rs, then a handler of                            *)
(* server-core/src/ldp_handlers.rs, for any number of connections at once.   *)
(*                                                                           *)
(* A connection serves one request at a time.  A step is what the code does  *)
(* between two points where another task can get in: an await, or the        *)
(* release of the store's lock.                                              *)
EXTENDS LdpMessages, FiniteSets

CONSTANTS
  Conn,         \* client connections
  PassThrough   \* TRUE: the default pass-through reader and authorizer

VARIABLES
  store,     \* the map of the LdpStore all handlers share
  pc,        \* where the request of a connection stands
  req,       \* the request a connection serves, None when idle
  key,       \* the key its handler works on
  reply,     \* the response made for it, None before that
  slugs,     \* every UUID drawn so far
  known,     \* the UUIDs clients have been told in a Location header
  approved,  \* history: what the authorizer has granted the request
  wrote,     \* history: the keys whose entries the request has made, replaced
             \* or removed
  removed,   \* history: every key a DELETE has removed
  accepted   \* history: every key a client was told is stored

connVars == <<pc, req, key, reply, approved, wrote>>
histVars == <<slugs, known, removed, accepted>>
vars == <<store, connVars, histVars>>

-----------------------------------------------------------------------------
(* The responses handlers make.                                              *)

\* What GET and HEAD answer when the lock shows them the map m.
ReadReply(r, k, m) ==
  IF k \notin DOMAIN m THEN Status(404)
  ELSE IF r.accept # NoAccept /\ ~AcceptSatisfied(r.accept, m[k].content_type)
  THEN Status(406)
  ELSE [Status(200) EXCEPT
          !.entry = IF r.method = "GET" THEN m[k]
                    ELSE [m[k] EXCEPT !.body = NoBody],
          !.links = IF m[k].is_container THEN ContainerLink
                    ELSE IF r.method = "GET" THEN ResourceLink ELSE {}]

\* What PUT and POST answer after the insertion.  The Location of a POST is
\* the key itself; a control character in it is an invalid header value, and
\* the response that should carry it is replaced by a 500.
WriteReply(r, k, created) ==
  IF r.method = "PUT"
  THEN [Status(IF created THEN 201 ELSE 204) EXCEPT
          !.links = IF IsContainerKey(k) THEN ContainerLink ELSE {}]
  ELSE IF \E i \in 1..Len(k) : k[i] \in Unprintable
  THEN Status(500)
  ELSE [Status(201) EXCEPT !.location = k]

\* Mutants of DeleteReply: idempotent; 410 for what is not there.
DeleteReplyAlways(k, m) == Status(204)
DeleteReplyGone(k, m) == Status(IF k \in DOMAIN m THEN 204 ELSE 410)

DeleteReply(k, m) == Status(IF k \in DOMAIN m THEN 204 ELSE 404)

-----------------------------------------------------------------------------
\* Nobody has a request going, and the store holds m.
InitWith(m) ==
  /\ store = m
  /\ pc = [c \in Conn |-> "idle"]
  /\ req = [c \in Conn |-> None]
  /\ key = [c \in Conn |-> None]
  /\ reply = [c \in Conn |-> None]
  /\ approved = [c \in Conn |-> {}]
  /\ wrote = [c \in Conn |-> {}]
  /\ slugs = {} /\ known = {} /\ removed = {} /\ accepted = {}

Init == InitWith(FreshStore)

\* Bound: a POST is sent only while a UUID is left for it.
PostBudget ==
  Cardinality({c \in Conn : req[c] # None /\ req[c].method = "POST"
                             /\ pc[c] \in {"permissions", "authorize", "handler"}})
    + Cardinality(slugs) < Cardinality(Slug)

\* A client can only name a UUID it has been told.
Nameable(url) == \A i \in 1..Len(url) : url[i] \in Slug => url[i] \in known

\* The request r enters the pipeline.
Enter(c, r) ==
  /\ req' = [req EXCEPT ![c] = r]
  /\ key' = [key EXCEPT ![c] = ResolvePath(r.target)]
  /\ pc' = [pc EXCEPT ![c] = "permissions"]
  /\ UNCHANGED <<store, reply, approved, wrote, histVars>>

\* A client sends any request it can.
Receive(c) ==
  /\ pc[c] = "idle"
  /\ \E r \in Request :
       /\ Normal(r)
       /\ Nameable(r.target)
       /\ r.method = "POST" => PostBudget
       /\ Enter(c, r)

\* The request is over: its response is rp.
Answer(c, rp) ==
  /\ pc' = [pc EXCEPT ![c] = "respond"]
  /\ reply' = [reply EXCEPT ![c] = rp]

\* authz_middleware awaits the permission reader.
ReadPermissions(c) ==
  /\ pc[c] = "permissions"
  /\ \/ /\ pc' = [pc EXCEPT ![c] = "authorize"]
        /\ UNCHANGED reply
     \/ ~PassThrough /\ Answer(c, Status(500))
  /\ UNCHANGED <<store, req, key, approved, wrote, histVars>>

\* The access map: the path of the request, and the one mode its method needs.
AccessMap(r) == [resource |-> r.target, mode |-> RequiredMode(r.method)]

\* authz_middleware awaits the authorizer, then runs the handler.
Authorize(c) ==
  /\ pc[c] = "authorize"
  /\ \/ /\ pc' = [pc EXCEPT ![c] = "handler"]
        /\ approved' = [approved EXCEPT ![c] = {AccessMap(req[c])}]
        /\ UNCHANGED reply
     \/ ~PassThrough /\ Answer(c, Status(401)) /\ UNCHANGED approved
  /\ UNCHANGED <<store, req, key, wrote, histVars>>

At(c, methods) == pc[c] = "handler" /\ req[c].method \in methods

\* handle_get, handle_head: one read under the lock.
HandleRead(c) ==
  /\ At(c, {"GET", "HEAD"})
  /\ Answer(c, ReadReply(req[c], key[c], store))
  /\ UNCHANGED <<store, req, key, approved, wrote, histVars>>

\* handle_options, handle_patch: the store is not looked at.
HandleStateless(c) ==
  /\ At(c, {"OPTIONS", "PATCH"})
  /\ Answer(c, Status(IF req[c].method = "OPTIONS" THEN 204 ELSE 415))
  /\ UNCHANGED <<store, req, key, approved, wrote, histVars>>

HandleDelete(c) ==
  /\ At(c, {"DELETE"})
  /\ Answer(c, DeleteReply(key[c], store))
  /\ store' = Without(store, key[c])
  /\ wrote' = [wrote EXCEPT ![c] = {key[c]} \cap DOMAIN store]
  /\ removed' = removed \cup ({key[c]} \cap DOMAIN store)
  /\ UNCHANGED <<req, key, approved, slugs, known, accepted>>

\* The body of a PUT has arrived.
PutBody(c) ==
  /\ At(c, {"PUT"})
  /\ pc' = [pc EXCEPT ![c] = "ancestors"]
  /\ UNCHANGED <<store, req, key, reply, approved, wrote, histVars>>

\* The body of a POST has arrived: its child gets a fresh name.  Whether the
\* target exists, or is a container, is not asked.
PostBody(c) ==
  /\ At(c, {"POST"})
  /\ \E slug \in Slug \ slugs :
       /\ slugs' = slugs \cup {slug}
       /\ key' = [key EXCEPT ![c] = ChildKey(key[c], slug)]
  /\ pc' = [pc EXCEPT ![c] = "ancestors"]
  /\ UNCHANGED <<store, req, reply, approved, wrote, known, removed, accepted>>

\* Mutant of BodyError: the ancestors are made before the body is read.
BodyErrorLate(c) ==
  /\ At(c, {"PUT", "POST"})
  /\ Answer(c, Status(400))
  /\ store' = WithAncestors(store, key[c])
  /\ wrote' = [wrote EXCEPT ![c] = DOMAIN store' \ DOMAIN store]
  /\ UNCHANGED <<req, key, approved, histVars>>

\* Reading the body failed.
BodyError(c) ==
  /\ At(c, {"PUT", "POST"})
  /\ Answer(c, Status(400))
  /\ UNCHANGED <<store, req, key, approved, wrote, histVars>>

\* put, first critical section.
EnsureAncestors(c) ==
  /\ pc[c] = "ancestors"
  /\ store' = WithAncestors(store, key[c])
  /\ wrote' = [wrote EXCEPT ![c] = DOMAIN store' \ DOMAIN store]
  /\ pc' = [pc EXCEPT ![c] = "insert"]
  /\ UNCHANGED <<req, key, reply, approved, histVars>>

\* put, second critical section.
Insert(c) ==
  /\ pc[c] = "insert"
  /\ Answer(c, WriteReply(req[c], key[c], key[c] \notin DOMAIN store))
  /\ store' = WithEntry(store, key[c],
                        EntryFor(key[c], req[c].content_type, req[c].body))
  /\ wrote' = [wrote EXCEPT ![c] = @ \cup {key[c]}]
  /\ UNCHANGED <<req, key, approved, histVars>>

\* The connection is free for its next request.
Reset(c) ==
  /\ pc' = [pc EXCEPT ![c] = "idle"]
  /\ req' = [req EXCEPT ![c] = None]
  /\ key' = [key EXCEPT ![c] = None]
  /\ reply' = [reply EXCEPT ![c] = None]
  /\ approved' = [approved EXCEPT ![c] = {}]
  /\ wrote' = [wrote EXCEPT ![c] = {}]

Stored(c) == req[c].method \in {"PUT", "POST"} /\ reply[c].status \in {201, 204}

\* Mutant of Respond: an internal error closes nothing.
RespondUnless500(c) ==
  /\ pc[c] = "respond" /\ reply[c].status # 500
  /\ Reset(c)
  /\ UNCHANGED <<store, histVars>>

\* The client gets the response.
Respond(c) ==
  /\ pc[c] = "respond"
  /\ accepted' = accepted \cup (IF Stored(c) THEN {key[c]} ELSE {})
  /\ known' = known \cup
       (IF reply[c].location = None THEN {} ELSE {key[c][Len(key[c])]})
  /\ Reset(c)
  /\ UNCHANGED <<store, slugs, removed>>

\* The client goes away.  The server drops the request where its task waits:
\* for the reader, the authorizer or the body, or with the response at hand.
Disconnect(c) ==
  /\ \/ pc[c] \in {"permissions", "authorize", "respond"}
     \/ At(c, {"PUT", "POST"})
  /\ Reset(c)
  /\ UNCHANGED <<store, histVars>>

\* The steps the server takes by itself.
Serve(c) ==
  \/ ReadPermissions(c) \/ Authorize(c)
  \/ HandleRead(c) \/ HandleStateless(c) \/ HandleDelete(c)
  \/ EnsureAncestors(c) \/ Insert(c)
  \/ Respond(c)

\* The steps that wait for the client.
Client(c) ==
  \/ Receive(c) \/ PutBody(c) \/ PostBody(c) \/ BodyError(c)
  \/ Disconnect(c)

Next == \E c \in Conn : Serve(c) \/ Client(c)

Spec == Init /\ [][Next]_vars

\* The runtime keeps polling tasks that can run, the lock is given to whoever
\* waits for it, and the reader and the authorizer return.  Nothing makes a
\* client send a request or finish a body.
FairSpec == Spec /\ \A c \in Conn : WF_vars(Serve(c))

-----------------------------------------------------------------------------
(* Properties.                                                               *)

Reply == [status : {200, 201, 204, 400, 401, 404, 406, 415, 500},
          links : SUBSET ContainerLink,
          entry : Entry \cup {None}, location : Key \cup {None}]

PC == {"idle", "permissions", "authorize", "handler", "ancestors", "insert",
       "respond"}

Grant == [resource : Target, mode : {"Read", "Write"}]

\* The variables have the shapes the code gives them.
TypeOK ==
  /\ IsStore(store)
  /\ pc \in [Conn -> PC]
  /\ req \in [Conn -> Request \cup {None}]
  /\ key \in [Conn -> Key \cup {None}]
  /\ reply \in [Conn -> Reply \cup {None}]
  /\ approved \in [Conn -> SUBSET Grant]
  /\ wrote \in [Conn -> SUBSET Key]
  /\ slugs \subseteq Slug /\ known \subseteq slugs
  /\ removed \subseteq Key /\ accepted \subseteq Key

\* "Auto-creates every ancestor container" (store.rs:99) holds for ever after,
\* in the face of concurrent requests, for every path short enough for splitn:
\* a container above a stored resource is missing only if some DELETE has
\* removed it.
HierarchyClosed ==
  \A k \in DOMAIN store :
    TrimmedLen(k) < SplitLimit =>
      EveryAncestor(k) \subseteq DOMAIN store \cup removed

\* A client told by a 201 or 204 that its resource is stored (ldp_handlers.rs:
\* 320-326, 397-414) can rely on it: only a DELETE takes the resource away.
AcceptedStays == accepted \subseteq DOMAIN store \cup removed

\* Whether an entry is a container (ldp:Container in the Link of GET and HEAD)
\* and whether its path ends with a slash (the Link of PUT) never disagree,
\* whichever of put and ensure_ancestors made the entry.
ContainersByPath ==
  \A k \in DOMAIN store : store[k].is_container <=> IsContainerKey(k)

\* A request that is answered with a client error has not touched the store,
\* nor has one whose client may leave before its body is there: the body is
\* read, and access decided, before anything is written.
ErrorLeavesNoTrace ==
  \A c \in Conn :
    \/ pc[c] = "respond" /\ reply[c].status \in 400..499
    \/ pc[c] \in {"permissions", "authorize", "handler"}
    => wrote[c] = {}

\* Nothing changes the store, and nothing succeeds, but for requests the
\* authorizer has let through.  It was asked for Write wherever the handler
\* writes (the table of pipeline.rs:96-101 against the handlers behind it), and
\* about the resource that is written, the container a child is made in, or
\* what is below the containers that are made on the way (pipeline.rs:91-92).
AuthorizedEffects ==
  \A c \in Conn :
    /\ \A k \in wrote[c] : \E g \in approved[c] :
         /\ g.mode = "Write"
         /\ k \in Places(req[c].method, g.resource)
                  \cup Above(req[c].method, g.resource)
    /\ pc[c] = "respond" /\ reply[c].status \in 200..299 =>
         \E g \in approved[c] : g.resource = req[c].target

\* An entry changes or goes only by a PUT, POST or DELETE of its own key: the
\* containers put makes on the way never replace what is there.
OnlyTargetedEntriesChange ==
  [][\A k \in DOMAIN store :
       \/ k \in DOMAIN store' /\ store'[k] = store[k]
       \/ \E c \in Conn : key[c] = k /\ pc[c] \in {"insert", "handler"}
                            /\ pc'[c] = "respond"]_vars

\* "Returns `true` if this was a create (did not exist)" (store.rs:98): a PUT is
\* answered 204, and not 201, only if the resource was there before the PUT
\* itself has made anything.
CreationIsTold ==
  [][\A c \in Conn :
       pc[c] = "insert" /\ pc'[c] = "respond" /\ reply'[c].status = 204 =>
         key[c] \notin wrote[c]]_vars

\* A request that waits for nothing but the server is answered, or its client
\* leaves; only the body of a PUT or POST is waited for without a limit.
AwaitsBody(c) == At(c, {"PUT", "POST"})

Answered ==
  \A c \in Conn :
    pc[c] # "idle" /\ ~AwaitsBody(c) ~> pc[c] = "idle" \/ AwaitsBody(c)

\* The server implements the service, with the effect of a request at the step
\* that settles its answer.
Service ==
  INSTANCE LdpService WITH
    phase <- [c \in Conn |-> IF pc[c] \in {"idle", "respond"} THEN pc[c]
                             ELSE "busy"]

ImplementsService == Service!Spec
=============================================================================
