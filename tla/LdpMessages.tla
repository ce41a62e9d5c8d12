----------------------------- MODULE LdpMessages ----------------------------
(* What clients send to the LDP server and what it sends back                *)
(* (server-core/src/ldp_handlers.rs, server-core/src/pipeline.rs).           *)
EXTENDS LdpStore, RequestRules

CONSTANTS
  Target,       \* request paths clients use, without their leading slash
  Accept,       \* the Accept headers clients send: NoAccept or sets of tokens
  NoAccept,     \* no Accept header, or one that is not a string
  SentType,     \* the content types clients send
  Slug,         \* the fresh UUIDs POST draws from
  Unprintable,  \* segments with a control character, illegal in a header
  None

ASSUME SlugAssumption == Slug \subseteq Seg /\ Unprintable \subseteq Seg
ASSUME TargetAssumption == Target \subseteq Key
ASSUME SentTypeAssumption == SentType \subseteq MediaType
ASSUME NoneAssumption == None \notin Entry /\ None \notin Key

Method == {"GET", "HEAD", "PUT", "POST", "DELETE", "OPTIONS", "PATCH"}

Request == [method : Method, target : Target, accept : Accept,
            content_type : SentType, body : Body]

\* Requests that differ only in what their handler ignores are one request.
Normal(r) ==
  /\ r.method \notin {"GET", "HEAD"} => r.accept = NoAccept
  /\ r.method \in {"OPTIONS", "PATCH"} =>
       r.target = (CHOOSE u \in Target : TRUE)
  /\ r.method \notin {"PUT", "POST"} =>
       /\ r.content_type = (CHOOSE t \in SentType : TRUE)
       /\ r.body = (CHOOSE b \in Body : TRUE)

\* The keys a request with this method and path is about, and the containers
\* above them: for the specifications to say how far a request may reach.
Places(method, target) ==
  IF method = "POST" THEN {ChildKey(ResolvePath(target), slug) : slug \in Slug}
  ELSE {ResolvePath(target)}

Above(method, target) ==
  (UNION {EveryAncestor(k) \cup {Root} : k \in Places(method, target)})
    \ Places(method, target)

ContainerLink == {"Container", "Resource"}
ResourceLink == {"Resource"}

Status(code) ==
  [status |-> code, links |-> {}, entry |-> None, location |-> None]
=============================================================================
