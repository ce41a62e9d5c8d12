---------------------------- MODULE RequestRules ----------------------------
(* Two rules of the server that look at nothing but the request and the type *)
(* of the entry: the access mode it asks for (server-core/src/pipeline.rs)   *)
(* and its Accept check (server-core/src/ldp_handlers.rs).                   *)

\* Mutant of RequiredMode: DELETE falls to the default.
RequiredModeDefault(method) ==
  IF method \in {"PUT", "POST", "PATCH"} THEN "Write" ELSE "Read"

\* The access mode authz_middleware asks for.
RequiredMode(method) ==
  IF method \in {"PUT", "POST", "PATCH", "DELETE"} THEN "Write" ELSE "Read"

Star == "*"
AnyType == [major |-> Star, sub |-> Star]

\* Mutant of AcceptSatisfied: text/* is a type like any other.
AcceptSatisfiedExactly(accept, ct) == accept \cap {AnyType, ct} # {}

\* An Accept header is the set of its comma-separated tokens without their
\* parameters; an empty token counts as */*.
AcceptSatisfied(accept, ct) ==
  \E token \in accept :
    \/ token = AnyType
    \/ token.sub = Star /\ token.major = ct.major
    \/ token = ct
=============================================================================
