------------------------------ MODULE LdpStore ------------------------------
(* The in-memory resource store: LdpStore of server-core/src/store.rs.       *)
(*                                                                           *)
(* Its state is one map behind a RwLock.  Each operator on maps below is the *)
(* body of one critical section; who holds the map, who runs the sections    *)
(* and what happens between two of them is left to the specifications that   *)
(* extend this module.                                                       *)
EXTENDS LdpPaths

CONSTANTS
  MediaType,   \* the content types, records [major, sub]
  Turtle,      \* text/turtle, the type of a container made by the store
  Body,        \* the bodies requests carry
  NoBody       \* the empty body of a container made by the store

ASSUME TurtleAssumption == Turtle \in MediaType

Entry == [content_type : MediaType, body : Body \cup {NoBody},
          is_container : BOOLEAN]

\* A store is a function from a set of keys to entries.
IsStore(m) == DOMAIN m \subseteq Key /\ m \in [DOMAIN m -> Entry]

ContainerEntry ==
  [content_type |-> Turtle, body |-> NoBody, is_container |-> TRUE]

\* Mutant of EntryFor: the content type decides.
EntryForTurtle(k, ct, b) ==
  [content_type |-> ct, body |-> b, is_container |-> ct = Turtle]

\* What put inserts at k; whether it is a container is read off the key.
EntryFor(k, ct, b) ==
  [content_type |-> ct, body |-> b, is_container |-> IsContainerKey(k)]

\* Mutants of WithAncestors: insert in place of or_insert; a pop too many.
WithFreshAncestors(m, k) ==
  [x \in DOMAIN m \cup Ancestors(k) |->
     IF x \in Ancestors(k) THEN ContainerEntry ELSE m[x]]

WithFarAncestors(m, k) ==
  LET nearest == ContainerKey(SubSeq(Trim(k), 1, WalkDepth(k)))
  IN  [x \in DOMAIN m \cup (Ancestors(k) \ {nearest}) |->
         IF x \in DOMAIN m THEN m[x] ELSE ContainerEntry]

\* First critical section of put: every missing ancestor becomes an empty
\* container, an entry already there is kept.
WithAncestors(m, k) ==
  [x \in DOMAIN m \cup Ancestors(k) |->
     IF x \in DOMAIN m THEN m[x] ELSE ContainerEntry]

\* Second critical section of put.
WithEntry(m, k, e) ==
  [x \in DOMAIN m \cup {k} |-> IF x = k THEN e ELSE m[x]]

\* Mutant of Without: what is inside a container goes with it.
WithoutSubtree(m, k) ==
  LET n == TrimmedLen(k)
      inside == {y \in DOMAIN m : Len(y) >= n /\ SubSeq(y, 1, n) = Trim(k)}
  IN  [x \in DOMAIN m \ inside |-> m[x]]

\* delete takes any key, the root and containers with members included.
Without(m, k) == [x \in DOMAIN m \ {k} |-> m[x]]

\* LdpStore::new: only the root container.
FreshStore == [x \in {Root} |-> ContainerEntry]
=============================================================================
