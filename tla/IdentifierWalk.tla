--------------------------- MODULE IdentifierWalk ---------------------------
(* A caller of http-types that walks the hierarchy: it derives identifier    *)
(* from identifier (http-types/src/identifier.rs) and keeps track of where   *)
(* it believes to be.                                                        *)
EXTENDS ResourceIdentifiers, Integers

CONSTANTS
  Origin,     \* the identifier of a server without its last slash
  Name,       \* the names of resources
  MaxDepth    \* bound: how deep the caller goes

ASSUME WalkAssumption ==
  /\ Origin \in Identifier /\ TrimEnd(Origin) = Origin
  /\ Name \subseteq Piece /\ MaxDepth \in Nat

VARIABLES
  id,     \* the identifier the caller has
  place,  \* the names from the root down to where it believes to be
  above   \* how often it has gone above the root

walkVars == <<id, place, above>>

WalkInit == id = Append(Origin, Slash) /\ place = <<>> /\ above = 0

\* Callers write a segment with a slash before it, or behind it, or none.
Spellings(n) == {<<n>>, <<Slash, n>>, <<n, Slash>>}

Descend ==
  /\ Len(place) < MaxDepth /\ above = 0
  /\ \E n \in Name : \E segment \in Spellings(n) :
       /\ id' = Join(id, segment)
       /\ place' = Append(place, n)
  /\ UNCHANGED above

Ascend ==
  /\ Parent(id) # NoIdentifier
  /\ id' = Parent(id)
  /\ IF place = <<>> THEN above' = above + 1 /\ UNCHANGED place
     ELSE place' = SubSeq(place, 1, Len(place) - 1) /\ UNCHANGED above

Respell ==
  /\ id' \in {AsContainer(id), AsDocument(id)}
  /\ UNCHANGED <<place, above>>

WalkNext == Descend \/ Ascend \/ Respell

WalkSpec == WalkInit /\ [][WalkNext]_walkVars

-----------------------------------------------------------------------------
(* Properties.                                                               *)

\* The identifier of a place, as callers write it.
Address(p) ==
  Origin \o [i \in 1..(2 * Len(p)) |-> IF i % 2 = 1 THEN Slash ELSE p[i \div 2]]

\* However a caller mixes join, parent, as_container and as_document, it is
\* where it believes to be: the identifier it has differs from the one it
\* would write down in nothing but slashes at the end, until it takes the
\* parent of the root.
OnlyTrailingSlashesVary == above = 0 => TrimEnd(id) = Address(place)

\* The climb by parent ends: each parent is shorter than its child, trailing
\* slashes aside, and there are at most as many as slashes in the origin above
\* the root (the root of a server has a parent, and that one may have one).
Climbs ==
  [][Len(place') < Len(place) \/ above' # above
       => Len(TrimEnd(id')) < Len(TrimEnd(id))]_walkVars
=============================================================================
