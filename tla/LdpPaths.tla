------------------------------ MODULE LdpPaths ------------------------------
(* Store keys of the LDP server and the containers above them                *)
(* (server-core/src/store.rs, server-core/src/ldp_handlers.rs).              *)
(*                                                                           *)
(* The code keeps a key as a string that starts with "/".  Here it is the    *)
(* sequence of what stands between its slashes: "/a/b" is <<a, b>>, "/a/" is *)
(* <<a, Empty>>, "/a//b" is <<a, Empty, b>> and "/" is <<Empty>>.  Every     *)
(* string that starts with "/" is exactly one such sequence and no character *)
(* but the slash matters to the code below.                                  *)
EXTENDS Naturals, Sequences

CONSTANTS
  Seg,         \* the non-empty path segments
  Empty,       \* the empty segment
  SplitLimit   \* the limit handed to splitn, 100 in the code

ASSUME SegAssumption == Empty \notin Seg
ASSUME SplitLimitAssumption == SplitLimit \in Nat /\ SplitLimit >= 2

Part == Seg \cup {Empty}
Key == Seq(Part) \ {<<>>}

Root == <<Empty>>

\* The key ends with a slash.
IsContainerKey(k) == k[Len(k)] = Empty

\* What is left of a key without its trailing slashes: trim_end_matches('/').
TrimmedLen(k) ==
  CHOOSE n \in 0..Len(k) :
    /\ n = 0 \/ k[n] # Empty
    /\ \A i \in (n + 1)..Len(k) : k[i] = Empty

Trim(k) == SubSeq(k, 1, TrimmedLen(k))

\* The request path a handler receives, without its leading slash, becomes a
\* key: the leading slash is put back unless the rest already has one.
ResolvePath(url) ==
  IF Len(url) > 1 /\ url[1] = Empty THEN Tail(url) ELSE url

\* The key of the container made of the segments p; "//" is written "/".
ContainerKey(p) == IF p \in {<<>>, <<Empty>>} THEN Root ELSE Append(p, Empty)

\* How many leading segments of k the walk up the hierarchy descends into: all
\* but the last, unless splitn has left the tail of a long path in one piece.
WalkDepth(k) ==
  LET parts == 1 + TrimmedLen(k)
      split == IF parts <= SplitLimit THEN parts ELSE SplitLimit
  IN  IF split > 1 THEN split - 2 ELSE 0

\* The containers ensure_ancestors visits for k.
Ancestors(k) == {ContainerKey(SubSeq(Trim(k), 1, i)) : i \in 0..WalkDepth(k)}

\* "Every intermediate container" (store.rs:145): what is above k, however long
\* its path, for the specifications to measure the walk by.
EveryAncestor(k) ==
  {ContainerKey(SubSeq(Trim(k), 1, i)) : i \in 0..(TrimmedLen(k) - 1)}

\* The child that POST to k creates under the name slug.
ChildKey(k, slug) == Append(Trim(k), slug)
=============================================================================
