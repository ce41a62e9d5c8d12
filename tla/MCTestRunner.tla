---------------------------- MODULE MCTestRunner ----------------------------
(* Instances of TestRunner for TLC.                                          *)
EXTENDS TestRunner, TLC

CONSTANTS r1, r2, u1

PlainType == [major |-> "text", sub |-> "plain"]
TurtleType == [major |-> "text", sub |-> "turtle"]
JsonLdType == [major |-> "application", sub |-> "ld+json"]
UnheardType == [major |-> "application", sub |-> "unheard"]
Types == {PlainType, TurtleType, JsonLdType, UnheardType}
SentTypes == {PlainType, TurtleType}

Drawn(r, s, n) == <<r, s, n>>
DrawnNames == {<<r, s, n>> : r \in Run, s \in 1..6, n \in 1..7}
Segments == DrawnNames \cup {File} \cup Slug

Targets == {Root}
Accepts == {NoAccept}

\* The first run meets one timeout, the other none.
OneTimeout == [r \in Run |-> IF r = r1 THEN 1 ELSE 0]
Connections == {<<r1, 0>>, <<r1, 1>>, <<r2, 0>>}

\* Any one suite beside the one whose cases fail.
OneSuite == [r \in Run |-> IF r = r1 THEN {{s} : s \in 1..6} ELSE {{6}}]

\* Somebody else's document.
Seeded ==
  [k \in {Root, <<File>>} |->
     IF k = Root THEN ContainerEntry ELSE EntryFor(k, PlainType, Original)]
=============================================================================
