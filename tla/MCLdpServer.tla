----------------------------- MODULE MCLdpServer ----------------------------
(* Instances of LdpServer for TLC.                                           *)
EXTENDS LdpServer, TLC

CONSTANTS a, b, u1, u2, ctl

Plain == [major |-> "text", sub |-> "plain"]
TurtleType == [major |-> "text", sub |-> "turtle"]
PlainOnly == {Plain}
TwoTypes == {TurtleType, Plain}

\* "text/turtle", and an Accept nothing satisfies.
SomeAccepts == {NoAccept, {TurtleType}}

\* "/a/" and "//a/" name one container; the name of the next cannot be told in
\* a header; "/" is above them all.
AliasTargets == {<<a, Empty>>, <<Empty, a, Empty>>, <<ctl, Empty>>, Root}

RootOnly == {Root}

\* "/a/" and the first child a POST makes in it, once its name is known.
ChildTargets == {<<a, Empty>>, <<a, u1>>}

ConnSymmetry == Permutations(Conn)

\* Where no target names a slug, slugs are alike as well, and no step or
\* service reads the history or what clients know.
ConnSlugSymmetry == Permutations(Conn) \cup Permutations(Slug)
WithoutHistory == <<store, pc, req, key, reply, slugs>>
=============================================================================
