--------------------------- MODULE MCLdpLifecycle ---------------------------
(* Instances of LdpLifecycle for TLC.                                        *)
EXTENDS LdpLifecycle, TLC

CONSTANTS a, b

Plain == [major |-> "text", sub |-> "plain"]
TurtleType == [major |-> "text", sub |-> "turtle"]
MediaTypes == {TurtleType, Plain}
PlainOnly == {Plain}
NoAccepts == {NoAccept}

\* "/", "/a/" and "/a/b": a document, its container and the root.
Targets == {<<Empty>>, <<a, Empty>>, <<a, b>>}

ConnSymmetry == Permutations(Conn)
=============================================================================
