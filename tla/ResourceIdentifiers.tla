------------------------ MODULE ResourceIdentifiers -------------------------
(* ResourceIdentifier (http-types/src/identifier.rs).                        *)
(*                                                                           *)
(* An identifier is a string; here it is the sequence of its slashes and of  *)
(* what stands between them: "http://h/a/" is <<http:, /, /, h, /, a, />>.   *)
EXTENDS Naturals, Sequences

CONSTANTS
  Slash,
  Piece,         \* what may stand between slashes
  NoIdentifier

ASSUME PieceAssumption == Slash \notin Piece

Identifier == Seq(Piece \cup {Slash})

ASSUME NoIdentifierAssumption == NoIdentifier \notin Identifier

\* How much of s trim_end_matches('/') leaves.
TrimmedLen(s) ==
  CHOOSE n \in 0..Len(s) :
    /\ n = 0 \/ s[n] # Slash
    /\ \A i \in (n + 1)..Len(s) : s[i] = Slash

TrimEnd(s) == SubSeq(s, 1, TrimmedLen(s))

\* trim_start_matches('/').
TrimStart(s) ==
  SubSeq(s, CHOOSE n \in 1..(Len(s) + 1) :
              /\ n = Len(s) + 1 \/ s[n] # Slash
              /\ \A i \in 1..(n - 1) : s[i] = Slash,
         Len(s))

IsContainer(id) == id # <<>> /\ id[Len(id)] = Slash

AsContainer(id) == IF IsContainer(id) THEN id ELSE Append(id, Slash)

AsDocument(id) == TrimEnd(id)

\* rfind('/'): the last slash of s, 0 when there is none.
LastSlash(s) ==
  CHOOSE n \in 0..Len(s) :
    /\ n = 0 \/ s[n] = Slash
    /\ \A i \in (n + 1)..Len(s) : s[i] # Slash

\* Mutant of Parent: the slash is looked for in the identifier as it is.
ParentUntrimmed(id) ==
  LET at == LastSlash(id)
  IN  IF at = 0 THEN NoIdentifier ELSE Append(SubSeq(id, 1, at), Slash)

\* What stands before the last slash, that slash, and one more.
Parent(id) ==
  LET at == LastSlash(TrimEnd(id))
  IN  IF at = 0 THEN NoIdentifier ELSE Append(SubSeq(id, 1, at), Slash)

\* Mutant of Join: the base keeps its slashes, as as_container has added them.
JoinUntrimmed(id, segment) == AsContainer(id) \o TrimStart(segment)

Join(id, segment) == TrimEnd(id) \o <<Slash>> \o TrimStart(segment)
=============================================================================
