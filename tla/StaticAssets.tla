---------------------------- MODULE StaticAssets ----------------------------
(* StaticAssetHandler (static-assets/src/handler.rs, entry.rs): URL prefixes *)
(* mapped to directories.                                                    *)
(*                                                                           *)
(* A URL is the sequence of its slashes, dots and the texts between them, as *)
(* a prefix may end in the middle of a name: "/styles.css" is <</, styles,   *)
(* css>> and starts with <</, styles>>.                                      *)
EXTENDS Naturals, Sequences, SequencesExt

CONSTANTS
  Entries,   \* the entries of the handler: a sequence of [url, dir]
  Separator, Dots, Question,  \* "/", ".." and "?"
  Text,      \* what else a URL is made of
  MaxUrl,    \* bound: the length of a URL
  Nothing

Character == Text \cup {Separator, Dots, Question}

Url == UNION {[1..n -> Character] : n \in 1..MaxUrl}

ASSUME AssetAssumption ==
  /\ Len(Entries) \in Nat /\ DOMAIN Entries = 1..Len(Entries)
  /\ \A i \in DOMAIN Entries : Entries[i].url \in Seq(Character)
  /\ MaxUrl \in Nat /\ Nothing \notin Url /\ Separator # Dots

VARIABLES
  url,     \* the URL asked for, Nothing when none is
  asset,   \* the file it resolves to, Nothing before and when there is none
  reply    \* the status and the entry it is served from, Nothing before

assetVars == <<url, asset, reply>>

AssetInit == url = Nothing /\ asset = Nothing /\ reply = Nothing

\* The URL without its query: split('?').
Clean(u) ==
  LET at == {i \in DOMAIN u : u[i] = Question}
  IN  IF at = {} THEN u ELSE SubSeq(u, 1, Min(at) - 1)

Matching(u) == {i \in DOMAIN Entries : IsPrefix(Entries[i].url, u)}

\* Mutant of Best: the first entry that matches.
BestFirst(u) == CHOOSE i \in Matching(u) : \A j \in Matching(u) : i <= j

\* max_by_key: of the longest prefixes the last.
Best(u) ==
  CHOOSE i \in Matching(u) :
    \A j \in Matching(u) :
      \/ Len(Entries[j].url) < Len(Entries[i].url)
      \/ Len(Entries[j].url) = Len(Entries[i].url) /\ j <= i

\* A relative path, joined to the directory of its entry.
WithoutSlashes(s) ==
  SubSeq(s, Min({i \in 1..(Len(s) + 1) : i = Len(s) + 1 \/ s[i] # Separator}), Len(s))

Suffix(u) == SubSeq(u, Len(Entries[Best(u)].url) + 1, Len(u))

Resolvable(u) == Matching(u) # {} /\ ~Contains(Suffix(u), Dots)

Resolved(u) == [dir |-> Entries[Best(u)].dir, path |-> WithoutSlashes(Suffix(u))]

\* serve: the URL is resolved, and the read of the file is awaited.
Request ==
  /\ url = Nothing
  /\ \E u \in Url :
       /\ url' = u
       /\ IF Resolvable(Clean(u))
          THEN asset' = Resolved(Clean(u)) /\ UNCHANGED reply
          ELSE reply' = 404 /\ UNCHANGED asset

\* The file is read, or is not there, or cannot be read.
ReadFile ==
  /\ asset # Nothing /\ reply = Nothing
  /\ reply' \in {200, 404, 500}
  /\ UNCHANGED <<url, asset>>

Return ==
  /\ reply # Nothing
  /\ url' = Nothing /\ asset' = Nothing /\ reply' = Nothing

AssetNext == Request \/ ReadFile \/ Return

AssetSpec == AssetInit /\ [][AssetNext]_assetVars

-----------------------------------------------------------------------------
(* Properties.                                                               *)

\* The URL of the file p of the entry i.
UrlOf(i, p) == Entries[i].url \o <<Separator>> \o p

Shadows(j, i, u) ==
  /\ IsPrefix(Entries[j].url, u)
  /\ \/ Len(Entries[j].url) > Len(Entries[i].url)
     \/ Len(Entries[j].url) = Len(Entries[i].url) /\ j > i

\* A URL made of an entry's prefix and a path below its directory, with or
\* without a query, leads to that file of that directory, wherever the entry
\* stands in the list, unless an entry for a longer prefix, or a later one for
\* the same, takes it; and no file is taken from outside of a directory
\* (handler.rs:27-51).
MappedFilesAreFound ==
  /\ asset # Nothing => ~Contains(asset.path, Dots)
  /\ url # Nothing =>
    \A i \in DOMAIN Entries :
      LET u == Clean(url)
          p == SubSeq(u, Len(Entries[i].url) + 2, Len(u))
          inside == p = <<>> \/ p[1] # Separator
          taken == \E j \in DOMAIN Entries : Shadows(j, i, u)
      IN  u = UrlOf(i, p) /\ ~Contains(p, Dots) /\ inside /\ ~taken
          => asset = [dir |-> Entries[i].dir, path |-> p]
=============================================================================
