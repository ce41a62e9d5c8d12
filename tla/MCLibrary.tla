------------------------------ MODULE MCLibrary -----------------------------
(* The library types the server does not use, for TLC: one of six machines   *)
(* runs, the others rest.                                                    *)
EXTENDS JsonFileStorage, PassthroughStorage, IdentifierWalk, Operations,
        StaticAssets, StoreDecorators

CONSTANTS
  c1, c2, c3,      \* callers of the storages and of the stores
  v1,              \* a value
  http, host, a, b \* pieces of identifiers and URLs

VARIABLE part      \* the machine that runs

\* Whatever goes wrong with a JSON file, but for futures dropped in a write.
AllButCancel == {"refuse", "full", "crash", "drop"}

\* Two users of one storage, and one of another beside it.
Owners == [c \in {c1, c2, c3} |-> IF c = c3 THEN "beside" ELSE "own"]

\* Bound: at most two of them have a call under way, and one value is enough.
Narrow(calls) ==
  LET made == {c \in DOMAIN calls : calls[c] # None}
  IN  /\ Cardinality(made) <= 2
      /\ \A c \in made : calls[c].op = "set" => calls[c].value = v1

\* The storages of the doc of PassthroughKeyValueStorage (key_value.rs:138-143):
\* each puts a prefix before a key and trims it off again, wherever it comes
\* from and as often as it is there.  One of the keys begins with a prefix.
Names == {<<"key">>, <<"own", "key">>}
Prefixed == [s \in {"own", "beside"} |-> [k \in Names |-> <<s>> \o k]]
Places == Names \cup {Prefixed[s][k] : s \in {"own", "beside"}, k \in Names}
Trimmed(s, i) ==
  CHOOSE k \in {SubSeq(i, n, Len(i)) : n \in DOMAIN i} :
    /\ k[1] # s
    /\ \A n \in 1..(Len(i) - Len(k)) : i[n] = s
Stripped == [s \in {"own", "beside"} |-> [i \in Places |-> Trimmed(s, i)]]

TheOrigin == <<http, Slash, Slash, host>>

\* Types in lower case and in capitals, and the wildcards.
MediaRange(major, sub) == [major |-> major, sub |-> sub]
Turtle == MediaRange("text", "turtle")
AllRanges ==
  {Turtle, MediaRange("TEXT", "TURTLE"), MediaRange("application", "json"),
   MediaRange("text", "*"), MediaRange("*", "*")}
Lower == [r \in AllRanges |-> IF r.major = "TEXT" THEN Turtle ELSE r]

Mapping(u, d) == [url |-> u, dir |-> d]
Mappings ==
  <<Mapping(<<Separator, a>>, "top"),
    Mapping(<<Separator, a, Separator, b>>, "first"),
    Mapping(<<Separator, a, Separator, b>>, "again"),
    Mapping(<<Separator, b, b>>, "deep"),
    Mapping(<<Separator, b>>, "late")>>

\* Behind a layer that forwards, behind a read-only one in the middle, and
\* before a BaseResourceStore.
Stacks ==
  [c \in {c1, c2, c3} |->
     CASE c = c1 -> <<"passthrough">>
       [] c = c2 -> <<"passthrough", "read_only", "passthrough">>
       [] c = c3 -> <<"passthrough", "base">>]

ASSUME StackAssumption == AnyStacks

rest == <<vars, passVars, walkVars, opVars, assetVars, decoVars>>

LibraryInit ==
  /\ part \in {"file", "keys", "walk", "operation", "asset", "store"}
  /\ Init /\ PassInit /\ WalkInit /\ OpInit /\ AssetInit
  /\ bottom = 1 /\ DecoInit

LibraryNext ==
  /\ UNCHANGED part
  /\ \/ /\ part = "file" /\ Next
        /\ UNCHANGED <<passVars, walkVars, opVars, assetVars, decoVars>>
     \/ /\ part = "keys" /\ PassNext
        /\ Narrow(request')
        /\ UNCHANGED <<vars, walkVars, opVars, assetVars, decoVars>>
     \/ /\ part = "walk" /\ WalkNext
        /\ UNCHANGED <<vars, passVars, opVars, assetVars, decoVars>>
     \/ /\ part = "operation" /\ OpNext
        /\ UNCHANGED <<vars, passVars, walkVars, assetVars, decoVars>>
     \/ /\ part = "asset" /\ AssetNext
        /\ UNCHANGED <<vars, passVars, walkVars, opVars, decoVars>>
     \/ /\ part = "store" /\ DecoNext
        /\ UNCHANGED <<vars, passVars, walkVars, opVars, assetVars>>

\* The fairness of FairSpec of JsonFileStorage; the other machines have none.
LibrarySpec ==
  /\ LibraryInit /\ [][LibraryNext]_<<part, rest>>
  /\ \A c \in Client :
       /\ WF_vars(part = "file" /\ Work(c))
       /\ SF_vars(part = "file" /\ Lock(c))
=============================================================================
