----------------------------- MODULE Operations -----------------------------
(* Operations and content preferences (http-types/src/operation.rs), next to *)
(* the rules the server applies to the same request.                         *)
(*                                                                           *)
(* The caller builds an Operation from a method and, when it reads, from an  *)
(* Accept header, which is the sequence of its comma-separated tokens: a     *)
(* media type and a quality, in tenths.                                      *)
EXTENDS RequestRules, Integers, Sequences, FiniteSets

CONSTANTS
  Ranges,      \* media ranges as sent, records [major, sub]
  LowerCase,  \* to_ascii_lowercase of each
  NoType,     \* the type of a token that is empty before its parameters
  Quality,    \* the values of q clients send, in tenths; any number parses
  NoQuality,  \* no q parameter, or one that is no number
  NaN,        \* q=NaN, which parses
  MaxTokens,  \* bound: the length of a header
  Absent

ASSUME QualityAssumption == Quality \subseteq Int /\ MaxTokens \in Nat

VARIABLES
  header,  \* the Accept header of the operation, Absent for one that writes
  op       \* the Operation, Absent before it is built

opVars == <<header, op>>

Token == [type : Ranges \cup {NoType}, q : Quality \cup {NoQuality, NaN}]

Header == UNION {[1..n -> Token] : n \in 1..MaxTokens}

\* The quality of a media range: 1.0 by default, clamped to 0.0..1.0.
Clamped(q) ==
  IF q = NaN THEN NaN
  ELSE IF q = NoQuality \/ q > 10 THEN 10
  ELSE IF q < 0 THEN 0 ELSE q

\* The ranges of a header, each at its place there; tokens without a type are
\* skipped.
Sent(h) ==
  [i \in {n \in DOMAIN h : h[n].type # NoType} |->
     [media_type |-> LowerCase[h[i].type], q |-> Clamped(h[i].q)]]

\* The ranges of s as a list, each at the place it gets.
Arranged(s, place) ==
  [n \in 1..Cardinality(DOMAIN s) |-> s[CHOOSE i \in DOMAIN s : place[i] = n]]

Comparable(s) == \A i \in DOMAIN s : s[i].q # NaN

\* Mutant of Precedes: of equal ranges the last comes first.
PrecedesReversed(s, j, i) == s[j].q > s[i].q \/ (s[j].q = s[i].q /\ j > i)

\* The stable sort by descending quality.
Precedes(s, j, i) == s[j].q > s[i].q \/ (s[j].q = s[i].q /\ j < i)

ByQuality(s) ==
  Arranged(s, [i \in DOMAIN s |->
    1 + Cardinality({j \in DOMAIN s : Precedes(s, j, i)})])

\* The comparison calls NaN equal to everything, which is no order: what the
\* sort then leaves is some arrangement of the ranges.
FromAcceptHeader(h) ==
  LET s == Sent(h)
      places == {p \in [DOMAIN s -> 1..Cardinality(DOMAIN s)] :
                   \A i, j \in DOMAIN s : p[i] = p[j] => i = j}
  IN  IF Comparable(s) THEN {ByQuality(s)} ELSE {Arranged(s, p) : p \in places}

AcceptsAny(preferences) ==
  \A i \in DOMAIN preferences : preferences[i].media_type = AnyType

MostPreferred(preferences) ==
  IF preferences = <<>> THEN Absent ELSE preferences[1].media_type

Method == {"GET", "HEAD", "PUT", "POST", "PATCH", "DELETE", "OPTIONS"}

IsWrite(method) == method \in {"PUT", "POST", "PATCH"}

RequiredAccessModes(method) ==
  CASE method \in {"GET", "HEAD"} -> {"Read"}
    [] method \in {"PUT", "PATCH", "DELETE"} -> {"Write"}
    [] method = "POST" -> {"Append"}
    [] method = "OPTIONS" -> {}

OpInit == header = Absent /\ op = Absent

\* Operation::read, with the preferences of the header.
ReadOp ==
  /\ op = Absent
  /\ \E h \in Header, method \in {m \in Method : ~IsWrite(m)} :
       /\ header' = h
       /\ \E preferences \in FromAcceptHeader(h) :
            op' = [method |-> method, body |-> FALSE,
                   preferences |-> preferences]

\* Operation::write, with a body and the default preferences.
WriteOp ==
  /\ op = Absent
  /\ \E method \in {m \in Method : IsWrite(m)} :
       op' = [method |-> method, body |-> TRUE, preferences |-> <<>>]
  /\ header' = Absent

DropOp == op # Absent /\ op' = Absent /\ header' = Absent

OpNext == ReadOp \/ WriteOp \/ DropOp

OpSpec == OpInit /\ [][OpNext]_opVars

-----------------------------------------------------------------------------
(* Properties.                                                               *)

\* What an operation calls most preferred is what its client wants most: of
\* the types in the header one with the highest quality, and of those the one
\* that was sent first ("highest preference first", operation.rs:119; "preserving
\* original order for ties", 154-155).  A header with a NaN has no such type.
FirstIsBest ==
  header # Absent /\ Comparable(Sent(header)) /\ DOMAIN Sent(header) # {} =>
    LET s == Sent(header)
        best == {i \in DOMAIN s : \A j \in DOMAIN s : s[j].q <= s[i].q}
    IN  \E i \in best : /\ \A j \in best : i <= j
                        /\ MostPreferred(op.preferences) = s[i].media_type

Matches(range, ct) ==
  range = AnyType \/ range = ct \/ (range.sub = Star /\ range.major = ct.major)

\* The tokens of h as the server's check sees them.
Checked(h) ==
  {IF h[i].type = NoType THEN AnyType ELSE h[i].type : i \in DOMAIN h}

InLowerCase(accept) == \A range \in accept : LowerCase[range] = range

\* The two readings of one Accept header agree as far as they must: what an
\* operation's preferences allow, whatever its quality, the GET and HEAD of the
\* server do not refuse with a 406 (ldp_handlers.rs:84-137).  The server's check
\* minds the case of letters and an operation does not, so this is about
\* headers in lower case.
PreferencesAreServed ==
  header # Absent /\ InLowerCase(Checked(header)) =>
    \A ct \in {r \in Ranges : r.sub # Star /\ LowerCase[r] = r} :
      \/ AcceptsAny(op.preferences)
      \/ \E i \in DOMAIN op.preferences :
           Matches(op.preferences[i].media_type, ct)
      => AcceptSatisfied(Checked(header), ct)

\* The middleware derives modes from the method on its own (pipeline.rs:96-101):
\* it never asks for less than the operation needs, Write being enough where
\* Append is needed.
PipelineAsksForNoLess ==
  op # Absent =>
    \A mode \in RequiredAccessModes(op.method) :
      \/ mode = RequiredMode(op.method)
      \/ mode = "Append" /\ RequiredMode(op.method) = "Write"
=============================================================================
