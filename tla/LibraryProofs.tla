---------------------------- MODULE LibraryProofs ---------------------------
(* Proofs about StoreDecorators, for any stacks of layers, IdentifierWalk,   *)
(* for any origin, names and depth, StaticAssets, for any mapping and URLs   *)
(* of any length, and Operations, for Accept headers of any length.          *)
EXTENDS StoreDecorators, IdentifierWalk, Operations, StaticAssets,
        FiniteSetTheorems, SequenceTheorems, WellFoundedInduction,
        TLAPS

-----------------------------------------------------------------------------
(* Store decorators.  Whatever layers a call has gone through forward it,    *)
(* under the method it was made with.                                        *)

DecoType ==
  /\ asked \in [Caller -> ResourceMethod \cup {Unset}]
  /\ DOMAIN method = Caller /\ method = [c \in Caller |-> method[c]]
  /\ depth \in [Caller -> Nat]
  /\ DOMAIN told = Caller /\ told = [c \in Caller |-> told[c]]
  /\ DOMAIN served = Caller /\ served = [c \in Caller |-> served[c]]

\* What is told of the method m through the layers ls.
Due(m, ls, t, s) ==
  \/ s = << <<m, t>> >>
  \/ /\ s = <<>>
     /\ \/ t = "NotImplemented" /\ \E i \in DOMAIN ls : ls[i] = "base"
        \/ /\ t = "Forbidden" /\ \E i \in DOMAIN ls : ls[i] = "read_only"
           /\ m \in Mutating

Asking(c) ==
  IF asked[c] = Unset THEN told[c] = Unset /\ served[c] = <<>> /\ depth[c] = 0
  ELSE /\ method[c] = asked[c]
       /\ depth[c] \in 0..Len(Layers[c])
       /\ \A i \in 1..depth[c] : Forwards(Layers[c][i], asked[c])
       /\ IF told[c] = Unset THEN served[c] = <<>>
          ELSE Due(asked[c], Layers[c], told[c], served[c])

DecoInv == DecoType /\ \A c \in Caller : Asking(c)

LEMMA DecoStart == DecoInit => DecoInv
BY DEF DecoInit, DecoInv, DecoType, Asking

\* A step of one client is none of another's.
LEMMA DecoOthers ==
  ASSUME DecoInv, NEW c \in Caller,
         Ask(c) \/ HandDown(c) \/ Refuse(c) \/ Serve(c) \/ HangUp(c),
         NEW d \in Caller, d # c
  PROVE  Asking(d)'
<1>0. DecoType
  BY DEF DecoInv
<1>1. UNCHANGED <<asked[d], method[d], depth[d], told[d], served[d]>>
  <2>1. CASE Ask(c)
    BY <1>0, <2>1 DEF DecoType, Ask
  <2>2. CASE HandDown(c)
    BY <1>0, <2>2 DEF DecoType, HandDown, Forwarded
  <2>3. CASE Refuse(c)
    BY <1>0, <2>3 DEF DecoType, Refuse, Tell
  <2>4. CASE Serve(c)
    BY <1>0, <2>4 DEF DecoType, Serve, Tell
  <2>5. CASE HangUp(c)
    BY <1>0, <2>5 DEF DecoType, HangUp
  <2> QED BY <2>1, <2>2, <2>3, <2>4, <2>5
<1>2. Asking(d)
  BY DEF DecoInv
<1> QED BY <1>1, <1>2, SMT DEF Asking

LEMMA DecoTypeStep ==
  ASSUME DecoInv, NEW c \in Caller,
         Ask(c) \/ HandDown(c) \/ Refuse(c) \/ Serve(c) \/ HangUp(c)
  PROVE  DecoType'
<1>0. DecoType
  BY DEF DecoInv
<1>1. CASE Ask(c)
  BY <1>0, <1>1 DEF DecoType, Ask
<1>2. CASE HandDown(c)
  <2>1. /\ depth' = [depth EXCEPT ![c] = depth[c] + 1]
        /\ method' = [method EXCEPT ![c] = method[c]]
        /\ UNCHANGED <<asked, told, served>>
    BY <1>2 DEF HandDown, Forwarded
  <2>2. depth \in [Caller -> Nat] /\ depth[c] + 1 \in Nat
    BY <1>0 DEF DecoType
  <2> QED BY <1>0, <2>1, <2>2 DEF DecoType
<1>3. CASE Refuse(c)
  BY <1>0, <1>3 DEF DecoType, Refuse, Tell
<1>4. CASE Serve(c)
  BY <1>0, <1>4 DEF DecoType, Serve, Tell
<1>5. CASE HangUp(c)
  BY <1>0, <1>5 DEF DecoType, HangUp
<1> QED BY <1>1, <1>2, <1>3, <1>4, <1>5

LEMMA DecoOwn ==
  ASSUME AnyStacks, DecoInv, NEW c \in Caller,
         Ask(c) \/ HandDown(c) \/ Refuse(c) \/ Serve(c) \/ HangUp(c)
  PROVE  Asking(c)'
<1> USE DEF DecoInv, DecoType
<1>0. Asking(c) /\ Layers[c] \in Seq({"passthrough", "read_only", "base"})
  BY DEF AnyStacks
<1>1. CASE Ask(c)
  <2>1. /\ asked'[c] \in ResourceMethod /\ method'[c] = asked'[c]
        /\ UNCHANGED <<depth, told, served>> /\ asked[c] = Unset
    BY <1>1 DEF Ask
  <2>2. asked'[c] # Unset
    BY <2>1 DEF AnyStacks
  <2> QED BY <1>0, <2>1, <2>2 DEF Asking
<1>2. CASE HandDown(c)
  <2>1. /\ asked[c] # Unset /\ told[c] = Unset /\ depth[c] < Len(Layers[c])
        /\ Forwards(Layers[c][depth[c] + 1], method[c])
        /\ depth'[c] = depth[c] + 1 /\ method'[c] = method[c]
        /\ UNCHANGED <<asked, told, served>>
    BY <1>2 DEF HandDown, Running, Layer, Forwarded
  <2>2. method[c] = asked[c] /\ served[c] = <<>>
        /\ \A i \in 1..depth[c] : Forwards(Layers[c][i], asked[c])
    BY <1>0, <2>1 DEF Asking
  <2>3. \A i \in 1..depth'[c] : i \in 1..depth[c] \/ i = depth[c] + 1
    BY <2>1
  <2>4. \A i \in 1..depth'[c] : Forwards(Layers[c][i], asked'[c])
    BY <2>1, <2>2, <2>3
  <2>5. depth'[c] \in 0..Len(Layers[c])
    BY <1>0, <2>1
  <2> QED BY <2>1, <2>2, <2>4, <2>5 DEF Asking
<1>3. CASE Refuse(c)
  <2> DEFINE i == depth[c] + 1
  <2>1. /\ asked[c] # Unset /\ told[c] = Unset /\ depth[c] < Len(Layers[c])
        /\ ~Forwards(Layers[c][i], method[c])
        /\ told'[c] = IF Layers[c][i] = "base" THEN "NotImplemented" ELSE "Forbidden"
        /\ UNCHANGED <<asked, method, depth, served>>
    BY <1>3 DEF Refuse, Running, Layer, Tell
  <2>2. i \in DOMAIN Layers[c] /\ Layers[c][i] \in {"passthrough", "read_only", "base"}
    BY <1>0, <2>1
  <2>3. method[c] = asked[c] /\ served[c] = <<>>
    BY <1>0, <2>1 DEF Asking
  <2>4. Due(asked[c], Layers[c], told'[c], served[c])
    BY <2>1, <2>2, <2>3 DEF Due, Forwards
  <2>5. told'[c] # Unset
    BY <2>1 DEF AnyStacks
  <2> QED BY <1>0, <2>1, <2>4, <2>5 DEF Asking
<1>4. CASE Serve(c)
  <2>1. PICK outcome \in Outcome :
          /\ told' = [told EXCEPT ![c] = outcome]
          /\ served' = [served EXCEPT ![c] = Append(@, <<method[c], outcome>>)]
    BY <1>4 DEF Serve, Tell
  <2>2. /\ asked[c] # Unset /\ told[c] = Unset
        /\ UNCHANGED <<asked, method, depth>>
    BY <1>4 DEF Serve, Running
  <2>3. method[c] = asked[c] /\ served[c] = <<>>
    BY <1>0, <2>2 DEF Asking
  <2>4. served'[c] = << <<asked[c], outcome>> >> /\ told'[c] = outcome
    BY <2>1, <2>3
  <2>5. told'[c] # Unset
    BY <2>4 DEF AnyStacks
  <2>6. Due(asked[c], Layers[c], told'[c], served'[c])
    BY <2>4 DEF Due
  <2> QED BY <1>0, <2>2, <2>5, <2>6 DEF Asking
<1>5. CASE HangUp(c)
  BY <1>5 DEF HangUp, Asking
<1> QED BY <1>1, <1>2, <1>3, <1>4, <1>5

LEMMA DecoAlways ==
  ASSUME AnyStacks
  PROVE  DecoSpec => []DecoInv
<1>1. DecoInv /\ [DecoNext]_decoVars => DecoInv'
  <2> SUFFICES ASSUME DecoInv, [DecoNext]_decoVars PROVE DecoInv'
    OBVIOUS
  <2>1. ASSUME NEW c \in Caller,
               Ask(c) \/ HandDown(c) \/ Refuse(c) \/ Serve(c) \/ HangUp(c)
        PROVE  DecoInv'
    BY <2>1, DecoOthers, DecoOwn, DecoTypeStep DEF DecoInv
  <2>2. CASE UNCHANGED decoVars
    BY <2>2 DEF decoVars, DecoInv, DecoType, Asking
  <2> QED BY <2>1, <2>2 DEF DecoNext
<1> QED BY <1>1, DecoStart, PTL DEF DecoSpec

\* However decorators are stacked, an outcome the store has given is told of the
\* method that was called, done once, and a refusal of nothing done.
THEOREM OutcomesAreTrue ==
  ASSUME AnyStacks
  PROVE  DecoSpec => []ToldWhatWasDone
<1>1. DecoInv => ToldWhatWasDone
  <2> SUFFICES ASSUME DecoInv, NEW c \in Caller, told[c] # Unset
               PROVE  Due(asked[c], Layers[c], told[c], served[c])
    BY DEF ToldWhatWasDone, Due, Has
  <2>1. Asking(c)
    BY DEF DecoInv
  <2> QED BY <2>1 DEF Asking
<1> QED BY <1>1, DecoAlways, PTL

\* The step a store may change in.
ShieldedStep ==
  bottom' # bottom =>
    \E c \in Caller :
      /\ asked[c] \in Mutating /\ told[c] = Unset /\ told'[c] # Unset
      /\ ~Has(c, "read_only") /\ ~Has(c, "base")

\* Wherever in a stack a ReadOnlyStore is, nothing goes through that changes
\* the store below.
THEOREM ReadOnlyStacksShield ==
  ASSUME AnyStacks
  PROVE  DecoSpec => ReadOnlyShields
<1>1. DecoInv /\ [DecoNext]_decoVars => ShieldedStep
  <2> SUFFICES ASSUME DecoInv, [DecoNext]_decoVars, bottom' # bottom
               PROVE  \E c \in Caller :
                        /\ asked[c] \in Mutating /\ told[c] = Unset /\ told'[c] # Unset
                        /\ ~Has(c, "read_only") /\ ~Has(c, "base")
    BY DEF ShieldedStep
  <2>1. PICK c \in Caller : Serve(c)
    BY DEF decoVars, DecoNext, Ask, HandDown, Refuse, HangUp
  <2>2. /\ asked[c] # Unset /\ told[c] = Unset /\ depth[c] = Len(Layers[c])
        /\ method[c] \in Mutating
    BY <2>1 DEF Serve, Running
  <2>3. told'[c] # Unset
    BY <2>1 DEF Serve, Tell, AnyStacks, DecoInv, DecoType
  <2>4. Layers[c] \in Seq({"passthrough", "read_only", "base"})
    BY DEF AnyStacks
  <2>5. method[c] = asked[c] /\ \A i \in 1..Len(Layers[c]) : Forwards(Layers[c][i], asked[c])
    BY <2>2 DEF DecoInv, Asking
  <2>6. ASSUME NEW i \in DOMAIN Layers[c] PROVE Layers[c][i] = "passthrough"
    BY <2>2, <2>4, <2>5 DEF Forwards
  <2> QED BY <2>2, <2>3, <2>5, <2>6 DEF Has
<1>2. DecoInv /\ [DecoNext]_decoVars => [ShieldedStep]_decoVars
  BY <1>1
<1>3. [][ShieldedStep]_decoVars => ReadOnlyShields
  BY DEF ShieldedStep, ReadOnlyShields
<1> QED BY <1>2, <1>3, DecoAlways, PTL DEF DecoSpec

-----------------------------------------------------------------------------
(* Identifiers.                                                              *)

Below == {ss \in Nat \X Nat : ss[1] < ss[2]}

\* The last position of a sequence of length n that is in B, 0 without one.
LEMMA LastPosition ==
  ASSUME NEW n \in Nat, NEW B, B \subseteq 1..n
  PROVE  \E m \in 0..n : /\ m = 0 \/ m \in B
                         /\ \A i \in (m + 1)..n : i \notin B
<1> DEFINE T == {m \in 0..n : \A i \in (m + 1)..n : i \notin B}
<1>1. T \subseteq Nat /\ n \in T
  OBVIOUS
<1>2. IsWellFoundedOn(Below, Nat)
  BY NatLessThanWellFounded DEF OpToRel, Below
<1>3. PICK m \in T : \A y \in T : ~(<<y, m>> \in Below)
  <2> HIDE DEF T
  <2> QED BY <1>1, <1>2, WFMin
<1>4. ASSUME m # 0, m \notin B PROVE FALSE
  <2>1. m - 1 \in 0..n /\ m - 1 \in Nat /\ m \in Nat
    BY <1>4
  <2>2. ASSUME NEW i \in ((m - 1) + 1)..n PROVE i \notin B
    <3>1. i = m \/ i \in (m + 1)..n
      BY <2>1
    <3> QED BY <3>1, <1>4
  <2>3. m - 1 \in T
    BY <2>1, <2>2
  <2>4. <<m - 1, m>> \in Below
    BY <2>1 DEF Below
  <2> QED BY <1>3, <2>3, <2>4
<1> QED BY <1>4

LEMMA LengthOf ==
  ASSUME NEW s \in Identifier
  PROVE  Len(s) \in Nat /\ \A i \in 1..Len(s) : s[i] \in Piece \cup {Slash}
BY LenProperties, ElementOfSeq DEF Identifier

LEMMA TrimmedLenIs ==
  ASSUME NEW s \in Identifier
  PROVE  /\ TrimmedLen(s) \in 0..Len(s)
         /\ TrimmedLen(s) = 0 \/ s[TrimmedLen(s)] # Slash
         /\ \A i \in (TrimmedLen(s) + 1)..Len(s) : s[i] = Slash
<1> DEFINE B == {i \in 1..Len(s) : s[i] # Slash}
<1>1. Len(s) \in Nat
  BY LengthOf
<1>2. \E m \in 0..Len(s) : /\ m = 0 \/ m \in B
                           /\ \A i \in (m + 1)..Len(s) : i \notin B
  <2>1. B \subseteq 1..Len(s)
    OBVIOUS
  <2> HIDE DEF B
  <2> QED BY <1>1, <2>1, LastPosition
<1>3. \E m \in 0..Len(s) : /\ m = 0 \/ s[m] # Slash
                           /\ \A i \in (m + 1)..Len(s) : s[i] = Slash
  BY <1>1, <1>2
<1> QED BY <1>3 DEF TrimmedLen

LEMMA LastSlashIs ==
  ASSUME NEW s \in Identifier
  PROVE  /\ LastSlash(s) \in 0..Len(s)
         /\ LastSlash(s) = 0 \/ s[LastSlash(s)] = Slash
         /\ \A i \in (LastSlash(s) + 1)..Len(s) : s[i] # Slash
<1> DEFINE B == {i \in 1..Len(s) : s[i] = Slash}
<1>1. Len(s) \in Nat
  BY LengthOf
<1>2. \E m \in 0..Len(s) : /\ m = 0 \/ m \in B
                           /\ \A i \in (m + 1)..Len(s) : i \notin B
  <2>1. B \subseteq 1..Len(s)
    OBVIOUS
  <2> HIDE DEF B
  <2> QED BY <1>1, <2>1, LastPosition
<1>3. \E m \in 0..Len(s) : /\ m = 0 \/ s[m] = Slash
                           /\ \A i \in (m + 1)..Len(s) : s[i] # Slash
  BY <1>1, <1>2
<1> QED BY <1>3 DEF LastSlash

LEMMA FrontOf ==
  ASSUME NEW s \in Identifier, NEW n \in 0..Len(s)
  PROVE  /\ SubSeq(s, 1, n) \in Identifier
         /\ Len(SubSeq(s, 1, n)) = n
         /\ \A i \in 1..n : SubSeq(s, 1, n)[i] = s[i]
<1>1. Len(s) \in Nat /\ n \in Nat /\ \A i \in 1..n : s[i] \in Piece \cup {Slash}
  BY LengthOf
<1>2. /\ SubSeq(s, 1, n) \in Seq(Piece \cup {Slash})
      /\ Len(SubSeq(s, 1, n)) = IF 1 <= n THEN n - 1 + 1 ELSE 0
      /\ \A i \in 1..(n - 1 + 1) : SubSeq(s, 1, n)[i] = s[1 + i - 1]
  BY <1>1, SubSeqProperties
<1> QED BY <1>1, <1>2 DEF Identifier

-----------------------------------------------------------------------------
\* t ends in no slash; s is t and any slashes behind it.
Trimmed(t) == Len(t) = 0 \/ t[Len(t)] # Slash

Spelling(s, t) ==
  /\ Len(t) <= Len(s)
  /\ \A i \in 1..Len(t) : s[i] = t[i]
  /\ \A i \in (Len(t) + 1)..Len(s) : s[i] = Slash

LEMMA TrimEndIs ==
  ASSUME NEW s \in Identifier
  PROVE  /\ TrimEnd(s) \in Identifier /\ Len(TrimEnd(s)) = TrimmedLen(s)
         /\ Trimmed(TrimEnd(s)) /\ Spelling(s, TrimEnd(s))
<1>1. TrimmedLen(s) \in 0..Len(s) /\ Len(s) \in Nat
  BY TrimmedLenIs, LengthOf
<1>2. /\ TrimEnd(s) \in Identifier /\ Len(TrimEnd(s)) = TrimmedLen(s)
      /\ \A i \in 1..TrimmedLen(s) : TrimEnd(s)[i] = s[i]
  BY <1>1, FrontOf DEF TrimEnd
<1> QED BY <1>1, <1>2, TrimmedLenIs DEF Trimmed, Spelling

\* An identifier is a spelling of one trimmed identifier only.
LEMMA TrimEndOf ==
  ASSUME NEW s \in Identifier, NEW t \in Identifier, Trimmed(t), Spelling(s, t)
  PROVE  TrimEnd(s) = t
<1> DEFINE n == TrimmedLen(s)
<1>1. Len(s) \in Nat /\ Len(t) \in Nat /\ n \in 0..Len(s)
  BY LengthOf, TrimmedLenIs
<1>2. n = Len(t)
  <2>1. ASSUME n < Len(t) PROVE FALSE
    <3>1. Len(t) \in (n + 1)..Len(s) /\ Len(t) \in 1..Len(t)
      BY <1>1, <2>1 DEF Spelling
    <3>2. s[Len(t)] = Slash
      BY <3>1, TrimmedLenIs
    <3>3. s[Len(t)] # Slash
      BY <1>1, <2>1, <3>1 DEF Spelling, Trimmed
    <3> QED BY <3>2, <3>3
  <2>2. ASSUME Len(t) < n PROVE FALSE
    <3>1. n \in (Len(t) + 1)..Len(s) /\ n # 0
      BY <1>1, <2>2
    <3>2. s[n] = Slash
      BY <3>1 DEF Spelling
    <3> QED BY <3>1, <3>2, TrimmedLenIs
  <2> QED BY <1>1, <2>1, <2>2
<1>3. TrimEnd(s) \in Identifier /\ Len(TrimEnd(s)) = Len(t)
  BY <1>2, TrimEndIs
<1>4. \A i \in 1..Len(TrimEnd(s)) : TrimEnd(s)[i] = t[i]
  BY <1>3, TrimEndIs DEF Spelling
<1> QED BY <1>3, <1>4, SeqEqual DEF Identifier

-----------------------------------------------------------------------------
(* The address of a place.                                                   *)

Body(p) == [i \in 1..(2 * Len(p)) |-> IF i % 2 = 1 THEN Slash ELSE p[i \div 2]]

LEMMA Halves ==
  ASSUME NEW n \in Nat, NEW i \in 1..(2 * n)
  PROVE  \E j \in 1..n : \/ i = 2 * j - 1 /\ i % 2 = 1
                         \/ i = 2 * j /\ i % 2 = 0 /\ i \div 2 = j
OBVIOUS

LEMMA BodyIs ==
  ASSUME NEW p \in Seq(Name)
  PROVE  /\ Len(p) \in Nat
         /\ Body(p) \in Identifier /\ Len(Body(p)) = 2 * Len(p)
         /\ \A j \in 1..Len(p) : /\ Body(p)[2 * j - 1] = Slash
                                 /\ Body(p)[2 * j] = p[j] /\ p[j] \in Name
<1>1. Len(p) \in Nat /\ \A j \in 1..Len(p) : p[j] \in Name
  BY LenProperties, ElementOfSeq
<1>2. 2 * Len(p) \in Nat
  BY <1>1
<1>3. ASSUME NEW i \in 1..(2 * Len(p))
      PROVE  (IF i % 2 = 1 THEN Slash ELSE p[i \div 2]) \in Piece \cup {Slash}
  BY <1>1, Halves, WalkAssumption
<1>4. Body(p) \in [1..(2 * Len(p)) -> Piece \cup {Slash}]
  BY <1>3 DEF Body
<1>5. Body(p) \in Identifier
  BY <1>2, <1>4, SeqDef DEF Identifier
<1>6. Len(Body(p)) = 2 * Len(p)
  <2>1. DOMAIN Body(p) = 1..(2 * Len(p)) /\ DOMAIN Body(p) = 1..Len(Body(p))
    BY <1>4, <1>5, LenProperties DEF Identifier
  <2>2. Len(Body(p)) \in Nat
    BY <1>5, LengthOf
  <2> QED BY <1>2, <2>1, <2>2
<1>7. ASSUME NEW j \in 1..Len(p)
      PROVE  Body(p)[2 * j - 1] = Slash /\ Body(p)[2 * j] = p[j]
  <2>1. 2 * j - 1 \in 1..(2 * Len(p)) /\ 2 * j \in 1..(2 * Len(p))
    BY <1>1
  <2>2. (2 * j - 1) % 2 = 1 /\ (2 * j) % 2 = 0 /\ (2 * j) \div 2 = j
    BY <1>1
  <2> QED BY <2>1, <2>2 DEF Body
<1> QED BY <1>1, <1>5, <1>6, <1>7

LEMMA OriginTrimmed == Origin \in Identifier /\ Trimmed(Origin)
BY WalkAssumption, TrimEndIs

LEMMA AddressIs ==
  ASSUME NEW p \in Seq(Name)
  PROVE  /\ Address(p) \in Identifier /\ Trimmed(Address(p))
         /\ Address(p) = Origin \o Body(p)
         /\ Len(Address(p)) = Len(Origin) + 2 * Len(p)
         /\ \A i \in 1..Len(Address(p)) : Address(p)[i] =
              IF i <= Len(Origin) THEN Origin[i] ELSE Body(p)[i - Len(Origin)]
<1>1. Address(p) = Origin \o Body(p)
  BY DEF Address, Body
<1>2. /\ Address(p) \in Identifier /\ Len(Address(p)) = Len(Origin) + 2 * Len(p)
      /\ \A i \in 1..(Len(Origin) + 2 * Len(p)) : Address(p)[i] =
            IF i <= Len(Origin) THEN Origin[i] ELSE Body(p)[i - Len(Origin)]
  <2>1. /\ Origin \in Seq(Piece \cup {Slash}) /\ Body(p) \in Seq(Piece \cup {Slash})
        /\ Len(Body(p)) = 2 * Len(p)
    BY BodyIs, OriginTrimmed DEF Identifier
  <2>2. /\ Origin \o Body(p) \in Seq(Piece \cup {Slash})
        /\ Len(Origin \o Body(p)) = Len(Origin) + Len(Body(p))
        /\ \A i \in 1..(Len(Origin) + Len(Body(p))) : (Origin \o Body(p))[i] =
              IF i <= Len(Origin) THEN Origin[i] ELSE Body(p)[i - Len(Origin)]
    BY <2>1, ConcatProperties
  <2> HIDE DEF Address, Body
  <2> QED BY <1>1, <2>1, <2>2, Zenon DEF Identifier
<1>3. Len(Origin) \in Nat /\ Len(p) \in Nat
  BY OriginTrimmed, LengthOf, BodyIs
<1>4. Trimmed(Address(p))
  <2>1. CASE Len(p) = 0
    BY <1>2, <1>3, <2>1, OriginTrimmed DEF Trimmed
  <2>2. CASE Len(p) # 0
    <3>1. Len(p) \in 1..Len(p) /\ 2 * Len(p) > 0
      BY <1>3, <2>2
    <3>2. Body(p)[2 * Len(p)] \in Name
      BY <3>1, BodyIs
    <3>3. Address(p)[Len(Address(p))] = Body(p)[2 * Len(p)]
      BY <1>2, <1>3, <3>1
    <3> QED BY <3>2, <3>3, WalkAssumption, PieceAssumption DEF Trimmed
  <2> QED BY <2>1, <2>2
<1> QED BY <1>1, <1>2, <1>4

\* The address of a child: that of its parent, a slash and the name.
LEMMA AddressOfChild ==
  ASSUME NEW p \in Seq(Name), NEW n \in Name
  PROVE  /\ Append(p, n) \in Seq(Name)
         /\ Len(Address(Append(p, n))) = Len(Address(p)) + 2
         /\ \A i \in 1..Len(Address(p)) : Address(Append(p, n))[i] = Address(p)[i]
         /\ Address(Append(p, n))[Len(Address(p)) + 1] = Slash
         /\ Address(Append(p, n))[Len(Address(p)) + 2] = n
<1> DEFINE q == Append(p, n)
<1>1. /\ q \in Seq(Name) /\ Len(q) = Len(p) + 1 /\ q[Len(p) + 1] = n
      /\ \A i \in 1..Len(p) : q[i] = p[i]
  BY AppendProperties
<1>2. Len(p) \in Nat /\ Len(Origin) \in Nat
  BY BodyIs, OriginTrimmed, LengthOf
<1>3. \A r \in Seq(Name) : /\ Len(Address(r)) = Len(Origin) + 2 * Len(r)
                           /\ \A i \in 1..Len(Address(r)) : Address(r)[i] =
                                IF i <= Len(Origin) THEN Origin[i]
                                ELSE Body(r)[i - Len(Origin)]
  BY AddressIs
<1>4. ASSUME NEW i \in 1..(2 * Len(p)) PROVE Body(q)[i] = Body(p)[i]
  <2>1. PICK j \in 1..Len(p) : i = 2 * j - 1 \/ i = 2 * j
    BY <1>2, Halves
  <2>2. j \in 1..Len(q) /\ q[j] = p[j]
    BY <1>1, <1>2
  <2> QED BY <1>1, <2>1, <2>2, BodyIs
<1>5. Body(q)[2 * Len(p) + 1] = Slash /\ Body(q)[2 * Len(p) + 2] = n
  <2>1. Len(q) \in 1..Len(q)
    BY <1>1, <1>2
  <2>2. Body(q)[2 * Len(q) - 1] = Slash /\ Body(q)[2 * Len(q)] = q[Len(q)]
    BY <1>1, <2>1, BodyIs
  <2>3. 2 * Len(q) - 1 = 2 * Len(p) + 1 /\ 2 * Len(q) = 2 * Len(p) + 2
    BY <1>1, <1>2
  <2> QED BY <1>1, <2>2, <2>3
<1>6. Len(Address(q)) = Len(Address(p)) + 2
  <2>1. Len(Address(q)) = Len(Origin) + 2 * Len(q)
    BY <1>1, <1>3
  <2>2. Len(Address(p)) = Len(Origin) + 2 * Len(p)
    BY <1>3
  <2> QED BY <1>1, <1>2, <2>1, <2>2
<1>7. ASSUME NEW i \in 1..Len(Address(p)) PROVE Address(q)[i] = Address(p)[i]
  <2>1. i \in 1..Len(Address(q))
    BY <1>2, <1>3, <1>6
  <2>2. CASE i <= Len(Origin)
    BY <1>1, <1>3, <2>1, <2>2
  <2>3. CASE ~(i <= Len(Origin))
    <3>1. i - Len(Origin) \in 1..(2 * Len(p))
      BY <1>2, <1>3, <2>3
    <3> QED BY <1>1, <1>3, <1>4, <2>1, <2>3, <3>1
  <2> QED BY <2>2, <2>3
<1>8. ASSUME NEW k \in {1, 2}
      PROVE  Address(q)[Len(Address(p)) + k] = Body(q)[2 * Len(p) + k]
  <2>0. Len(Address(p)) = Len(Origin) + 2 * Len(p)
    BY <1>3
  <2>1. /\ Len(Address(p)) + k \in 1..Len(Address(q))
        /\ ~(Len(Address(p)) + k <= Len(Origin))
        /\ Len(Address(p)) + k - Len(Origin) = 2 * Len(p) + k
    BY <1>2, <2>0, <1>6
  <2> HIDE DEF q
  <2> QED BY <1>1, <1>3, <2>1
<1> QED BY <1>1, <1>5, <1>6, <1>7, <1>8

-----------------------------------------------------------------------------
(* The steps of a caller.                                                    *)

\* What TrimStart leaves begins at the first position without a slash.
LEMMA TrimStartIs ==
  ASSUME NEW s \in Identifier, NEW k \in 1..(Len(s) + 1),
         k = Len(s) + 1 \/ s[k] # Slash, \A i \in 1..(k - 1) : s[i] = Slash
  PROVE  TrimStart(s) = SubSeq(s, k, Len(s))
<1>1. Len(s) \in Nat
  BY LengthOf
<1>2. ASSUME NEW m \in 1..(Len(s) + 1), m = Len(s) + 1 \/ s[m] # Slash,
             \A i \in 1..(m - 1) : s[i] = Slash
      PROVE  m = k
  <2>1. ASSUME m < k PROVE FALSE
    <3>1. m \in 1..(k - 1) /\ m # Len(s) + 1
      BY <1>1, <2>1
    <3> QED BY <1>2, <3>1
  <2>2. ASSUME k < m PROVE FALSE
    <3>1. k \in 1..(m - 1) /\ k # Len(s) + 1
      BY <1>1, <2>2
    <3> QED BY <1>2, <3>1
  <2> QED BY <1>1, <2>1, <2>2
<1>3. (CHOOSE m \in 1..(Len(s) + 1) :
         /\ m = Len(s) + 1 \/ s[m] # Slash
         /\ \A i \in 1..(m - 1) : s[i] = Slash) = k
  BY <1>2
<1> QED BY <1>3 DEF TrimStart

LEMMA SegmentIs ==
  ASSUME NEW n \in Name, NEW segment \in Spellings(n)
  PROVE  TrimStart(segment) \in {<<n>>, <<n, Slash>>}
<1>0. n \in Piece /\ n # Slash
  BY WalkAssumption, PieceAssumption
<1>1. CASE segment = <<n>>
  <2>1. segment \in Identifier /\ Len(segment) = 1 /\ segment[1] = n
    BY <1>0, <1>1 DEF Identifier
  <2>2. TrimStart(segment) = SubSeq(segment, 1, 1)
    BY <1>0, <2>1, TrimStartIs
  <2> QED BY <1>1, <2>2
<1>2. CASE segment = <<Slash, n>>
  <2>1. /\ segment \in Identifier /\ Len(segment) = 2
        /\ segment[1] = Slash /\ segment[2] = n
    BY <1>0, <1>2 DEF Identifier
  <2>2. 2 \in 1..(Len(segment) + 1) /\ \A i \in 1..(2 - 1) : segment[i] = Slash
    BY <2>1
  <2>3. TrimStart(segment) = SubSeq(segment, 2, Len(segment))
    BY <1>0, <2>1, <2>2, TrimStartIs
  <2> QED BY <1>2, <2>1, <2>3
<1>3. CASE segment = <<n, Slash>>
  <2>1. segment \in Identifier /\ Len(segment) = 2 /\ segment[1] = n
    BY <1>0, <1>3 DEF Identifier
  <2>2. TrimStart(segment) = SubSeq(segment, 1, 2)
    BY <1>0, <2>1, TrimStartIs
  <2> QED BY <1>3, <2>2
<1> QED BY <1>1, <1>2, <1>3 DEF Spellings

LEMMA JoinIsChild ==
  ASSUME NEW s \in Identifier, NEW p \in Seq(Name), TrimEnd(s) = Address(p),
         NEW n \in Name, NEW segment \in Spellings(n)
  PROVE  /\ Join(s, segment) \in Identifier
         /\ TrimEnd(Join(s, segment)) = Address(Append(p, n))
<1> DEFINE a == Address(p)
           u == TrimStart(segment)
           j == Join(s, segment)
           b == Address(Append(p, n))
<1>0. n \in Piece /\ n # Slash
  BY WalkAssumption, PieceAssumption
<1>1. a \in Identifier /\ Len(a) \in Nat
  BY AddressIs, LengthOf
<1>2. u \in {<<n>>, <<n, Slash>>}
  BY SegmentIs
<1>3. u \in Identifier /\ Len(u) \in {1, 2} /\ u[1] = n /\ (Len(u) = 2 => u[2] = Slash)
  <2> HIDE DEF u
  <2>1. CASE u = <<n>>
    BY <1>0, <2>1 DEF Identifier
  <2>2. CASE u = <<n, Slash>>
    BY <1>0, <2>2 DEF Identifier
  <2> QED BY <1>2, <2>1, <2>2
<1>4. j = Append(a, Slash) \o u
  <2>1. a \o <<Slash>> = Append(a, Slash)
    BY <1>1, AppendIsConcat DEF Identifier
  <2> QED BY <2>1 DEF Join
<1>5. /\ Append(a, Slash) \in Identifier /\ Len(Append(a, Slash)) = Len(a) + 1
      /\ \A i \in 1..Len(a) : Append(a, Slash)[i] = a[i]
      /\ Append(a, Slash)[Len(a) + 1] = Slash
  BY <1>1, AppendProperties DEF Identifier
<1>6. /\ j \in Identifier /\ Len(j) = Len(a) + 1 + Len(u)
      /\ \A i \in 1..(Len(a) + 1) : j[i] = Append(a, Slash)[i]
      /\ \A i \in 1..Len(u) : j[Len(a) + 1 + i] = u[i]
  <2> HIDE DEF a, u, j
  <2>1. /\ j \in Identifier /\ Len(j) = Len(a) + 1 + Len(u)
        /\ \A i \in 1..(Len(a) + 1 + Len(u)) : j[i] =
              IF i <= Len(a) + 1 THEN Append(a, Slash)[i] ELSE u[i - (Len(a) + 1)]
    BY <1>3, <1>4, <1>5, ConcatProperties DEF Identifier
  <2>2. ASSUME NEW i \in 1..Len(u)
        PROVE  /\ Len(a) + 1 + i \in 1..(Len(a) + 1 + Len(u))
               /\ ~(Len(a) + 1 + i <= Len(a) + 1)
               /\ Len(a) + 1 + i - (Len(a) + 1) = i
    BY <1>1, <1>3
  <2>3. \A i \in 1..(Len(a) + 1) : i \in 1..(Len(a) + 1 + Len(u)) /\ i <= Len(a) + 1
    BY <1>1, <1>3
  <2> QED BY <2>1, <2>2, <2>3
<1>7. /\ b \in Identifier /\ Trimmed(b) /\ Len(b) = Len(a) + 2
      /\ \A i \in 1..Len(a) : b[i] = a[i]
      /\ b[Len(a) + 1] = Slash /\ b[Len(a) + 2] = n
  BY AddressOfChild, AddressIs
<1>8. Spelling(j, b)
  <2> HIDE DEF a, u, j, b
  <2>1. Len(b) <= Len(j)
    BY <1>1, <1>3, <1>6, <1>7
  <2>2. ASSUME NEW i \in 1..Len(b) PROVE j[i] = b[i]
    <3>1. i \in 1..Len(a) \/ i = Len(a) + 1 \/ i = Len(a) + 2
      BY <1>1, <1>7
    <3>2. CASE i \in 1..Len(a)
      <4>1. i \in 1..(Len(a) + 1)
        BY <1>1, <3>2
      <4> QED BY <1>5, <1>6, <1>7, <3>2, <4>1
    <3>3. CASE i = Len(a) + 1
      <4>1. i \in 1..(Len(a) + 1)
        BY <1>1, <3>3
      <4> QED BY <1>5, <1>6, <1>7, <3>3, <4>1
    <3>4. CASE i = Len(a) + 2
      <4>1. 1 \in 1..Len(u) /\ i = Len(a) + 1 + 1
        BY <1>1, <1>3, <3>4
      <4> QED BY <1>3, <1>6, <1>7, <3>4, <4>1
    <3> QED BY <3>1, <3>2, <3>3, <3>4
  <2>3. ASSUME NEW i \in (Len(b) + 1)..Len(j) PROVE j[i] = Slash
    <3>1. Len(u) = 2 /\ 2 \in 1..Len(u) /\ i = Len(a) + 1 + 2
      BY <1>1, <1>3, <1>6, <1>7
    <3> QED BY <1>3, <1>6, <3>1
  <2> QED BY <2>1, <2>2, <2>3 DEF Spelling
<1> QED BY <1>6, <1>7, <1>8, TrimEndOf

LEMMA ParentIs ==
  ASSUME NEW s \in Identifier
  PROVE  LET at == LastSlash(TrimEnd(s))
         IN  /\ at \in 0..Len(TrimEnd(s)) /\ Len(TrimEnd(s)) <= Len(s)
             /\ at # 0 => /\ TrimEnd(s)[at] = Slash
                          /\ \A i \in 1..at : s[i] = TrimEnd(s)[i]
                          /\ Parent(s) \in Identifier /\ Len(Parent(s)) = at + 1
                          /\ \A i \in 1..at : Parent(s)[i] = s[i]
                          /\ Parent(s)[at + 1] = Slash
             /\ at = 0 => Parent(s) = NoIdentifier
<1> DEFINE t == TrimEnd(s)
           at == LastSlash(t)
<1>1. /\ t \in Identifier /\ Len(t) <= Len(s) /\ Len(t) \in Nat /\ Len(s) \in Nat
      /\ \A i \in 1..Len(t) : s[i] = t[i]
  BY TrimEndIs, LengthOf DEF Spelling
<1>2. at \in 0..Len(t) /\ (at = 0 \/ t[at] = Slash)
  BY <1>1, LastSlashIs
<1>3. ASSUME at # 0
      PROVE  /\ Parent(s) \in Identifier /\ Len(Parent(s)) = at + 1
             /\ \A i \in 1..at : Parent(s)[i] = s[i]
             /\ Parent(s)[at + 1] = Slash
  <2> DEFINE f == SubSeq(s, 1, at)
  <2>1. f \in Identifier /\ Len(f) = at /\ \A i \in 1..at : f[i] = s[i]
    BY <1>1, <1>2, FrontOf
  <2>2. Parent(s) = Append(f, Slash)
    BY <1>3 DEF Parent
  <2> HIDE DEF f, at
  <2>3. /\ Append(f, Slash) \in Identifier /\ Len(Append(f, Slash)) = Len(f) + 1
        /\ \A i \in 1..Len(f) : Append(f, Slash)[i] = f[i]
        /\ Append(f, Slash)[Len(f) + 1] = Slash
    BY <2>1, AppendProperties DEF Identifier
  <2> QED BY <2>1, <2>2, <2>3
<1>4. at = 0 => Parent(s) = NoIdentifier
  BY DEF Parent
<1>5. \A i \in 1..at : i \in 1..Len(t)
  BY <1>1, <1>2
<1> QED BY <1>1, <1>2, <1>3, <1>4, <1>5

\* A parent is shorter than its child, trailing slashes aside.
LEMMA ParentIsShorter ==
  ASSUME NEW s \in Identifier, Parent(s) # NoIdentifier
  PROVE  Parent(s) \in Identifier /\ Len(TrimEnd(Parent(s))) < Len(TrimEnd(s))
<1> DEFINE t == TrimEnd(s)
           at == LastSlash(t)
           q == Parent(s)
<1>1. /\ at \in 1..Len(t) /\ Len(t) \in Nat /\ t[at] = Slash /\ s[at] = t[at]
      /\ q \in Identifier /\ Len(q) = at + 1 /\ q[at] = s[at] /\ q[at + 1] = Slash
  <2>1. at # 0
    BY ParentIs
  <2>2. Len(t) \in Nat /\ at \in 0..Len(t)
    BY TrimEndIs, LengthOf, ParentIs
  <2>3. at \in 1..at /\ at \in 1..Len(t)
    BY <2>1, <2>2
  <2> QED BY <2>1, <2>2, <2>3, ParentIs
<1> HIDE DEF at, t, q
<1>2. TrimmedLen(q) \in 0..(at + 1) /\ (TrimmedLen(q) = 0 \/ q[TrimmedLen(q)] # Slash)
  BY <1>1, TrimmedLenIs
<1>3. TrimmedLen(q) # at /\ TrimmedLen(q) # at + 1
  BY <1>1, <1>2
<1>4. TrimmedLen(q) < Len(t)
  BY <1>1, <1>2, <1>3
<1> QED BY <1>1, <1>4, TrimEndIs DEF q, t

\* The parent of a child is the place the child is in.
LEMMA ParentOfChild ==
  ASSUME NEW s \in Identifier, NEW p \in Seq(Name), NEW n \in Name,
         TrimEnd(s) = Address(Append(p, n))
  PROVE  TrimEnd(Parent(s)) = Address(p)
<1> DEFINE a == Address(p)
           b == Address(Append(p, n))
           at == LastSlash(b)
           q == Parent(s)
<1>0. n # Slash
  BY WalkAssumption, PieceAssumption
<1>1. /\ a \in Identifier /\ Trimmed(a) /\ Len(a) \in Nat
      /\ b \in Identifier /\ Len(b) = Len(a) + 2
      /\ \A i \in 1..Len(a) : b[i] = a[i]
      /\ b[Len(a) + 1] = Slash /\ b[Len(a) + 2] = n
  BY AddressOfChild, AddressIs, LengthOf
<1>2. at = Len(a) + 1
  <2>1. /\ at \in 0..Len(b) /\ (at = 0 \/ b[at] = Slash)
        /\ \A i \in (at + 1)..Len(b) : b[i] # Slash
    BY <1>1, LastSlashIs
  <2> HIDE DEF a, b, at
  <2>2. at # Len(a) + 2
    BY <1>0, <1>1, <2>1
  <2>3. ASSUME at < Len(a) + 1 PROVE FALSE
    <3>1. Len(a) + 1 \in (at + 1)..Len(b)
      BY <1>1, <2>1, <2>3
    <3> QED BY <1>1, <2>1, <3>1
  <2> QED BY <1>1, <2>1, <2>2, <2>3
<1>3. /\ q \in Identifier /\ Len(q) = Len(a) + 2
      /\ \A i \in 1..(Len(a) + 1) : q[i] = b[i]
      /\ q[Len(a) + 2] = Slash
  <2>1. /\ q \in Identifier /\ Len(q) = at + 1
        /\ \A i \in 1..at : q[i] = s[i] /\ s[i] = b[i]
        /\ q[at + 1] = Slash
    BY <1>1, <1>2, ParentIs
  <2> HIDE DEF a, b, at, q
  <2> QED BY <1>1, <1>2, <2>1
<1> HIDE DEF a, b, at, q
<1>4. Spelling(q, a)
  <2>1. ASSUME NEW i \in 1..Len(a) PROVE q[i] = a[i]
    <3>1. i \in 1..(Len(a) + 1)
      BY <1>1
    <3> QED BY <1>1, <1>3, <3>1
  <2>2. ASSUME NEW i \in (Len(a) + 1)..Len(q) PROVE q[i] = Slash
    <3>1. i = Len(a) + 1 \/ i = Len(a) + 2
      BY <1>1, <1>3
    <3>2. Len(a) + 1 \in 1..(Len(a) + 1)
      BY <1>1
    <3> QED BY <1>1, <1>3, <3>1, <3>2
  <2> QED BY <1>1, <1>3, <2>1, <2>2 DEF Spelling
<1>5. TrimEnd(q) = a
  BY <1>1, <1>3, <1>4, TrimEndOf
<1> QED BY <1>5 DEF a, q

LEMMA RespelledIs ==
  ASSUME NEW s \in Identifier, NEW r \in {AsContainer(s), AsDocument(s)}
  PROVE  r \in Identifier /\ TrimEnd(r) = TrimEnd(s)
<1> DEFINE t == TrimEnd(s)
<1>1. /\ t \in Identifier /\ Trimmed(t) /\ Spelling(s, t)
      /\ Len(t) \in Nat /\ Len(s) \in Nat
  BY TrimEndIs, LengthOf
<1> HIDE DEF t
<1>2. CASE r = s
  BY <1>2
<1>3. CASE r = t
  <2>1. Spelling(r, t)
    BY <1>1, <1>3 DEF Spelling
  <2> QED BY <1>1, <1>3, <2>1, TrimEndOf DEF t
<1>4. CASE r = Append(s, Slash)
  <2>1. /\ r \in Identifier /\ Len(r) = Len(s) + 1
        /\ \A i \in 1..Len(s) : r[i] = s[i]
        /\ r[Len(s) + 1] = Slash
    BY <1>4, AppendProperties DEF Identifier
  <2>2. Spelling(r, t)
    <3>1. \A i \in 1..Len(t) : i \in 1..Len(s)
      BY <1>1 DEF Spelling
    <3>2. ASSUME NEW i \in (Len(t) + 1)..Len(r) PROVE r[i] = Slash
      <4>1. i = Len(s) + 1 \/ (i \in (Len(t) + 1)..Len(s) /\ i \in 1..Len(s))
        BY <1>1, <2>1
      <4> QED BY <1>1, <2>1, <4>1 DEF Spelling
    <3> QED BY <1>1, <2>1, <3>1, <3>2 DEF Spelling
  <2> QED BY <1>1, <2>1, <2>2, TrimEndOf DEF t
<1> QED BY <1>2, <1>3, <1>4 DEF AsContainer, AsDocument, t

-----------------------------------------------------------------------------
(* The walk.                                                                 *)

WalkInv ==
  /\ id \in Identifier /\ place \in Seq(Name) /\ above \in Nat
  /\ IF above = 0 THEN TrimEnd(id) = Address(place) ELSE place = <<>>

LEMMA WalkStart == WalkInit => WalkInv
<1> SUFFICES ASSUME WalkInit PROVE WalkInv
  OBVIOUS
<1>1. /\ Origin \in Identifier /\ Trimmed(Origin) /\ Len(Origin) \in Nat
  BY OriginTrimmed, LengthOf
<1>2. <<>> \in Seq(Name) /\ Len(<<>>) = 0
  BY EmptySeq
<1>3. ASSUME NEW r \in Seq(Name), Len(r) = 0
      PROVE  Address(r) \in Identifier /\ Address(r) = Origin
  <2>1. Address(r) \in Identifier /\ Len(Address(r)) = Len(Origin) + 2 * Len(r)
    BY AddressIs
  <2>2. Len(Address(r)) = Len(Origin)
    BY <1>1, <1>3, <2>1
  <2>3. \A i \in 1..Len(Origin) : Address(r)[i] = Origin[i]
    BY <1>1, <2>2, AddressIs
  <2> QED BY <1>1, <2>1, <2>2, <2>3, SeqEqual DEF Identifier
<1>4. /\ id \in Identifier /\ Len(id) = Len(Origin) + 1
      /\ \A i \in 1..Len(Origin) : id[i] = Origin[i]
      /\ id[Len(Origin) + 1] = Slash
  BY <1>1, AppendProperties DEF WalkInit, Identifier
<1>5. Spelling(id, Origin)
  BY <1>1, <1>4 DEF Spelling
<1>6. TrimEnd(id) = Origin
  BY <1>1, <1>4, <1>5, TrimEndOf
<1> QED BY <1>2, <1>3, <1>4, <1>6 DEF WalkInit, WalkInv

LEMMA DescendKeeps == WalkInv /\ Descend => WalkInv'
<1> SUFFICES ASSUME WalkInv, Descend PROVE WalkInv'
  OBVIOUS
<1>1. PICK n \in Name : \E segment \in Spellings(n) :
        id' = Join(id, segment) /\ place' = Append(place, n)
  BY DEF Descend
<1>2. PICK segment \in Spellings(n) :
        id' = Join(id, segment) /\ place' = Append(place, n)
  BY <1>1
<1>3. above = 0 /\ above' = above
  BY DEF Descend
<1>4. place' \in Seq(Name)
  BY <1>2, AddressOfChild DEF WalkInv
<1> QED BY <1>2, <1>3, <1>4, JoinIsChild DEF WalkInv

\* A place that is not the root is a child of the place above it.
LEMMA PlaceIsChild ==
  ASSUME NEW p \in Seq(Name), p # <<>>
  PROVE  \E q \in Seq(Name), n \in Name :
           p = Append(q, n) /\ q = SubSeq(p, 1, Len(p) - 1) /\ Len(q) = Len(p) - 1
<1> DEFINE q == SubSeq(p, 1, Len(p) - 1)
<1>1. Len(p) \in Nat \ {0} /\ \A i \in 1..Len(p) : p[i] \in Name
  BY EmptySeq, ElementOfSeq
<1>2. /\ q \in Seq(Name) /\ Len(q) = Len(p) - 1
      /\ \A i \in 1..(Len(p) - 1) : q[i] = p[i]
  <2>1. 1 \in Int /\ Len(p) - 1 \in Int /\ \A i \in 1..(Len(p) - 1) : p[i] \in Name
    BY <1>1
  <2>2. /\ q \in Seq(Name)
        /\ Len(q) = IF 1 <= Len(p) - 1 THEN Len(p) - 1 - 1 + 1 ELSE 0
        /\ \A i \in 1..(Len(p) - 1 - 1 + 1) : q[i] = p[1 + i - 1]
    BY <2>1, SubSeqProperties
  <2> HIDE DEF q
  <2>3. Len(q) = Len(p) - 1
    <3>1. PICK m \in Nat : m = Len(p) - 1
      BY <1>1
    <3>2. Len(q) = IF 1 <= m THEN m - 1 + 1 ELSE 0
      BY <2>2, <3>1, Zenon
    <3> QED BY <3>1, <3>2
  <2>4. ASSUME NEW i \in 1..(Len(p) - 1) PROVE q[i] = p[i]
    <3>1. i \in 1..(Len(p) - 1 - 1 + 1) /\ 1 + i - 1 = i
      BY <1>1
    <3> QED BY <2>2, <3>1
  <2> QED BY <2>2, <2>3, <2>4
<1>3. p[Len(p)] \in Name
  BY <1>1
<1> HIDE DEF q
<1>4. Append(q, p[Len(p)]) = p
  <2>1. /\ Append(q, p[Len(p)]) \in Seq(Name)
        /\ Len(Append(q, p[Len(p)])) = Len(q) + 1
        /\ \A i \in 1..Len(q) : Append(q, p[Len(p)])[i] = q[i]
        /\ Append(q, p[Len(p)])[Len(q) + 1] = p[Len(p)]
    BY <1>2, <1>3, AppendProperties
  <2>2. Len(Append(q, p[Len(p)])) = Len(p)
    BY <1>1, <1>2, <2>1
  <2>3. \A i \in 1..Len(p) : Append(q, p[Len(p)])[i] = p[i]
    BY <1>1, <1>2, <2>1
  <2> QED BY <2>1, <2>2, <2>3, SeqEqual
<1> QED BY <1>2, <1>3, <1>4 DEF q

LEMMA AscendKeeps == WalkInv /\ Ascend => WalkInv'
<1> SUFFICES ASSUME WalkInv, Ascend PROVE WalkInv'
  OBVIOUS
<1>1. id' = Parent(id) /\ id' \in Identifier
  BY ParentIsShorter DEF WalkInv, Ascend
<1>2. CASE place = <<>>
  <2>1. above' = above + 1 /\ place' = place
    BY <1>2 DEF Ascend
  <2> QED BY <1>1, <1>2, <2>1 DEF WalkInv
<1>3. CASE place # <<>>
  <2>1. above = 0 /\ above' = above /\ place' = SubSeq(place, 1, Len(place) - 1)
    BY <1>3 DEF WalkInv, Ascend
  <2>2. PICK q \in Seq(Name), n \in Name :
          place = Append(q, n) /\ q = SubSeq(place, 1, Len(place) - 1)
    BY <1>3, PlaceIsChild DEF WalkInv
  <2>3. TrimEnd(id') = Address(q)
    BY <1>1, <2>1, <2>2, ParentOfChild DEF WalkInv
  <2> QED BY <1>1, <2>1, <2>2, <2>3 DEF WalkInv
<1> QED BY <1>2, <1>3

LEMMA WalkNextKeeps == WalkInv /\ [WalkNext]_walkVars => WalkInv'
<1>1. ASSUME WalkInv, Respell PROVE WalkInv'
  BY <1>1, RespelledIs DEF WalkInv, Respell
<1>2. ASSUME WalkInv, UNCHANGED walkVars PROVE WalkInv'
  BY <1>2 DEF WalkInv, walkVars
<1> QED BY <1>1, <1>2, DescendKeeps, AscendKeeps DEF WalkNext

\* For any origin and names, however deep: the identifier a caller has derived
\* is that of the place it believes to be in, slashes at the end aside.
THEOREM IdentifiersKeepTheirPlace == WalkSpec => []OnlyTrailingSlashesVary
<1>1. WalkInv => OnlyTrailingSlashesVary
  BY DEF WalkInv, OnlyTrailingSlashesVary
<1> QED BY <1>1, WalkStart, WalkNextKeeps, PTL DEF WalkSpec

\* A climb by parent ends, as each parent is shorter than its child.
ClimbStep ==
  Len(place') < Len(place) \/ above' # above
    => Len(TrimEnd(id')) < Len(TrimEnd(id))

THEOREM ClimbsEnd == WalkSpec => Climbs
<1>1. WalkInv /\ [WalkNext]_walkVars => [ClimbStep]_walkVars
  <2> SUFFICES ASSUME WalkInv, WalkNext PROVE ClimbStep
    OBVIOUS
  <2>1. CASE Descend
    <3>1. above' = above /\ \E n \in Name : place' = Append(place, n)
      BY <2>1 DEF Descend
    <3>2. Len(place') = Len(place) + 1 /\ Len(place) \in Nat
      BY <3>1, AppendProperties, LenProperties DEF WalkInv
    <3> QED BY <3>1, <3>2 DEF ClimbStep
  <2>2. CASE Ascend
    BY <2>2, ParentIsShorter DEF WalkInv, Ascend, ClimbStep
  <2>3. CASE Respell
    <3>1. UNCHANGED <<place, above>> /\ Len(place) \in Nat
      BY <2>3, LenProperties DEF WalkInv, Respell
    <3> QED BY <3>1 DEF ClimbStep
  <2> QED BY <2>1, <2>2, <2>3 DEF WalkNext
<1>2. [][ClimbStep]_walkVars => Climbs
  BY DEF ClimbStep, Climbs
<1> QED BY <1>1, <1>2, WalkStart, WalkNextKeeps, PTL DEF WalkSpec

-----------------------------------------------------------------------------
(* Static assets.                                                            *)

\* Bounds of a set of positions.
LEMMA LeastIs ==
  ASSUME NEW B, B \subseteq Nat, B # {}
  PROVE  Min(B) \in B /\ \A i \in B : Min(B) <= i
<1>1. IsWellFoundedOn(Below, Nat)
  BY NatLessThanWellFounded DEF OpToRel, Below
<1>2. PICK m \in B : \A y \in B : ~(<<y, m>> \in Below)
  BY <1>1, WFMin
<1>3. ASSUME NEW y \in B PROVE m <= y
  <2>1. m \in Nat /\ y \in Nat
    OBVIOUS
  <2>2. ~(y < m)
    <3> SUFFICES ASSUME y < m PROVE FALSE
      OBVIOUS
    <3>1. <<y, m>> \in Below
      BY <2>1 DEF Below
    <3> QED BY <1>2, <3>1
  <2> QED BY <2>1, <2>2
<1> QED BY <1>3 DEF Min

LEMMA GreatestIs ==
  ASSUME NEW n \in Nat, NEW B, B \subseteq 1..n, B # {}
  PROVE  \E m \in B : \A i \in B : i <= m
<1>1. PICK m \in 0..n : /\ m = 0 \/ m \in B
                        /\ \A i \in (m + 1)..n : i \notin B
  BY LastPosition
<1>2. ASSUME NEW i \in B PROVE i <= m
  <2>1. i \in 1..n /\ i \notin (m + 1)..n
    BY <1>1, <1>2
  <2> QED BY <2>1
<1>3. m # 0
  <2>1. PICK i \in B : TRUE
    OBVIOUS
  <2>2. i <= m /\ i \in 1..n
    BY <1>2
  <2> QED BY <2>2
<1> QED BY <1>1, <1>2, <1>3

LEMMA UrlIs ==
  ASSUME NEW u \in Url
  PROVE  Clean(u) \in Seq(Character)
<1>1. PICK n \in 1..MaxUrl : u \in [1..n -> Character]
  BY DEF Url
<1>2. n \in Nat /\ u \in Seq(Character) /\ DOMAIN u = 1..n
  BY <1>1, AssetAssumption
<1> DEFINE at == {i \in DOMAIN u : u[i] = Question}
<1>3. CASE at = {}
  BY <1>2, <1>3 DEF Clean
<1>4. CASE at # {}
  <2>1. Min(at) \in at
    <3>1. at \subseteq Nat
      BY <1>2
    <3> HIDE DEF at
    <3> QED BY <1>4, <3>1, LeastIs
  <2>2. Min(at) \in 1..n
    BY <1>2, <2>1
  <2>3. Clean(u) = SubSeq(u, 1, Min(at) - 1)
    BY <1>4 DEF Clean
  <2> HIDE DEF at
  <2>4. \A i \in 1..(Min(at) - 1) : u[i] \in Character
    BY <1>1, <2>2
  <2> QED BY <2>2, <2>3, <2>4, SubSeqProperties
<1> QED BY <1>3, <1>4

\* What an entry for no longer prefix, and no later one for the same, has, is
\* what it serves.
Leads(i, u) ==
  \A j \in Matching(u) :
    \/ Len(Entries[j].url) < Len(Entries[i].url)
    \/ Len(Entries[j].url) = Len(Entries[i].url) /\ j <= i

LEMMA EntryIs ==
  ASSUME NEW i \in DOMAIN Entries
  PROVE  /\ i \in Nat \ {0} /\ i <= Len(Entries) /\ Len(Entries[i].url) \in Nat
         /\ Entries[i].url \in Seq(Character)
BY AssetAssumption, LenProperties

LEMMA BestIs ==
  ASSUME NEW u, NEW i \in Matching(u), Leads(i, u)
  PROVE  Best(u) = i
<1>1. ASSUME NEW x \in Matching(u), Leads(x, u) PROVE x = i
  <2>1. /\ x \in Nat /\ Len(Entries[x].url) \in Nat
        /\ i \in Nat /\ Len(Entries[i].url) \in Nat
    BY EntryIs DEF Matching
  <2> QED BY <1>1, <2>1 DEF Leads
<1>2. Best(u) = CHOOSE x \in Matching(u) : Leads(x, u)
  BY DEF Best, Leads
<1> QED BY <1>1, <1>2

LEMMA BestMatches ==
  ASSUME NEW u \in Seq(Character), Matching(u) # {}
  PROVE  Best(u) \in Matching(u)
<1> DEFINE L == Len(u)
           Long == {n \in 1..(L + 1) : \E i \in Matching(u) : Len(Entries[i].url) + 1 = n}
<1>1. L \in Nat
  BY LenProperties
<1>2. \A i \in Matching(u) : Len(Entries[i].url) \in 0..L
  BY <1>1, EntryIs DEF Matching, IsPrefix
<1>3. PICK n \in Long : \A m \in Long : m <= n
  <2>1. Long \subseteq 1..(L + 1) /\ L + 1 \in Nat
    BY <1>1
  <2>2. Long # {}
    <3>1. PICK i \in Matching(u) : TRUE
      OBVIOUS
    <3>2. Len(Entries[i].url) + 1 \in 1..(L + 1)
      BY <1>1, <1>2
    <3> QED BY <3>2
  <2> HIDE DEF Long, L
  <2> QED BY <2>1, <2>2, GreatestIs
<1> DEFINE Longest == {i \in Matching(u) : Len(Entries[i].url) + 1 = n}
<1>4. PICK b \in Longest : \A j \in Longest : j <= b
  <2>1. /\ Longest \subseteq 1..Len(Entries) /\ Len(Entries) \in Nat
        /\ Longest # {}
    BY <1>3, AssetAssumption DEF Matching
  <2> HIDE DEF Longest
  <2> QED BY <2>1, GreatestIs
<1>5. Leads(b, u)
  <2> SUFFICES ASSUME NEW j \in Matching(u)
               PROVE  \/ Len(Entries[j].url) < Len(Entries[b].url)
                      \/ Len(Entries[j].url) = Len(Entries[b].url) /\ j <= b
    BY DEF Leads
  <2>1. Len(Entries[j].url) + 1 \in Long
    BY <1>1, <1>2
  <2>2. /\ Len(Entries[j].url) \in Nat /\ Len(Entries[b].url) \in Nat
        /\ Len(Entries[j].url) + 1 \in 1..(L + 1)
    BY <1>1, <1>2, <1>4
  <2>3. Len(Entries[b].url) + 1 = n
    BY <1>4
  <2>4. Len(Entries[j].url) + 1 <= n /\ n \in Nat
    BY <1>3, <2>1
  <2>5. CASE Len(Entries[j].url) + 1 = n
    BY <1>4, <2>3, <2>5, <2>2
  <2> QED BY <2>2, <2>3, <2>4, <2>5
<1> QED BY <1>4, <1>5, BestIs

\* What is behind the prefix of the entry that serves a URL.
LEMMA SuffixIs ==
  ASSUME NEW u \in Seq(Character), NEW i \in Matching(u), Best(u) = i
  PROVE  /\ Len(Entries[i].url) \in Nat /\ Len(u) \in Nat
         /\ Len(Entries[i].url) <= Len(u)
         /\ Suffix(u) \in Seq(Character)
         /\ Len(Suffix(u)) = Len(u) - Len(Entries[i].url)
         /\ \A x \in 1..Len(Suffix(u)) : Suffix(u)[x] = u[Len(Entries[i].url) + x]
<1> DEFINE n == Len(Entries[i].url)
<1>1. n \in Nat /\ Len(u) \in Nat /\ n <= Len(u)
  BY EntryIs, LenProperties DEF Matching, IsPrefix
<1>2. Suffix(u) = SubSeq(u, n + 1, Len(u))
  BY DEF Suffix
<1> HIDE DEF n
<1>3. \A x \in (n + 1)..Len(u) : u[x] \in Character
  BY <1>1, LenProperties
<1>4. /\ SubSeq(u, n + 1, Len(u)) \in Seq(Character)
      /\ Len(SubSeq(u, n + 1, Len(u))) =
           IF n + 1 <= Len(u) THEN Len(u) - (n + 1) + 1 ELSE 0
      /\ \A x \in 1..(Len(u) - (n + 1) + 1) :
           SubSeq(u, n + 1, Len(u))[x] = u[(n + 1) + x - 1]
  BY <1>1, <1>3, SubSeqProperties
<1>5. Suffix(u) \in Seq(Character) /\ Len(Suffix(u)) = Len(u) - n
  BY <1>1, <1>2, <1>4
<1>6. \A x \in 1..Len(Suffix(u)) : Suffix(u)[x] = u[n + x]
  <2> SUFFICES ASSUME NEW x \in 1..Len(Suffix(u)) PROVE Suffix(u)[x] = u[n + x]
    OBVIOUS
  <2>1. x \in 1..(Len(u) - (n + 1) + 1) /\ (n + 1) + x - 1 = n + x
    BY <1>1, <1>5
  <2> QED BY <1>2, <1>4, <2>1
<1> QED BY <1>1, <1>5, <1>6 DEF n

\* What WithoutSlashes leaves of a suffix: all from a certain place.
LEMMA WithoutSlashesIs ==
  ASSUME NEW s \in Seq(Character)
  PROVE  \E m \in 1..(Len(s) + 1) :
           /\ m = Len(s) + 1 \/ s[m] # Separator
           /\ \A x \in 1..(m - 1) : s[x] = Separator
           /\ WithoutSlashes(s) \in Seq(Character)
           /\ Len(WithoutSlashes(s)) = Len(s) + 1 - m
           /\ \A x \in 1..(Len(s) + 1 - m) : WithoutSlashes(s)[x] = s[m + x - 1]
<1> DEFINE Good == {i \in 1..(Len(s) + 1) : i = Len(s) + 1 \/ s[i] # Separator}
           m == Min(Good)
<1>1. Len(s) \in Nat /\ \A x \in 1..Len(s) : s[x] \in Character
  BY LenProperties
<1>2. m \in Good /\ \A i \in Good : m <= i
  <2>1. Good \subseteq Nat /\ Len(s) + 1 \in Good
    BY <1>1
  <2> HIDE DEF Good
  <2> QED BY <2>1, LeastIs
<1>3. WithoutSlashes(s) = SubSeq(s, m, Len(s))
  BY DEF WithoutSlashes
<1> HIDE DEF m
<1>4. m \in 1..(Len(s) + 1) /\ (m = Len(s) + 1 \/ s[m] # Separator)
  BY <1>2
<1>5. ASSUME NEW x \in 1..(m - 1) PROVE s[x] = Separator
  <2>1. x \in 1..(Len(s) + 1) /\ ~(m <= x) /\ x # Len(s) + 1
    BY <1>1, <1>4
  <2> QED BY <1>2, <2>1
<1>6. /\ SubSeq(s, m, Len(s)) \in Seq(Character)
      /\ Len(SubSeq(s, m, Len(s))) = IF m <= Len(s) THEN Len(s) - m + 1 ELSE 0
      /\ \A x \in 1..(Len(s) - m + 1) : SubSeq(s, m, Len(s))[x] = s[m + x - 1]
  <2>1. \A x \in m..Len(s) : s[x] \in Character
    BY <1>1, <1>4
  <2> QED BY <1>1, <1>4, <2>1, SubSeqProperties
<1>7. /\ Len(s) + 1 - m = Len(s) - m + 1
      /\ Len(s) + 1 - m = IF m <= Len(s) THEN Len(s) - m + 1 ELSE 0
  BY <1>1, <1>4
<1> QED BY <1>3, <1>4, <1>5, <1>6, <1>7

\* No file is taken from outside of a directory.
LEMMA NothingOutside ==
  ASSUME NEW u \in Seq(Character), Resolvable(u)
  PROVE  ~Contains(Resolved(u).path, Dots)
<1>1. PICK i \in Matching(u) : Best(u) = i
  BY BestMatches DEF Resolvable
<1> DEFINE s == Suffix(u)
<1>2. s \in Seq(Character) /\ ~Contains(s, Dots) /\ Resolved(u).path = WithoutSlashes(s)
  BY <1>1, SuffixIs DEF Resolvable, Resolved
<1> HIDE DEF s
<1>3. PICK m \in 1..(Len(s) + 1) :
        /\ Len(WithoutSlashes(s)) = Len(s) + 1 - m
        /\ \A x \in 1..(Len(s) + 1 - m) : WithoutSlashes(s)[x] = s[m + x - 1]
  BY <1>2, WithoutSlashesIs
<1>4. Len(s) \in Nat
  BY <1>2, LenProperties
<1>5. ASSUME NEW x \in 1..Len(WithoutSlashes(s)), WithoutSlashes(s)[x] = Dots
      PROVE  FALSE
  <2>1. m + x - 1 \in 1..Len(s) /\ s[m + x - 1] = Dots
    BY <1>3, <1>4, <1>5
  <2> QED BY <1>2, <2>1 DEF Contains
<1> QED BY <1>2, <1>5 DEF Contains

LEMMA OneOf ==
  ASSUME NEW S, NEW x \in S
  PROVE  <<x>> \in Seq(S) /\ Len(<<x>>) = 1 /\ <<x>>[1] = x
OBVIOUS

\* A prefix, one more character and the rest.
LEMMA Joined ==
  ASSUME NEW S, NEW e \in Seq(S), NEW x \in S, NEW p \in Seq(S),
         NEW u, u = e \o <<x>> \o p
  PROVE  /\ Len(u) = Len(e) + 1 + Len(p)
         /\ \A i \in 1..Len(e) : u[i] = e[i]
         /\ u[Len(e) + 1] = x
         /\ \A i \in 1..Len(p) : u[Len(e) + 1 + i] = p[i]
<1>1. PICK one \in Seq(S) : one = <<x>> /\ Len(one) = 1 /\ one[1] = x
  BY OneOf
<1>2. PICK n \in Nat : n = Len(e)
  BY LenProperties
<1>3. PICK m \in Nat : m = Len(p)
  BY LenProperties
<1>4. PICK f : f = e \o one
  OBVIOUS
<1>5. f \in Seq(S) /\ Len(f) = Len(e) + Len(one)
      /\ \A i \in 1..(Len(e) + Len(one)) :
           f[i] = IF i <= Len(e) THEN e[i] ELSE one[i - Len(e)]
  BY <1>4, ConcatProperties
<1>6. f \in Seq(S) /\ Len(f) = n + 1
      /\ \A i \in 1..(n + 1) : f[i] = IF i <= n THEN e[i] ELSE x
  <2>1. \A i \in 1..(n + 1) : i <= n \/ i - n = 1
    OBVIOUS
  <2> QED BY <1>1, <1>2, <1>5, <2>1
<1>7. u = f \o p
  BY <1>1, <1>4
<1>8. /\ Len(f \o p) = Len(f) + Len(p)
      /\ \A i \in 1..(Len(f) + Len(p)) :
           (f \o p)[i] = IF i <= Len(f) THEN f[i] ELSE p[i - Len(f)]
  <2>1. f \in Seq(S)
    BY <1>6
  <2> QED BY <2>1, ConcatProperties
<1>9. /\ Len(u) = n + 1 + m
      /\ \A i \in 1..(n + 1 + m) : u[i] = IF i <= n + 1 THEN f[i] ELSE p[i - (n + 1)]
  BY <1>3, <1>6, <1>7, <1>8
<1>10. ASSUME NEW i \in 1..n PROVE u[i] = e[i]
  <2>1. i \in 1..(n + 1) /\ i \in 1..(n + 1 + m) /\ i <= n /\ i <= n + 1
    OBVIOUS
  <2> QED BY <1>6, <1>9, <2>1
<1>11. u[n + 1] = x
  <2>1. n + 1 \in 1..(n + 1) /\ n + 1 \in 1..(n + 1 + m) /\ ~(n + 1 <= n)
    OBVIOUS
  <2> QED BY <1>6, <1>9, <2>1
<1>12. ASSUME NEW i \in 1..m PROVE u[n + 1 + i] = p[i]
  <2>1. /\ n + 1 + i \in 1..(n + 1 + m) /\ ~(n + 1 + i <= n + 1)
        /\ (n + 1 + i) - (n + 1) = i
    OBVIOUS
  <2> QED BY <1>9, <2>1
<1> QED BY <1>2, <1>3, <1>9, <1>10, <1>11, <1>12

\* What is before the rest, and what is behind the slash before it.
LEMMA PrefixIs ==
  ASSUME NEW S, NEW e \in Seq(S), NEW u \in Seq(S), Len(e) <= Len(u),
         \A i \in 1..Len(e) : u[i] = e[i]
  PROVE  IsPrefix(e, u)
<1>1. PICK n \in Nat : n = Len(e)
  BY LenProperties
<1>2. \A i \in 1..n : e[i] \in S /\ u[i] \in S
  BY <1>1, LenProperties
<1>3. /\ SubSeq(e, 1, n) \in Seq(S) /\ SubSeq(u, 1, n) \in Seq(S)
      /\ Len(SubSeq(e, 1, n)) = IF 1 <= n THEN n - 1 + 1 ELSE 0
      /\ Len(SubSeq(u, 1, n)) = IF 1 <= n THEN n - 1 + 1 ELSE 0
      /\ \A i \in 1..(n - 1 + 1) : SubSeq(e, 1, n)[i] = e[1 + i - 1]
      /\ \A i \in 1..(n - 1 + 1) : SubSeq(u, 1, n)[i] = u[1 + i - 1]
  BY <1>2, SubSeqProperties
<1>4. PICK s, t : s = SubSeq(e, 1, n) /\ t = SubSeq(u, 1, n)
  OBVIOUS
<1>5. /\ s \in Seq(S) /\ t \in Seq(S) /\ Len(s) = n /\ Len(t) = n
      /\ \A i \in 1..n : s[i] = e[i] /\ t[i] = u[i]
  <2>1. \A i \in 1..n : i \in 1..(n - 1 + 1) /\ 1 + i - 1 = i
    OBVIOUS
  <2> QED BY <1>3, <1>4, <2>1
<1>6. s = t
  BY <1>1, <1>5, SeqEqual
<1> QED BY <1>1, <1>4, <1>6 DEF IsPrefix

LEMMA RestIs ==
  ASSUME NEW s \in Seq(Character), NEW p \in Seq(Character), Len(s) = Len(p) + 1,
         s[1] = Separator, \A x \in 1..Len(p) : s[x + 1] = p[x],
         p = <<>> \/ p[1] # Separator
  PROVE  WithoutSlashes(s) = p
<1>1. PICK l \in Nat : l = Len(p) /\ Len(s) = l + 1
  BY LenProperties
<1>2. PICK m \in 1..(l + 2) :
        /\ m = l + 2 \/ s[m] # Separator
        /\ \A x \in 1..(m - 1) : s[x] = Separator
        /\ WithoutSlashes(s) \in Seq(Character)
        /\ Len(WithoutSlashes(s)) = l + 2 - m
        /\ \A x \in 1..(l + 2 - m) : WithoutSlashes(s)[x] = s[m + x - 1]
  <2>1. Len(s) + 1 = l + 2
    BY <1>1
  <2>2. PICK m \in 1..(Len(s) + 1) :
           /\ m = Len(s) + 1 \/ s[m] # Separator
           /\ \A x \in 1..(m - 1) : s[x] = Separator
           /\ WithoutSlashes(s) \in Seq(Character)
           /\ Len(WithoutSlashes(s)) = Len(s) + 1 - m
           /\ \A x \in 1..(Len(s) + 1 - m) : WithoutSlashes(s)[x] = s[m + x - 1]
    BY WithoutSlashesIs
  <2>3. m \in 1..(l + 2)
    BY <2>1
  <2> WITNESS m \in 1..(l + 2)
  <2> QED BY <2>1, <2>2
<1>3. m # 1
  BY <1>2
<1>4. ~(2 < m)
  <2> SUFFICES ASSUME 2 < m PROVE FALSE
    OBVIOUS
  <2>1. 2 \in 1..(m - 1) /\ 1 \in 1..l /\ 1 + 1 = 2
    BY <1>1
  <2>2. p[1] = Separator
    BY <1>1, <1>2, <2>1
  <2>3. p # <<>>
    BY <1>1, <2>1
  <2> QED BY <2>2, <2>3
<1>5. m = 2 /\ l + 2 - m = l
  BY <1>3, <1>4
<1>6. ASSUME NEW x \in 1..l PROVE WithoutSlashes(s)[x] = p[x]
  <2>1. m + x - 1 = x + 1
    BY <1>5
  <2> QED BY <1>1, <1>2, <1>5, <2>1
<1>7. PICK w \in Seq(Character) : w = WithoutSlashes(s)
  BY <1>2
<1>8. Len(w) = Len(p) /\ \A x \in 1..Len(w) : w[x] = p[x]
  BY <1>1, <1>2, <1>5, <1>6, <1>7
<1> QED BY <1>7, <1>8, SeqEqual

\* The URL of a file leads to the file.
LEMMA FileIsFound ==
  ASSUME NEW u \in Seq(Character), NEW i \in DOMAIN Entries, NEW p \in Seq(Character),
         u = UrlOf(i, p), ~Contains(p, Dots), p = <<>> \/ p[1] # Separator,
         ~\E j \in DOMAIN Entries : Shadows(j, i, u)
  PROVE  Resolvable(u) /\ Resolved(u) = [dir |-> Entries[i].dir, path |-> p]
<1>1. PICK e \in Seq(Character) : e = Entries[i].url
  BY EntryIs
<1>2. PICK n \in Nat : n = Len(e)
  BY LenProperties
<1>3. PICK l \in Nat : l = Len(p)
  BY LenProperties
<1>4. /\ Len(u) = n + 1 + l
      /\ \A x \in 1..n : u[x] = e[x]
      /\ u[n + 1] = Separator
      /\ \A x \in 1..l : u[n + 1 + x] = p[x]
  <2>1. Separator \in Character /\ u = e \o <<Separator>> \o p
    BY <1>1 DEF UrlOf, Character
  <2> QED BY <1>2, <1>3, <2>1, Joined
<1>5. i \in Matching(u)
  <2>1. Len(e) <= Len(u) /\ \A x \in 1..Len(e) : u[x] = e[x]
    BY <1>2, <1>4
  <2> QED BY <1>1, <2>1, PrefixIs DEF Matching
<1>6. Best(u) = i
  <2>1. Leads(i, u)
    <3> SUFFICES ASSUME NEW j \in Matching(u)
                 PROVE  \/ Len(Entries[j].url) < Len(Entries[i].url)
                        \/ Len(Entries[j].url) = Len(Entries[i].url) /\ j <= i
      BY DEF Leads
    <3>1. j \in DOMAIN Entries /\ IsPrefix(Entries[j].url, u)
      BY DEF Matching
    <3>2. ~(Len(Entries[j].url) > Len(Entries[i].url))
      BY <3>1 DEF Shadows
    <3>3. ~(Len(Entries[j].url) = Len(Entries[i].url) /\ j > i)
      BY <3>1 DEF Shadows
    <3>4. /\ j \in Nat /\ i \in Nat /\ Len(Entries[j].url) \in Nat
          /\ Len(Entries[i].url) \in Nat
      BY <3>1, EntryIs
    <3> QED BY <3>2, <3>3, <3>4
  <2> QED BY <1>5, <2>1, BestIs
<1>7. PICK s \in Seq(Character) :
        /\ s = Suffix(u) /\ Len(s) = Len(u) - n
        /\ \A x \in 1..Len(s) : s[x] = u[n + x]
  BY <1>1, <1>2, <1>5, <1>6, SuffixIs
<1>8. Len(s) = l + 1
  BY <1>4, <1>7
<1>9. s[1] = Separator
  <2>1. 1 \in 1..Len(s)
    BY <1>8
  <2> QED BY <1>4, <1>7, <2>1
<1>10. ASSUME NEW x \in 1..l PROVE s[x + 1] = p[x]
  <2>1. x + 1 \in 1..Len(s) /\ n + (x + 1) = n + 1 + x
    BY <1>8
  <2>2. s[x + 1] = u[n + (x + 1)]
    BY <1>7, <2>1
  <2> QED BY <1>4, <2>1, <2>2
<1>11. ~Contains(s, Dots)
  <2> SUFFICES ASSUME NEW x \in 1..Len(s), s[x] = Dots PROVE FALSE
    BY DEF Contains
  <2>1. x # 1
    BY <1>9, AssetAssumption
  <2>2. x - 1 \in 1..l /\ (x - 1) + 1 = x
    BY <1>8, <2>1
  <2>3. p[x - 1] = Dots
    BY <1>10, <2>2
  <2> QED BY <1>3, <2>2, <2>3 DEF Contains
<1>12. WithoutSlashes(s) = p
  BY <1>3, <1>8, <1>9, <1>10, RestIs
<1>13. Resolvable(u)
  BY <1>5, <1>7, <1>11 DEF Resolvable
<1> QED BY <1>6, <1>7, <1>12, <1>13 DEF Resolved

\* What is asked for is a URL, and the file is the one it resolves to.
AssetInv ==
  /\ url = Nothing \/ url \in Url
  /\ asset = IF url # Nothing /\ Resolvable(Clean(url)) THEN Resolved(Clean(url))
            ELSE Nothing

LEMMA AssetStart == AssetInit => AssetInv
BY DEF AssetInit, AssetInv

LEMMA AssetStep == AssetInv /\ [AssetNext]_assetVars => AssetInv'
<1> SUFFICES ASSUME AssetInv, [AssetNext]_assetVars PROVE AssetInv'
  OBVIOUS
<1>1. CASE Request
  <2>1. PICK u \in Url :
          /\ url' = u
          /\ IF Resolvable(Clean(u)) THEN asset' = Resolved(Clean(u)) ELSE asset' = asset
    BY <1>1 DEF Request
  <2>2. u # Nothing /\ asset = Nothing
    BY <1>1, AssetAssumption DEF AssetInv, Request
  <2> QED BY <2>1, <2>2 DEF AssetInv
<1>2. CASE ReadFile
  BY <1>2 DEF AssetInv, ReadFile
<1>3. CASE Return
  BY <1>3 DEF AssetInv, Return
<1>4. CASE UNCHANGED assetVars
  BY <1>4 DEF AssetInv, assetVars
<1> QED BY <1>1, <1>2, <1>3, <1>4 DEF AssetNext

LEMMA AssetFound == AssetInv => MappedFilesAreFound
<1> SUFFICES ASSUME AssetInv PROVE MappedFilesAreFound
  OBVIOUS
<1>1. asset # Nothing => ~Contains(asset.path, Dots)
  BY UrlIs, NothingOutside DEF AssetInv
<1>2. ASSUME url # Nothing, NEW i \in DOMAIN Entries, NEW u, u = Clean(url),
             NEW p, p = SubSeq(u, Len(Entries[i].url) + 2, Len(u)),
             u = UrlOf(i, p), ~Contains(p, Dots), p = <<>> \/ p[1] # Separator,
             ~\E j \in DOMAIN Entries : Shadows(j, i, u)
      PROVE  asset = [dir |-> Entries[i].dir, path |-> p]
  <2>1. u \in Seq(Character)
    BY <1>2, UrlIs DEF AssetInv
  <2>2. p \in Seq(Character)
    <3>1. PICK a \in Int, b \in Int : a = Len(Entries[i].url) + 2 /\ a >= 1 /\ b = Len(u)
      BY <2>1, EntryIs, LenProperties
    <3>2. \A x \in a..b : u[x] \in Character
      BY <2>1, <3>1, LenProperties
    <3>3. SubSeq(u, a, b) \in Seq(Character)
      BY <3>2, SubSeqProperties
    <3> QED BY <1>2, <3>1, <3>3
  <2>3. Resolvable(u) /\ Resolved(u) = [dir |-> Entries[i].dir, path |-> p]
    BY <1>2, <2>1, <2>2, FileIsFound
  <2> QED BY <1>2, <2>3 DEF AssetInv
<1> QED BY <1>1, <1>2 DEF MappedFilesAreFound

\* Each mapped file has its URL, whatever entries there are and in whatever
\* order, and no file outside of a directory has one
\* (static-assets/src/handler.rs:27-51).
THEOREM MappedFilesHaveUrls == AssetSpec => []MappedFilesAreFound
BY AssetStart, AssetStep, AssetFound, PTL DEF AssetSpec

-----------------------------------------------------------------------------
(* Operations.  What the sort leaves is the ranges sent, each at one place.  *)

\* The ranges that come before that at i.
Betters(s, i) == {j \in DOMAIN s : Precedes(s, j, i)}

\* Ranges at places of a header, with qualities that compare.
Ranked(s) ==
  /\ IsFiniteSet(DOMAIN s) /\ DOMAIN s \subseteq Nat
  /\ \A i \in DOMAIN s : s[i].q \in Int

LEMMA PrecedesOrders ==
  ASSUME NEW s, Ranked(s), NEW i \in DOMAIN s, NEW j \in DOMAIN s, NEW k \in DOMAIN s
  PROVE  /\ ~Precedes(s, i, i)
         /\ i # j => Precedes(s, i, j) \/ Precedes(s, j, i)
         /\ Precedes(s, i, j) /\ Precedes(s, j, k) => Precedes(s, i, k)
<1>1. /\ i \in Nat /\ j \in Nat /\ k \in Nat
      /\ s[i].q \in Int /\ s[j].q \in Int /\ s[k].q \in Int
  BY DEF Ranked
<1> QED BY <1>1 DEF Precedes

LEMMA BettersAre ==
  ASSUME NEW s, Ranked(s), NEW i \in DOMAIN s
  PROVE  /\ IsFiniteSet(Betters(s, i)) /\ Cardinality(Betters(s, i)) \in Nat
         /\ Cardinality(Betters(s, i)) + 1 <= Cardinality(DOMAIN s)
         /\ Cardinality(DOMAIN s) \in Nat
<1>1. Betters(s, i) \subseteq DOMAIN s \ {i}
  BY PrecedesOrders DEF Betters
<1>2. /\ IsFiniteSet(DOMAIN s \ {i})
      /\ Cardinality(DOMAIN s \ {i}) = Cardinality(DOMAIN s) - 1
  BY FS_RemoveElement DEF Ranked
<1>3. /\ IsFiniteSet(Betters(s, i))
      /\ Cardinality(Betters(s, i)) <= Cardinality(DOMAIN s \ {i})
  BY <1>1, <1>2, FS_Subset
<1>4. Cardinality(Betters(s, i)) \in Nat /\ Cardinality(DOMAIN s) \in Nat
  BY <1>3, FS_CardinalityType DEF Ranked
<1> QED BY <1>2, <1>3, <1>4

\* Of two ranges the one that comes first has fewer before it.
LEMMA BettersDiffer ==
  ASSUME NEW s, Ranked(s), NEW i \in DOMAIN s, NEW j \in DOMAIN s, Precedes(s, i, j)
  PROVE  Cardinality(Betters(s, i)) # Cardinality(Betters(s, j))
<1>1. Betters(s, i) \subseteq Betters(s, j)
  BY PrecedesOrders DEF Betters
<1>2. i \in Betters(s, j) /\ i \notin Betters(s, i)
  BY PrecedesOrders DEF Betters
<1>3. IsFiniteSet(Betters(s, j))
  BY BettersAre
<1> QED BY <1>1, <1>2, <1>3, FS_Subset

PlaceOf(s) == [i \in DOMAIN s |-> 1 + Cardinality(Betters(s, i))]

LEMMA PlacesAreOwn ==
  ASSUME NEW s, Ranked(s)
  PROVE  /\ PlaceOf(s) \in [DOMAIN s -> 1..Cardinality(DOMAIN s)]
         /\ \A i, j \in DOMAIN s : PlaceOf(s)[i] = PlaceOf(s)[j] => i = j
<1>1. ASSUME NEW i \in DOMAIN s
      PROVE  1 + Cardinality(Betters(s, i)) \in 1..Cardinality(DOMAIN s)
  BY BettersAre
<1>2. ASSUME NEW i \in DOMAIN s, NEW j \in DOMAIN s, PlaceOf(s)[i] = PlaceOf(s)[j]
      PROVE  i = j
  <2>1. Cardinality(Betters(s, i)) = Cardinality(Betters(s, j))
    BY <1>2, BettersAre DEF PlaceOf
  <2> QED BY <2>1, BettersDiffer, PrecedesOrders
<1>3. PlaceOf(s) \in [DOMAIN s -> 1..Cardinality(DOMAIN s)]
  BY <1>1 DEF PlaceOf
<1> QED BY <1>2, <1>3

\* Every place is that of one of the ranges.
LEMMA ArrangedAre ==
  ASSUME NEW s, IsFiniteSet(DOMAIN s),
         NEW p \in [DOMAIN s -> 1..Cardinality(DOMAIN s)],
         \A i, j \in DOMAIN s : p[i] = p[j] => i = j
  PROVE  /\ DOMAIN Arranged(s, p) = 1..Cardinality(DOMAIN s)
         /\ \A n \in 1..Cardinality(DOMAIN s) :
              \E i \in DOMAIN s : p[i] = n /\ Arranged(s, p)[n] = s[i]
<1>1. PICK c \in Nat : c = Cardinality(DOMAIN s)
  BY FS_CardinalityType
<1>2. IsFiniteSet(1..c) /\ Cardinality(1..c) = c
  BY FS_Interval
<1>3. p \in Injection(DOMAIN s, 1..c)
  BY <1>1 DEF Injection, IsInjective
<1>4. p \in Surjection(DOMAIN s, 1..c)
  BY <1>1, <1>2, <1>3, FS_Injection
<1>5. ASSUME NEW n \in 1..c
      PROVE  \E i \in DOMAIN s : p[i] = n /\ Arranged(s, p)[n] = s[i]
  <2>1. \E i \in DOMAIN s : p[i] = n
    BY <1>4 DEF Surjection
  <2>2. PICK k : k = CHOOSE i \in DOMAIN s : p[i] = n
    OBVIOUS
  <2>3. k \in DOMAIN s /\ p[k] = n
    BY <2>1, <2>2
  <2>4. Arranged(s, p)[n] = s[k]
    BY <1>1, <2>2 DEF Arranged
  <2> QED BY <2>3, <2>4
<1> QED BY <1>1, <1>5 DEF Arranged

LEMMA HeaderIs ==
  ASSUME NEW h \in Header
  PROVE  /\ 1 \in DOMAIN h /\ \A i \in DOMAIN h : h[i] \in Token
         /\ DOMAIN Sent(h) = {n \in DOMAIN h : h[n].type # NoType}
         /\ IsFiniteSet(DOMAIN Sent(h)) /\ DOMAIN Sent(h) \subseteq Nat
         /\ Comparable(Sent(h)) => Ranked(Sent(h))
<1>1. PICK m \in 1..MaxTokens : h \in [1..m -> Token]
  BY DEF Header
<1>2. m \in Nat /\ DOMAIN h = 1..m /\ 1 \in DOMAIN h
  BY <1>1, QualityAssumption
<1>3. DOMAIN Sent(h) = {n \in DOMAIN h : h[n].type # NoType}
  BY DEF Sent
<1>4. IsFiniteSet(1..m)
  BY <1>2, FS_Interval
<1>5. IsFiniteSet(DOMAIN Sent(h)) /\ DOMAIN Sent(h) \subseteq Nat
  <2>1. DOMAIN Sent(h) \subseteq 1..m
    BY <1>2, <1>3
  <2> QED BY <1>2, <1>4, <2>1, FS_Subset
<1>6. ASSUME Comparable(Sent(h)), NEW i \in DOMAIN Sent(h)
      PROVE  Sent(h)[i].q \in Int
  <2>1. Sent(h)[i].q = Clamped(h[i].q) /\ Sent(h)[i].q # NaN
    BY <1>6 DEF Sent, Comparable
  <2>2. h[i].q \in Quality \cup {NoQuality, NaN}
    BY <1>1, <1>2, <1>3, <1>6 DEF Token
  <2>3. h[i].q # NaN
    BY <2>1 DEF Clamped
  <2>4. h[i].q = NoQuality \/ h[i].q \in Int
    BY <2>2, <2>3, QualityAssumption
  <2> QED BY <2>1, <2>3, <2>4 DEF Clamped
<1> QED BY <1>1, <1>2, <1>3, <1>5, <1>6 DEF Ranked

\* What is preferred are the types sent.
LEMMA PreferencesAre ==
  ASSUME NEW h \in Header, NEW preferences \in FromAcceptHeader(h)
  PROVE  /\ DOMAIN preferences = 1..Cardinality(DOMAIN Sent(h))
         /\ \A n \in DOMAIN preferences :
              \E i \in DOMAIN Sent(h) : preferences[n] = Sent(h)[i]
<1>1. \E p \in [DOMAIN Sent(h) -> 1..Cardinality(DOMAIN Sent(h))] :
        /\ \A i, j \in DOMAIN Sent(h) : p[i] = p[j] => i = j
        /\ preferences = Arranged(Sent(h), p)
  <2>1. CASE Comparable(Sent(h))
    <3>1. Ranked(Sent(h)) /\ preferences = ByQuality(Sent(h))
      BY <2>1, HeaderIs DEF FromAcceptHeader
    <3>2. preferences = Arranged(Sent(h), PlaceOf(Sent(h)))
      BY <3>1 DEF ByQuality, PlaceOf, Betters
    <3> QED BY <3>1, <3>2, PlacesAreOwn
  <2>2. CASE ~Comparable(Sent(h))
    BY <2>2 DEF FromAcceptHeader
  <2> QED BY <2>1, <2>2
<1>2. PICK p \in [DOMAIN Sent(h) -> 1..Cardinality(DOMAIN Sent(h))] :
        /\ \A i, j \in DOMAIN Sent(h) : p[i] = p[j] => i = j
        /\ preferences = Arranged(Sent(h), p)
  BY <1>1
<1>3. IsFiniteSet(DOMAIN Sent(h))
  BY HeaderIs
<1>4. /\ DOMAIN Arranged(Sent(h), p) = 1..Cardinality(DOMAIN Sent(h))
      /\ \A n \in 1..Cardinality(DOMAIN Sent(h)) :
           \E i \in DOMAIN Sent(h) : p[i] = n /\ Arranged(Sent(h), p)[n] = Sent(h)[i]
  <2> DEFINE s == Sent(h)
  <2>1. IsFiniteSet(DOMAIN s) /\ p \in [DOMAIN s -> 1..Cardinality(DOMAIN s)]
    BY <1>2, <1>3
  <2>2. \A i, j \in DOMAIN s : p[i] = p[j] => i = j
    BY <1>2
  <2> HIDE DEF s
  <2>3. /\ DOMAIN Arranged(s, p) = 1..Cardinality(DOMAIN s)
        /\ \A n \in 1..Cardinality(DOMAIN s) :
             \E i \in DOMAIN s : p[i] = n /\ Arranged(s, p)[n] = s[i]
    BY <2>1, <2>2, ArrangedAre
  <2> QED BY <2>3 DEF s
<1> QED BY <1>2, <1>4

\* The place 1 is that of a range that nothing precedes.
LEMMA FirstIs ==
  ASSUME NEW s, Ranked(s), DOMAIN s # {}
  PROVE  /\ ByQuality(s) # <<>>
         /\ \E i \in DOMAIN s : /\ ByQuality(s)[1] = s[i]
                                /\ \A j \in DOMAIN s : ~Precedes(s, j, i)
<1>1. PICK c \in Nat : c = Cardinality(DOMAIN s) /\ c # 0
  BY FS_EmptySet, FS_CardinalityType DEF Ranked
<1>2. ByQuality(s) = Arranged(s, PlaceOf(s))
  BY DEF ByQuality, PlaceOf, Betters
<1>3. /\ DOMAIN ByQuality(s) = 1..c
      /\ \A n \in 1..c : \E i \in DOMAIN s : PlaceOf(s)[i] = n /\ ByQuality(s)[n] = s[i]
  <2>1. IsFiniteSet(DOMAIN s)
    BY DEF Ranked
  <2>2. PICK p : p = PlaceOf(s)
    OBVIOUS
  <2>3. /\ p \in [DOMAIN s -> 1..Cardinality(DOMAIN s)]
        /\ \A i, j \in DOMAIN s : p[i] = p[j] => i = j
    BY <2>2, PlacesAreOwn
  <2>4. /\ DOMAIN Arranged(s, p) = 1..Cardinality(DOMAIN s)
        /\ \A n \in 1..Cardinality(DOMAIN s) :
             \E i \in DOMAIN s : p[i] = n /\ Arranged(s, p)[n] = s[i]
    BY <2>1, <2>3, ArrangedAre
  <2> QED BY <1>1, <1>2, <2>2, <2>4
<1>4. 1 \in 1..c
  BY <1>1
<1>5. PICK i \in DOMAIN s : PlaceOf(s)[i] = 1 /\ ByQuality(s)[1] = s[i]
  BY <1>3, <1>4
<1>6. Betters(s, i) = {}
  <2>1. Cardinality(Betters(s, i)) = 0
    BY <1>5, BettersAre DEF PlaceOf
  <2> QED BY <2>1, BettersAre, FS_EmptySet
<1>7. ByQuality(s) # <<>>
  <2>1. 1 \in DOMAIN ByQuality(s) /\ 1 \notin DOMAIN <<>>
    BY <1>3, <1>4
  <2> QED BY <2>1
<1> QED BY <1>5, <1>6, <1>7 DEF Betters

\* An operation is of one of the methods, and what it prefers is in the header.
OpInv ==
  /\ header # Absent =>
       header \in Header /\ op.preferences \in FromAcceptHeader(header)
  /\ op # Absent => op.method \in Method

LEMMA OpStart == OpInit => OpInv
BY DEF OpInit, OpInv

LEMMA OpStep == OpInv /\ [OpNext]_opVars => OpInv'
<1> SUFFICES ASSUME OpInv, [OpNext]_opVars PROVE OpInv'
  OBVIOUS
<1>1. CASE ReadOp
  <2>1. PICK h \in Header, verb \in {m \in Method : ~IsWrite(m)} :
          /\ header' = h
          /\ \E preferences \in FromAcceptHeader(h) :
               op' = [method |-> verb, body |-> FALSE,
                      preferences |-> preferences]
    BY <1>1 DEF ReadOp
  <2>2. op'.preferences \in FromAcceptHeader(header') /\ op'.method = verb
    BY <2>1
  <2> QED BY <2>1, <2>2 DEF OpInv
<1>2. CASE WriteOp
  BY <1>2 DEF OpInv, WriteOp
<1>3. CASE DropOp
  BY <1>3 DEF OpInv, DropOp
<1>4. CASE UNCHANGED opVars
  BY <1>4 DEF OpInv, opVars
<1> QED BY <1>1, <1>2, <1>3, <1>4 DEF OpNext

\* What an operation calls most preferred is the first of the types with the
\* highest quality, in headers of any length.
THEOREM MostPreferredIsBest == OpSpec => []FirstIsBest
<1>1. OpInv => FirstIsBest
  <2> SUFFICES ASSUME OpInv, header # Absent, Comparable(Sent(header)),
                      DOMAIN Sent(header) # {}
               PROVE  LET s == Sent(header)
                          best == {i \in DOMAIN s : \A j \in DOMAIN s : s[j].q <= s[i].q}
                      IN  \E i \in best :
                            /\ \A j \in best : i <= j
                            /\ MostPreferred(op.preferences) = s[i].media_type
    BY DEF FirstIsBest
  <2> DEFINE s == Sent(header)
             best == {i \in DOMAIN s : \A j \in DOMAIN s : s[j].q <= s[i].q}
  <2>1. Ranked(s) /\ op.preferences = ByQuality(s) /\ DOMAIN s # {}
    BY HeaderIs DEF OpInv, FromAcceptHeader
  <2> HIDE DEF s
  <2>2. PICK i \in DOMAIN s : /\ op.preferences # <<>> /\ op.preferences[1] = s[i]
                              /\ \A j \in DOMAIN s : ~Precedes(s, j, i)
    BY <2>1, FirstIs
  <2>3. \A j \in DOMAIN s : s[j].q \in Int /\ j \in Nat
    BY <2>1 DEF Ranked
  <2>4. i \in best
    BY <2>2, <2>3 DEF Precedes
  <2>5. \A j \in best : i <= j
    BY <2>2, <2>3 DEF Precedes
  <2>6. MostPreferred(op.preferences) = s[i].media_type
    BY <2>2 DEF MostPreferred
  <2> QED BY <2>4, <2>5, <2>6 DEF s
<1> QED BY <1>1, OpStart, OpStep, PTL DEF OpSpec

\* A type that an operation's preferences allow, the server's Accept check lets
\* pass, whatever the header, as long as it is in lower case.
LEMMA AllowedIsServed ==
  ASSUME NEW h \in Header, NEW preferences \in FromAcceptHeader(h),
         InLowerCase(Checked(h)), NEW ct,
         \/ AcceptsAny(preferences)
         \/ \E n \in DOMAIN preferences : Matches(preferences[n].media_type, ct)
  PROVE  AcceptSatisfied(Checked(h), ct)
<1>1. ASSUME NEW n \in DOMAIN preferences
      PROVE  preferences[n].media_type \in Checked(h)
  <2>1. PICK i \in DOMAIN Sent(h) : preferences[n] = Sent(h)[i]
    BY PreferencesAre
  <2>2. i \in DOMAIN h /\ h[i].type # NoType
    BY HeaderIs
  <2>3. h[i].type \in Checked(h)
    BY <2>2 DEF Checked
  <2>4. Sent(h)[i].media_type = LowerCase[h[i].type]
    BY <2>2 DEF Sent
  <2> QED BY <2>1, <2>3, <2>4 DEF InLowerCase
<1>2. CASE AcceptsAny(preferences)
  <2>1. AnyType \in Checked(h)
    <3>1. CASE DOMAIN Sent(h) = {}
      <4>1. 1 \in DOMAIN h /\ h[1].type = NoType
        BY <3>1, HeaderIs
      <4> QED BY <4>1 DEF Checked
    <3>2. CASE DOMAIN Sent(h) # {}
      <4>1. Cardinality(DOMAIN Sent(h)) \in Nat \ {0}
        BY <3>2, HeaderIs, FS_EmptySet, FS_CardinalityType
      <4>2. 1 \in DOMAIN preferences
        BY <4>1, PreferencesAre
      <4>3. preferences[1].media_type = AnyType
        BY <1>2, <4>2 DEF AcceptsAny
      <4> QED BY <1>1, <4>2, <4>3
    <3> QED BY <3>1, <3>2
  <2> QED BY <2>1 DEF AcceptSatisfied
<1>3. ASSUME NEW n \in DOMAIN preferences, Matches(preferences[n].media_type, ct)
      PROVE  AcceptSatisfied(Checked(h), ct)
  BY <1>1, <1>3 DEF Matches, AcceptSatisfied
<1> QED BY <1>2, <1>3

\* The two readings of one Accept header agree as far as they must.
THEOREM PreferencesAreHonoured == OpSpec => []PreferencesAreServed
<1>1. OpInv => PreferencesAreServed
  BY AllowedIsServed DEF OpInv, PreferencesAreServed
<1> QED BY <1>1, OpStart, OpStep, PTL DEF OpSpec

\* The middleware never asks for less than an operation needs.
THEOREM OperationsAreAuthorized == OpSpec => []PipelineAsksForNoLess
<1>1. OpInv => PipelineAsksForNoLess
  BY DEF OpInv, PipelineAsksForNoLess, Method, RequiredAccessModes, RequiredMode
<1> QED BY <1>1, OpStart, OpStep, PTL DEF OpSpec
=============================================================================
