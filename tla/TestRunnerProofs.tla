-------------------------- MODULE TestRunnerProofs --------------------------
(* Proofs about TestRunner, for any number of runs and timeouts: what the    *)
(* tests touch, which of their cases can fail, and what they leave behind.   *)
EXTENDS TestRunner, SequenceTheorems, TLAPS

-----------------------------------------------------------------------------
(* The keys of the tests.  Their first segment is a UUID, and the ancestors  *)
(* of each are the root and at most the container of that UUID.              *)

LEMMA TrimmedLenIs ==
  ASSUME NEW k, NEW n \in 0..Len(k), Len(k) \in Nat, n = 0 \/ k[n] # Empty,
         \A i \in (n + 1)..Len(k) : k[i] = Empty
  PROVE  TrimmedLen(k) = n
<1> DEFINE P(m) == /\ m = 0 \/ k[m] # Empty
                   /\ \A i \in (m + 1)..Len(k) : k[i] = Empty
<1>1. \A m \in 0..Len(k) : P(m) => m = n
  <2> SUFFICES ASSUME NEW m \in 0..Len(k), P(m), m # n PROVE FALSE
    OBVIOUS
  <2>1. CASE m < n
    BY <2>1
  <2>2. CASE n < m
    BY <2>2
  <2> QED BY <2>1, <2>2
<1>2. P(n)
  OBVIOUS
<1>3. TrimmedLen(k) = CHOOSE m \in 0..Len(k) : P(m)
  BY DEF TrimmedLen
<1> HIDE DEF P
<1> QED BY <1>1, <1>2, <1>3

\* Paths of one and of two segments.
LEMMA Single ==
  ASSUME NEW S, NEW u \in S, NEW s \in Seq(S), Len(s) = 1, s[1] = u
  PROVE  s = <<u>>
<1>1. <<u>> \in Seq(S) /\ Len(<<u>>) = 1 /\ <<u>>[1] = u
  OBVIOUS
<1>2. \A i \in 1..Len(s) : s[i] = <<u>>[i]
  BY <1>1
<1> QED BY <1>1, <1>2, SeqEqual

LEMMA Pair ==
  ASSUME NEW S, NEW u \in S, NEW x \in S, NEW s \in Seq(S), Len(s) = 2,
         s[1] = u, s[2] = x
  PROVE  s = <<u, x>>
<1>1. <<u, x>> \in Seq(S) /\ Len(<<u, x>>) = 2 /\ <<u, x>>[1] = u /\ <<u, x>>[2] = x
  OBVIOUS
<1>2. \A i \in 1..Len(s) : s[i] = <<u, x>>[i]
  BY <1>1
<1> QED BY <1>1, <1>2, SeqEqual

LEMMA AppendOne ==
  ASSUME NEW u, NEW x
  PROVE  Append(<<u>>, x) = <<u, x>>
<1> DEFINE S == {u, x}
<1>1. <<u>> \in Seq(S) /\ Len(<<u>>) = 1 /\ <<u>>[1] = u /\ u \in S /\ x \in S
  OBVIOUS
<1> HIDE DEF S
<1>2. /\ Append(<<u>>, x) \in Seq(S) /\ Len(Append(<<u>>, x)) = 2
      /\ Append(<<u>>, x)[1] = u /\ Append(<<u>>, x)[2] = x
  BY <1>1, AppendProperties
<1> QED BY <1>1, <1>2, Pair

\* The first segments of a short path.
LEMMA Beginnings ==
  ASSUME NEW u, NEW x
  PROVE  /\ SubSeq(<<u>>, 1, 0) = <<>> /\ SubSeq(<<u, x>>, 1, 0) = <<>>
         /\ SubSeq(<<u>>, 1, 1) = <<u>> /\ SubSeq(<<u, x>>, 1, 1) = <<u>>
         /\ SubSeq(<<u, x>>, 1, 2) = <<u, x>>
<1> DEFINE S == {u, x}
<1>1. SubSeq(<<u>>, 1, 0) = <<>> /\ SubSeq(<<u, x>>, 1, 0) = <<>>
  BY SubSeqEmpty
<1>2. u \in S /\ x \in S
  OBVIOUS
<1>3. /\ \A i \in 1..1 : <<u>>[i] \in S /\ <<u, x>>[i] \in S
      /\ \A i \in 1..2 : <<u, x>>[i] \in S
  OBVIOUS
<1> HIDE DEF S
<1>4. SubSeq(<<u>>, 1, 1) = <<u>>
  <2>1. /\ SubSeq(<<u>>, 1, 1) \in Seq(S) /\ Len(SubSeq(<<u>>, 1, 1)) = 1
        /\ SubSeq(<<u>>, 1, 1)[1] = u
    BY <1>3, SubSeqProperties
  <2> QED BY <1>2, <2>1, Single
<1>5. SubSeq(<<u, x>>, 1, 1) = <<u>>
  <2>1. /\ SubSeq(<<u, x>>, 1, 1) \in Seq(S) /\ Len(SubSeq(<<u, x>>, 1, 1)) = 1
        /\ SubSeq(<<u, x>>, 1, 1)[1] = u
    BY <1>3, SubSeqProperties
  <2> QED BY <1>2, <2>1, Single
<1>6. SubSeq(<<u, x>>, 1, 2) = <<u, x>>
  <2>1. /\ SubSeq(<<u, x>>, 1, 2) \in Seq(S) /\ Len(SubSeq(<<u, x>>, 1, 2)) = 2
        /\ SubSeq(<<u, x>>, 1, 2)[1] = u /\ SubSeq(<<u, x>>, 1, 2)[2] = x
    BY <1>3, SubSeqProperties
  <2> QED BY <1>2, <2>1, Pair
<1> QED BY <1>1, <1>4, <1>5, <1>6

LEMMA TrimIs ==
  ASSUME NEW u \in Seg, NEW x \in Seg
  PROVE  /\ Trim(<<u>>) = <<u>> /\ TrimmedLen(<<u>>) = 1
         /\ Trim(<<u, Empty>>) = <<u>> /\ TrimmedLen(<<u, Empty>>) = 1
         /\ Trim(<<u, x>>) = <<u, x>> /\ TrimmedLen(<<u, x>>) = 2
<1>0. u # Empty /\ x # Empty
  BY SegAssumption
<1>1. TrimmedLen(<<u>>) = 1
  BY <1>0, TrimmedLenIs
<1>2. TrimmedLen(<<u, Empty>>) = 1
  <2> DEFINE k == <<u, Empty>>
  <2>1. Len(k) = 2 /\ k[1] = u /\ k[2] = Empty
    OBVIOUS
  <2>2. \A i \in (1 + 1)..Len(k) : k[i] = Empty
    BY <2>1
  <2> HIDE DEF k
  <2>3. TrimmedLen(k) = 1
    BY <1>0, <2>1, <2>2, TrimmedLenIs
  <2> QED BY <2>3 DEF k
<1>3. TrimmedLen(<<u, x>>) = 2
  <2> DEFINE k == <<u, x>>
  <2>1. Len(k) = 2 /\ k[2] = x
    OBVIOUS
  <2> HIDE DEF k
  <2>2. 2 \in 0..Len(k) /\ Len(k) \in Nat /\ k[2] # Empty
    BY <1>0, <2>1
  <2>3. \A i \in (2 + 1)..Len(k) : k[i] = Empty
    BY <2>1
  <2>4. TrimmedLen(k) = 2
    BY <2>2, <2>3, TrimmedLenIs
  <2> QED BY <2>4 DEF k
<1> QED BY <1>1, <1>2, <1>3, Beginnings DEF Trim

LEMMA AncestorsAre ==
  ASSUME NEW u \in Seg, NEW x \in Seg
  PROVE  /\ Ancestors(<<u>>) = {Root} /\ Ancestors(<<u, Empty>>) = {Root}
         /\ Ancestors(<<u, x>>) \subseteq {Root, <<u, Empty>>}
<1>0. u # Empty /\ x # Empty
  BY SegAssumption
<1>1. WalkDepth(<<u>>) = 0 /\ WalkDepth(<<u, Empty>>) = 0
  <2>1. TrimmedLen(<<u>>) = 1 /\ TrimmedLen(<<u, Empty>>) = 1
    BY TrimIs
  <2> QED BY <2>1, SplitLimitAssumption DEF WalkDepth
<1>2. WalkDepth(<<u, x>>) \in {0, 1}
  <2>1. TrimmedLen(<<u, x>>) = 2
    BY TrimIs
  <2> QED BY <2>1, SplitLimitAssumption DEF WalkDepth
<1>3. ContainerKey(SubSeq(<<u>>, 1, 0)) = Root /\ ContainerKey(SubSeq(<<u, x>>, 1, 0)) = Root
  BY Beginnings DEF ContainerKey
<1>4. ContainerKey(SubSeq(<<u, x>>, 1, 1)) = <<u, Empty>>
  <2>1. <<u>> # <<>> /\ <<u>> # <<Empty>>
    BY <1>0
  <2> QED BY <2>1, AppendOne, Beginnings DEF ContainerKey
<1>5. Ancestors(<<u>>) = {ContainerKey(SubSeq(<<u>>, 1, i)) : i \in 0..0}
  BY <1>1, TrimIs DEF Ancestors
<1>6. Ancestors(<<u, Empty>>) = {ContainerKey(SubSeq(<<u>>, 1, i)) : i \in 0..0}
  BY <1>1, TrimIs DEF Ancestors
<1>7. Ancestors(<<u, x>>)
        = {ContainerKey(SubSeq(<<u, x>>, 1, i)) : i \in 0..WalkDepth(<<u, x>>)}
  BY TrimIs DEF Ancestors
<1> QED BY <1>2, <1>3, <1>4, <1>5, <1>6, <1>7

LEMMA ResolvedAre ==
  ASSUME NEW u \in Seg, NEW x
  PROVE  /\ ResolvePath(<<u>>) = <<u>> /\ ResolvePath(<<u, x>>) = <<u, x>>
         /\ ResolvePath(Root) = Root
  BY SegAssumption DEF ResolvePath, Root

LEMMA ChildIs ==
  ASSUME NEW u \in Seg, NEW x \in Seg
  PROVE  ChildKey(<<u, Empty>>, x) = <<u, x>>
  BY TrimIs, AppendOne DEF ChildKey

-----------------------------------------------------------------------------
(* The scripts.  Each case works on one document of its own, or on the root. *)

\* A step that is not tolerant, field by field.
Made(st, method, target, accept, ct, b, codes, check, want) ==
  /\ DOMAIN st = {"send", "expect", "check", "want", "tolerant"}
  /\ st.send = [method |-> method, target |-> target, accept |-> accept,
                content_type |-> ct, body |-> b]
  /\ st.expect = codes /\ st.check = check /\ st.want = want /\ ~st.tolerant

\* What the words of the scripts make of a step.
LEMMA Built ==
  /\ \A method, k :
       Made(Ask(method, k), method, k, {AnyType}, Plain, Original, Anything, "status",
            None)
  /\ \A k, ct :
       Made(Put(k, ct), "PUT", k, {AnyType}, ct, Original, Anything, "status", None)
  /\ \A k : Cleanup(k).send = Ask("DELETE", k).send /\ Cleanup(k).tolerant
  /\ \A st, method, k, a, ct, b, x, ch, w, codes :
       Made(st, method, k, a, ct, b, x, ch, w) =>
         Made(Expect(codes, st), method, k, a, ct, b, codes, ch, w)
  /\ \A st, method, k, a, ct, b, x, ch, w, c, v :
       Made(st, method, k, a, ct, b, x, ch, w) =>
         Made(Check(c, v, st), method, k, a, ct, b, x, c, v)
  /\ \A st, method, k, a, ct, b, x, ch, w, t :
       Made(st, method, k, a, ct, b, x, ch, w) =>
         Made(Accepting(t, st), method, k, {t}, ct, b, x, ch, w)
<1>1. \A method, k :
        Made(Ask(method, k), method, k, {AnyType}, Plain, Original, Anything, "status",
             None)
  BY DEF Ask, Made
<1>2. \A k, ct :
        Made(Put(k, ct), "PUT", k, {AnyType}, ct, Original, Anything, "status", None)
  BY DEF Put, Ask, Made
<1>3. \A k : Cleanup(k).send = Ask("DELETE", k).send /\ Cleanup(k).tolerant
  BY DEF Cleanup, Ask
<1>4. \A st, method, k, a, ct, b, x, ch, w, codes :
        Made(st, method, k, a, ct, b, x, ch, w) =>
          Made(Expect(codes, st), method, k, a, ct, b, codes, ch, w)
  BY DEF Expect, Made
<1>5. \A st, method, k, a, ct, b, x, ch, w, c, v :
        Made(st, method, k, a, ct, b, x, ch, w) =>
          Made(Check(c, v, st), method, k, a, ct, b, x, c, v)
  BY DEF Check, Made
<1>6. \A st, method, k, a, ct, b, x, ch, w, t :
        Made(st, method, k, a, ct, b, x, ch, w) =>
          Made(Accepting(t, st), method, k, {t}, ct, b, x, ch, w)
  BY DEF Accepting, Made
<1> QED BY <1>1, <1>2, <1>3, <1>4, <1>5, <1>6

\* The document a case works on.
Document(r, s, n) ==
  IF s = 3 THEN <<Uuid(r, s, n), Empty>>
  ELSE IF s = 2 \/ (s = 5 /\ n = 4) THEN <<Uuid(r, s, n), File>>
  ELSE <<Uuid(r, s, n)>>

\* The answers the server may give to rq while its store is m.
Replies(rq, m) ==
  LET k == ResolvePath(rq.target) IN
  IF rq.method \in {"GET", "HEAD"} THEN {ReadReply(rq, k, m)}
  ELSE IF rq.method = "DELETE" THEN {DeleteReply(k, m)}
  ELSE IF rq.method = "PUT" THEN {WriteReply(rq, k, k \notin DOMAIN m)}
  ELSE IF rq.method = "POST"
  THEN {WriteReply(rq, ChildKey(k, slug), TRUE) : slug \in Slug}
  ELSE {Status(IF rq.method = "OPTIONS" THEN 204 ELSE 415)}

\* The document k of a store is e, or is not there and e is None.
Shows(m, k, e) ==
  IF e = None THEN k \notin DOMAIN m ELSE k \in DOMAIN m /\ m[k] = e

\* What the request of a step makes of the document.
After(st, k, e) ==
  IF st.send.method = "PUT"
  THEN EntryFor(k, st.send.content_type, st.send.body)
  ELSE IF st.send.method = "DELETE" THEN None ELSE e

\* A step asks the root for what changes nothing, or something of the document.
Addressed(st, k) ==
  \/ st.send.target = Root /\ st.send.method \in {"GET", "HEAD", "OPTIONS"}
  \/ st.send.target = k /\ st.send.method \in {"GET", "PUT", "DELETE", "PATCH"}
  \/ st.send.target = k /\ st.send.method = "POST" /\ k[Len(k)] = Empty

\* A step whose document is e gets what it asks for.
Works(st, k, e) ==
  \A m : Root \in DOMAIN m /\ Shows(m, k, e) =>
    \A rp \in Replies(st.send, m) : st.tolerant \/ Meets(rp, st)

\* es is what a script makes of its document, which in the end is gone, and
\* which is there when something is POSTed to it.
History(sc, k, es) ==
  /\ es[1] = None /\ es[Len(sc) + 1] = None
  /\ \A i \in 1..Len(sc) :
       /\ es[i + 1] = After(sc[i], k, es[i])
       /\ sc[i].send.method = "POST" => es[i] # None
       /\ sc[i].send.method = "PUT" => es[i + 1] # None

Sound(sc, k, es) == \A i \in 1..Len(sc) : Works(sc[i], k, es[i])

-----------------------------------------------------------------------------
(* Steps that work.                                                          *)

LEMMA Fields ==
  ASSUME NEW st, NEW method, NEW k, NEW a, NEW ct, NEW b, NEW codes, NEW ch, NEW w,
         Made(st, method, k, a, ct, b, codes, ch, w)
  PROVE  /\ st.send.method = method /\ st.send.target = k /\ st.send.accept = a
         /\ st.send.content_type = ct /\ st.send.body = b
         /\ st.expect = codes /\ st.check = ch /\ st.want = w /\ ~st.tolerant
BY DEF Made

\* An answer with the right status meets a step that asks for no more.
LEMMA MeetsStatus ==
  ASSUME NEW rp, NEW st, rp.status \in st.expect,
         \/ st.check = "status"
         \/ st.check = "type" /\ rp.status # 200
  PROVE  Meets(rp, st)
BY DEF Meets

LEMMA AnyTypeSatisfies == \A ct : AcceptSatisfied({AnyType}, ct)
BY DEF AcceptSatisfied

LEMMA PutWorks ==
  ASSUME NEW k, ResolvePath(k) = k, NEW e, NEW ct, NEW b, NEW codes,
         (IF e = None THEN 201 ELSE 204) \in codes,
         NEW st, Made(st, "PUT", k, {AnyType}, ct, b, codes, "status", None)
  PROVE  Works(st, k, e)
<1>1. /\ st.send.method = "PUT" /\ st.send.target = k /\ st.check = "status"
      /\ st.expect = codes
  BY DEF Made
<1> SUFFICES ASSUME NEW m, Shows(m, k, e), NEW rp \in Replies(st.send, m)
             PROVE  Meets(rp, st)
  BY DEF Works
<1>2. rp = WriteReply(st.send, k, k \notin DOMAIN m)
  BY <1>1 DEF Replies
<1>3. rp.status = IF e = None THEN 201 ELSE 204
  BY <1>1, <1>2 DEF WriteReply, Status, Shows
<1> QED BY <1>1, <1>3 DEF Meets

LEMMA CleanupWorks ==
  ASSUME NEW k, NEW e
  PROVE  Works(Cleanup(k), k, e)
BY Built DEF Works

LEMMA DeleteWorks ==
  ASSUME NEW k, ResolvePath(k) = k, NEW e, NEW ct, NEW b, NEW codes,
         (IF e = None THEN 404 ELSE 204) \in codes,
         NEW st, Made(st, "DELETE", k, {AnyType}, ct, b, codes, "status", None)
  PROVE  Works(st, k, e)
<1>1. /\ st.send.method = "DELETE" /\ st.send.target = k /\ st.check = "status"
      /\ st.expect = codes
  BY DEF Made
<1> SUFFICES ASSUME NEW m, Shows(m, k, e), NEW rp \in Replies(st.send, m)
             PROVE  Meets(rp, st)
  BY DEF Works
<1>2. rp = DeleteReply(k, m)
  BY <1>1 DEF Replies
<1>3. rp.status = IF e = None THEN 404 ELSE 204
  BY <1>1, <1>2 DEF DeleteReply, Status, Shows
<1> QED BY <1>1, <1>3 DEF Meets

LEMMA PatchWorks ==
  ASSUME NEW k, NEW e, NEW ct, NEW b, NEW codes, 415 \in codes,
         NEW st, Made(st, "PATCH", k, {AnyType}, ct, b, codes, "status", None)
  PROVE  Works(st, k, e)
<1>1. st.send.method = "PATCH" /\ st.check = "status" /\ st.expect = codes
  BY DEF Made
<1> SUFFICES ASSUME NEW m, NEW rp \in Replies(st.send, m)
             PROVE  Meets(rp, st)
  BY DEF Works
<1>2. rp = Status(415)
  BY <1>1 DEF Replies
<1> QED BY <1>1, <1>2 DEF Meets, Status

LEMMA PostWorks ==
  ASSUME NEW u \in Seg \ Unprintable, NEW e, NEW ct, NEW b, NEW codes, 201 \in codes,
         NEW st, Made(st, "POST", <<u, Empty>>, {AnyType}, ct, b, codes, "location", None)
  PROVE  Works(st, <<u, Empty>>, e)
<1> DEFINE k == <<u, Empty>>
<1>1. /\ st.send.method = "POST" /\ st.send.target = k /\ st.check = "location"
      /\ st.expect = codes
  BY DEF Made
<1> SUFFICES ASSUME NEW m, NEW rp \in Replies(st.send, m)
             PROVE  Meets(rp, st)
  BY DEF Works
<1>2. PICK slug \in Slug : rp = WriteReply(st.send, ChildKey(ResolvePath(k), slug), TRUE)
  <2> HIDE DEF k
  <2> QED BY <1>1 DEF Replies
<1>3. ChildKey(ResolvePath(k), slug) = <<u, slug>> /\ slug \in Seg \ Unprintable
  BY ResolvedAre, ChildIs, SlugAssumption, SlugsPrintable
<1>4. rp = [Status(201) EXCEPT !.location = <<u, slug>>]
  <2>1. rp = WriteReply(st.send, <<u, slug>>, TRUE)
    BY <1>2, <1>3
  <2>2. ~\E i \in 1..Len(<<u, slug>>) : <<u, slug>>[i] \in Unprintable
    BY <1>3
  <2> QED BY <1>1, <2>1, <2>2 DEF WriteReply
<1>5. rp.status = 201 /\ rp.location = <<u, slug>>
  BY <1>4 DEF Status
<1>6. <<u, slug>> \in Key
  BY <1>3 DEF Key, Part
<1>7. rp.location # None
  BY <1>5, <1>6, NoneAssumption
<1> QED BY <1>1, <1>5, <1>7 DEF Meets

\* The GET and the HEAD of a script.
LEMMA AbsentWorks ==
  ASSUME NEW k, ResolvePath(k) = k, NEW a, NEW ct, NEW b, NEW codes, 404 \in codes,
         NEW st, Made(st, "GET", k, a, ct, b, codes, "status", None)
  PROVE  Works(st, k, None)
<1>1. /\ st.send.method = "GET" /\ st.send.target = k /\ st.check = "status"
      /\ st.expect = codes
  BY DEF Made
<1> SUFFICES ASSUME NEW m, Shows(m, k, None), NEW rp \in Replies(st.send, m)
             PROVE  Meets(rp, st)
  BY DEF Works
<1>2. rp = ReadReply(st.send, k, m) /\ k \notin DOMAIN m
  BY <1>1 DEF Replies, Shows
<1>3. rp.status = 404
  BY <1>2 DEF ReadReply, Status
<1> QED BY <1>1, <1>3 DEF Meets

LEMMA RootWorks ==
  ASSUME NEW k, NEW e, NEW method \in {"GET", "HEAD"}, NEW ct, NEW b, NEW codes,
         200 \in codes,
         NEW st, Made(st, method, Root, {AnyType}, ct, b, codes, "status", None)
  PROVE  Works(st, k, e)
<1>1. /\ st.send.method = method /\ st.send.target = Root /\ st.check = "status"
      /\ st.send.accept = {AnyType} /\ st.expect = codes
  BY DEF Made
<1> SUFFICES ASSUME NEW m, Root \in DOMAIN m, NEW rp \in Replies(st.send, m)
             PROVE  Meets(rp, st)
  BY DEF Works
<1>2. rp = ReadReply(st.send, Root, m)
  BY <1>1 DEF Replies, ResolvePath, Root
<1>3. rp.status = 200
  BY <1>1, <1>2, AnyTypeSatisfies DEF ReadReply, Status
<1> QED BY <1>1, <1>3 DEF Meets

LEMMA OptionsWorks ==
  ASSUME NEW k, NEW e, NEW ct, NEW b, NEW codes, 204 \in codes,
         NEW st, Made(st, "OPTIONS", Root, {AnyType}, ct, b, codes, "status", None)
  PROVE  Works(st, k, e)
<1>1. st.send.method = "OPTIONS" /\ st.check = "status" /\ st.expect = codes
  BY DEF Made
<1> SUFFICES ASSUME NEW m, NEW rp \in Replies(st.send, m)
             PROVE  Meets(rp, st)
  BY DEF Works
<1>2. rp = Status(204)
  BY <1>1 DEF Replies
<1> QED BY <1>1, <1>2 DEF Meets, Status

Accepted(a, t) == a = NoAccept \/ AcceptSatisfied(a, t)

\* What GET makes of a document that is there.
LEMMA GetReply ==
  ASSUME NEW k, ResolvePath(k) = k, NEW t, NEW b, EntryFor(k, t, b) # None,
         NEW st, NEW a,
         st.send.method = "GET", st.send.target = k, st.send.accept = a,
         NEW m, Shows(m, k, EntryFor(k, t, b)), NEW rp \in Replies(st.send, m)
  PROVE  /\ ~Accepted(a, t) => rp.status = 406
         /\ Accepted(a, t) =>
              /\ rp.status = 200 /\ rp.entry # None
              /\ rp.entry.content_type = t /\ rp.entry.body = b
              /\ IsContainerKey(k) => "Container" \in rp.links
<1> DEFINE e == EntryFor(k, t, b)
<1>1. e.content_type = t /\ e.body = b /\ e.is_container = IsContainerKey(k)
  BY DEF EntryFor
<1> HIDE DEF e
<1>2. st.send.method = "GET" /\ st.send.target = k /\ st.send.accept = a
  OBVIOUS
<1>3. rp = ReadReply(st.send, k, m) /\ k \in DOMAIN m /\ m[k] = e
  BY <1>2 DEF Replies, Shows, e
<1>4. ASSUME ~Accepted(a, t) PROVE rp.status = 406
  BY <1>1, <1>2, <1>3, <1>4 DEF ReadReply, Status, Accepted
<1>5. ASSUME Accepted(a, t)
      PROVE  /\ rp.status = 200 /\ rp.entry = e
             /\ IsContainerKey(k) => "Container" \in rp.links
  <2>1. rp = [Status(200) EXCEPT
                !.entry = e,
                !.links = IF e.is_container THEN ContainerLink ELSE ResourceLink]
    BY <1>1, <1>2, <1>3, <1>5 DEF ReadReply, Accepted
  <2> QED BY <1>1, <2>1 DEF Status, ContainerLink
<1> QED BY <1>1, <1>4, <1>5 DEF e

\* A check that the document k with type t and body b passes.
Right(ch, w, k, t, b) ==
  \/ ch = "status"
  \/ ch = "body" /\ w = b
  \/ ch = "type" /\ w = t
  \/ ch = "container link" /\ IsContainerKey(k)

LEMMA GetWorks ==
  ASSUME NEW k, ResolvePath(k) = k, NEW t, NEW b, EntryFor(k, t, b) # None,
         NEW a, NEW ct, NEW d, NEW codes, NEW ch, NEW w,
         NEW st, Made(st, "GET", k, a, ct, d, codes, ch, w),
         Accepted(a, t), 200 \in codes,
         Right(ch, w, k, t, b)
  PROVE  Works(st, k, EntryFor(k, t, b))
<1> SUFFICES ASSUME NEW m, Shows(m, k, EntryFor(k, t, b)),
                    NEW rp \in Replies(st.send, m)
             PROVE  Meets(rp, st)
  BY DEF Works
<1>1. /\ rp.status = 200 /\ rp.entry # None
      /\ rp.entry.content_type = t /\ rp.entry.body = b
      /\ IsContainerKey(k) => "Container" \in rp.links
  <2>1. st.send.method = "GET" /\ st.send.target = k /\ st.send.accept = a
    BY Fields
  <2> QED BY <2>1, GetReply
<1>2. st.expect = codes /\ st.check = ch /\ st.want = w
  BY Fields
<1>3. CASE ch = "status"
  BY <1>1, <1>2, <1>3, MeetsStatus
<1>4. CASE ch = "body" /\ w = b
  BY <1>1, <1>2, <1>4 DEF Meets
<1>5. CASE ch = "type" /\ w = t
  BY <1>1, <1>2, <1>5 DEF Meets
<1>6. CASE ch = "container link" /\ IsContainerKey(k)
  BY <1>1, <1>2, <1>6 DEF Meets
<1> QED BY <1>3, <1>4, <1>5, <1>6 DEF Right

LEMMA RefusedWorks ==
  ASSUME NEW k, ResolvePath(k) = k, NEW t, NEW b, EntryFor(k, t, b) # None,
         NEW a, NEW ct, NEW d, NEW codes, NEW ch, NEW w,
         NEW st, Made(st, "GET", k, a, ct, d, codes, ch, w),
         ~Accepted(a, t), 406 \in codes, ch \in {"status", "type"}
  PROVE  Works(st, k, EntryFor(k, t, b))
<1> SUFFICES ASSUME NEW m, Shows(m, k, EntryFor(k, t, b)),
                    NEW rp \in Replies(st.send, m)
             PROVE  Meets(rp, st)
  BY DEF Works
<1>1. rp.status = 406
  <2>1. st.send.method = "GET" /\ st.send.target = k /\ st.send.accept = a
    BY Fields
  <2> QED BY <2>1, GetReply
<1>2. st.expect = codes /\ st.check = ch
  BY Fields
<1> QED BY <1>1, <1>2, MeetsStatus

-----------------------------------------------------------------------------
(* Scripts that work.                                                        *)

\* A step that finds its document at e and leaves it at f.
Moves(st, k, e, f) ==
  /\ Addressed(st, k) /\ After(st, k, e) = f
  /\ st.send.method = "POST" => e # None
  /\ st.send.method = "PUT" => f # None

Serves(st, k, e, f) == Moves(st, k, e, f) /\ Works(st, k, e)

LEMMA EntryIsSome ==
  ASSUME NEW k, NEW t \in MediaType, NEW b \in Body
  PROVE  EntryFor(k, t, b) # None
<1>1. EntryFor(k, t, b) \in Entry
  BY DEF EntryFor, Entry, IsContainerKey
<1> QED BY <1>1, NoneAssumption

LEMMA MadeMoves ==
  ASSUME NEW st, NEW method, NEW target, NEW k, NEW e, NEW a, NEW ct, NEW b,
         NEW codes, NEW ch, NEW w,
         Made(st, method, target, a, ct, b, codes, ch, w)
  PROVE  /\ target = k /\ method = "PUT" /\ ct \in MediaType /\ b \in Body =>
              Moves(st, k, e, EntryFor(k, ct, b))
         /\ target = k /\ method = "DELETE" => Moves(st, k, e, None)
         /\ target = k /\ method \in {"GET", "PATCH"} => Moves(st, k, e, e)
         /\ target = k /\ method = "POST" /\ k[Len(k)] = Empty /\ e # None =>
              Moves(st, k, e, e)
         /\ target = Root /\ method \in {"GET", "HEAD", "OPTIONS"} => Moves(st, k, e, e)
<1>1. /\ st.send.method = method /\ st.send.target = target
      /\ st.send.content_type = ct /\ st.send.body = b
  BY Fields
<1> QED BY <1>1, EntryIsSome DEF Moves, Addressed, After

LEMMA CleanupServes ==
  ASSUME NEW k, NEW e
  PROVE  Serves(Cleanup(k), k, e, None)
<1>1. Cleanup(k).send.method = "DELETE" /\ Cleanup(k).send.target = k
  <2>1. Ask("DELETE", k).send.method = "DELETE" /\ Ask("DELETE", k).send.target = k
    BY DEF Ask
  <2> QED BY <2>1, Built
<1> QED BY <1>1, CleanupWorks DEF Serves, Moves, Addressed, After

\* A script about the document k, which in the end is gone.
Shaped(sc, k) ==
  /\ Len(sc) \in Nat \ {0}
  /\ \A i \in 1..Len(sc) : Addressed(sc[i], k)
  /\ \E es : History(sc, k, es)

\* One whose steps work.
Claims(sc, k) == Shaped(sc, k) /\ \E es : History(sc, k, es) /\ Sound(sc, k, es)

LEMMA OneStep ==
  ASSUME NEW k, NEW x, Serves(x, k, None, None)
  PROVE  Claims(<<x>>, k)
<1> DEFINE sc == <<x>>  es == <<None, None>>
<1>1. Len(sc) = 1 /\ sc[1] = x /\ es[1] = None /\ es[2] = None
  OBVIOUS
<1> HIDE DEF sc, es
<1>2. \A i \in 1..Len(sc) : i = 1
  BY <1>1
<1>3. \A i \in 1..Len(sc) :
        /\ Addressed(sc[i], k) /\ es[i + 1] = After(sc[i], k, es[i])
        /\ sc[i].send.method = "POST" => es[i] # None
        /\ sc[i].send.method = "PUT" => es[i + 1] # None
        /\ Works(sc[i], k, es[i])
  BY <1>1, <1>2 DEF Serves, Moves
<1>4. History(sc, k, es) /\ Sound(sc, k, es)
  BY <1>1, <1>3 DEF History, Sound
<1>5. Claims(sc, k)
  BY <1>1, <1>3, <1>4 DEF Claims, Shaped
<1> QED BY <1>5 DEF sc

LEMMA TwoSteps ==
  ASSUME NEW k, NEW x, NEW y, NEW e, Serves(x, k, None, e), Serves(y, k, e, None)
  PROVE  Claims(<<x, y>>, k)
<1> DEFINE sc == <<x, y>>  es == <<None, e, None>>
<1>1. /\ Len(sc) = 2 /\ sc[1] = x /\ sc[2] = y
      /\ es[1] = None /\ es[2] = e /\ es[3] = None
  OBVIOUS
<1> HIDE DEF sc, es
<1>2. \A i \in 1..Len(sc) : i \in {1, 2}
  BY <1>1
<1>3. \A i \in 1..Len(sc) :
        /\ Addressed(sc[i], k) /\ es[i + 1] = After(sc[i], k, es[i])
        /\ sc[i].send.method = "POST" => es[i] # None
        /\ sc[i].send.method = "PUT" => es[i + 1] # None
        /\ Works(sc[i], k, es[i])
  BY <1>1, <1>2 DEF Serves, Moves
<1>4. History(sc, k, es) /\ Sound(sc, k, es)
  BY <1>1, <1>3 DEF History, Sound
<1>5. Claims(sc, k)
  BY <1>1, <1>3, <1>4 DEF Claims, Shaped
<1> QED BY <1>5 DEF sc

\* Three steps, of which the middle one need not work.
LEMMA ThreeSteps ==
  ASSUME NEW k, NEW x, NEW y, NEW z, NEW e, NEW f,
         Serves(x, k, None, e), Moves(y, k, e, f), Serves(z, k, f, None)
  PROVE  /\ Shaped(<<x, y, z>>, k)
         /\ Works(y, k, e) => Claims(<<x, y, z>>, k)
<1> DEFINE sc == <<x, y, z>>  es == <<None, e, f, None>>
<1>1. /\ Len(sc) = 3 /\ sc[1] = x /\ sc[2] = y /\ sc[3] = z
      /\ es[1] = None /\ es[2] = e /\ es[3] = f /\ es[4] = None
  OBVIOUS
<1> HIDE DEF sc, es
<1>2. \A i \in 1..Len(sc) : i \in {1, 2, 3}
  BY <1>1
<1>3. \A i \in 1..Len(sc) :
        /\ Addressed(sc[i], k) /\ es[i + 1] = After(sc[i], k, es[i])
        /\ sc[i].send.method = "POST" => es[i] # None
        /\ sc[i].send.method = "PUT" => es[i + 1] # None
  BY <1>1, <1>2 DEF Serves, Moves
<1>4. Shaped(sc, k) /\ History(sc, k, es)
  BY <1>1, <1>3 DEF Shaped, History
<1>5. ASSUME Works(y, k, e) PROVE Claims(sc, k)
  <2>1. \A i \in 1..Len(sc) : Works(sc[i], k, es[i])
    BY <1>1, <1>2, <1>5 DEF Serves
  <2> QED BY <1>4, <2>1 DEF Claims, Sound
<1> QED BY <1>4, <1>5 DEF sc

LEMMA FourSteps ==
  ASSUME NEW k, NEW w, NEW x, NEW y, NEW z, NEW e, NEW f, NEW g,
         Serves(w, k, None, e), Serves(x, k, e, f), Serves(y, k, f, g),
         Serves(z, k, g, None)
  PROVE  Claims(<<w, x, y, z>>, k)
<1> DEFINE sc == <<w, x, y, z>>  es == <<None, e, f, g, None>>
<1>1. /\ Len(sc) = 4 /\ sc[1] = w /\ sc[2] = x /\ sc[3] = y /\ sc[4] = z
      /\ es[1] = None /\ es[2] = e /\ es[3] = f /\ es[4] = g /\ es[5] = None
  OBVIOUS
<1> HIDE DEF sc, es
<1>2. \A i \in 1..Len(sc) : i \in {1, 2, 3, 4}
  BY <1>1
<1>3. \A i \in 1..Len(sc) :
        /\ Addressed(sc[i], k) /\ es[i + 1] = After(sc[i], k, es[i])
        /\ sc[i].send.method = "POST" => es[i] # None
        /\ sc[i].send.method = "PUT" => es[i + 1] # None
        /\ Works(sc[i], k, es[i])
  BY <1>1, <1>2 DEF Serves, Moves
<1>4. History(sc, k, es) /\ Sound(sc, k, es)
  BY <1>1, <1>3 DEF History, Sound
<1>5. Claims(sc, k)
  BY <1>1, <1>3, <1>4 DEF Claims, Shaped
<1> QED BY <1>5 DEF sc

\* The steps most cases are made of, on a document that resolves to itself.
LEMMA PutServes ==
  ASSUME NEW k, ResolvePath(k) = k, NEW ct \in MediaType
  PROVE  Serves(Put(k, ct), k, None, EntryFor(k, ct, Original))
<1>1. Made(Put(k, ct), "PUT", k, {AnyType}, ct, Original, Anything, "status", None)
  BY Built
<1>2. 201 \in Anything
  BY DEF Anything
<1>3. Works(Put(k, ct), k, None)
  BY <1>1, <1>2, PutWorks
<1> QED BY <1>1, <1>3, MadeMoves, TestTypeAssumption DEF Serves

LEMMA CreateServes ==
  ASSUME NEW k, ResolvePath(k) = k, NEW ct \in MediaType, NEW codes, 201 \in codes
  PROVE  Serves(Expect(codes, Put(k, ct)), k, None, EntryFor(k, ct, Original))
<1> DEFINE st == Expect(codes, Put(k, ct))
<1>1. Made(st, "PUT", k, {AnyType}, ct, Original, codes, "status", None)
  BY Built
<1> HIDE DEF st
<1>2. Works(st, k, None)
  BY <1>1, PutWorks
<1>3. Serves(st, k, None, EntryFor(k, ct, Original))
  BY <1>1, <1>2, MadeMoves, TestTypeAssumption DEF Serves
<1> QED BY <1>3 DEF st

LEMMA MissServes ==
  ASSUME NEW k, ResolvePath(k) = k, NEW method \in {"GET", "DELETE"}, NEW codes,
         404 \in codes
  PROVE  Serves(Expect(codes, Ask(method, k)), k, None, None)
<1> DEFINE st == Expect(codes, Ask(method, k))
<1>1. Made(st, method, k, {AnyType}, Plain, Original, codes, "status", None)
  BY Built
<1> HIDE DEF st
<1>2. Works(st, k, None) /\ Moves(st, k, None, None)
  <2>1. CASE method = "GET"
    BY <1>1, <2>1, AbsentWorks, MadeMoves
  <2>2. CASE method = "DELETE"
    BY <1>1, <2>2, DeleteWorks, MadeMoves
  <2> QED BY <2>1, <2>2
<1> QED BY <1>2 DEF Serves, st

LEMMA DeleteServes ==
  ASSUME NEW k, ResolvePath(k) = k, NEW e, e # None, NEW codes, 204 \in codes
  PROVE  Serves(Expect(codes, Ask("DELETE", k)), k, e, None)
<1> DEFINE st == Expect(codes, Ask("DELETE", k))
<1>1. Made(st, "DELETE", k, {AnyType}, Plain, Original, codes, "status", None)
  BY Built
<1> HIDE DEF st
<1>2. Works(st, k, e) /\ Moves(st, k, e, None)
  BY <1>1, DeleteWorks, MadeMoves
<1> QED BY <1>2 DEF Serves, st

\* A GET of the document that checks what it finds.
LEMMA LookServes ==
  ASSUME NEW k, ResolvePath(k) = k, NEW t \in MediaType, NEW b \in Body, NEW codes,
         200 \in codes, NEW a, Accepted(a, t), NEW ch, NEW w, Right(ch, w, k, t, b),
         NEW st, Made(st, "GET", k, a, Plain, Original, codes, ch, w)
  PROVE  Serves(st, k, EntryFor(k, t, b), EntryFor(k, t, b))
<1>1. Works(st, k, EntryFor(k, t, b))
  BY EntryIsSome, GetWorks
<1>2. Moves(st, k, EntryFor(k, t, b), EntryFor(k, t, b))
  BY MadeMoves
<1> QED BY <1>1, <1>2 DEF Serves

-----------------------------------------------------------------------------
(* The suites of this repository.                                            *)

Script(r, s, n) == Suites[r][s][n]

\* Every case is about its document and removes it; and all but those about
\* .acl names get what they ask for.
CaseWorks(r, s, n) ==
  /\ Shaped(Script(r, s, n), Document(r, s, n))
  /\ <<s, n>> \notin AclCases => Claims(Script(r, s, n), Document(r, s, n))

LEMMA AclCasesAre ==
  \A s, n : <<s, n>> \in AclCases <=> s = 6 /\ n \in {2, 3}
BY DEF AclCases

\* The keys of the documents.
LEMMA Documents ==
  ASSUME NEW r \in Run, NEW s \in 1..6, NEW n \in 1..7
  PROVE  /\ Uuid(r, s, n) \in Seg \ Unprintable
         /\ Document(r, s, n) \in {<<Uuid(r, s, n)>>, <<Uuid(r, s, n), File>>,
                                   <<Uuid(r, s, n), Empty>>}
         /\ Document(r, s, n)[1] = Uuid(r, s, n)
         /\ ResolvePath(Document(r, s, n)) = Document(r, s, n)
<1>1. Uuid(r, s, n) \in Seg \ Unprintable
  BY UuidAssumption
<1>2. Document(r, s, n) \in {<<Uuid(r, s, n)>>, <<Uuid(r, s, n), File>>,
                             <<Uuid(r, s, n), Empty>>}
  BY DEF Document
<1>3. ASSUME NEW u \in Seg, NEW x, NEW k \in {<<u>>, <<u, x>>}
      PROVE  k[1] = u /\ ResolvePath(k) = k
  <2>1. CASE k = <<u>>
    BY <2>1, ResolvedAre
  <2>2. CASE k = <<u, x>>
    BY <2>2, ResolvedAre
  <2> QED BY <2>1, <2>2
<1> DEFINE u == Uuid(r, s, n)  k == Document(r, s, n)
<1>4. u \in Seg /\ (k \in {<<u>>, <<u, File>>} \/ k \in {<<u>>, <<u, Empty>>})
  BY <1>1, <1>2
<1> HIDE DEF u, k
<1>5. k[1] = u /\ ResolvePath(k) = k
  BY <1>3, <1>4
<1> QED BY <1>1, <1>2, <1>5 DEF u, k

LEMMA SuitesAre ==
  ASSUME NEW r \in Run
  PROVE  /\ Suites[r][1] = Health(r) /\ Suites[r][2] = ResourceCrud(r)
         /\ Suites[r][3] = Containers(r) /\ Suites[r][4] = ContentNegotiation(r)
         /\ Suites[r][5] = ErrorResponses(r) /\ Suites[r][6] = Wac(r)
BY DEF Suites

\* The looks of the scripts.
LEMMA LookMade ==
  ASSUME NEW k, NEW codes, NEW ch, NEW w
  PROVE  /\ Made(Expect(codes, Ask("GET", k)), "GET", k, {AnyType}, Plain, Original,
                 codes, "status", None)
         /\ Made(Check(ch, w, Expect(codes, Ask("GET", k))), "GET", k, {AnyType},
                 Plain, Original, codes, ch, w)
<1> DEFINE x == Ask("GET", k)
<1>1. Made(x, "GET", k, {AnyType}, Plain, Original, Anything, "status", None)
  BY Built
<1> HIDE DEF x
<1> DEFINE y == Expect(codes, x)
<1>2. Made(y, "GET", k, {AnyType}, Plain, Original, codes, "status", None)
  BY <1>1, Built
<1> HIDE DEF y
<1>3. Made(Check(ch, w, y), "GET", k, {AnyType}, Plain, Original, codes, ch, w)
  BY <1>2, Built
<1> QED BY <1>2, <1>3 DEF x, y

\* A document is made, something is asked of it, and it is removed.
LEMMA LookCase ==
  ASSUME NEW k, ResolvePath(k) = k, NEW t \in MediaType, NEW st,
         NEW method \in {"GET", "PATCH"},
         NEW a, NEW ct, NEW b, NEW codes, NEW ch, NEW w,
         Made(st, method, k, a, ct, b, codes, ch, w)
  PROVE  /\ Shaped(<<Put(k, t), st, Cleanup(k)>>, k)
         /\ Works(st, k, EntryFor(k, t, Original)) =>
              Claims(<<Put(k, t), st, Cleanup(k)>>, k)
<1> DEFINE e == EntryFor(k, t, Original)
<1>1. Moves(st, k, e, e)
  <2> HIDE DEF e
  <2> QED BY MadeMoves
<1>2. Serves(Put(k, t), k, None, e) /\ Serves(Cleanup(k), k, e, None)
  BY PutServes, CleanupServes
<1> HIDE DEF e
<1>3. /\ Shaped(<<Put(k, t), st, Cleanup(k)>>, k)
      /\ Works(st, k, e) => Claims(<<Put(k, t), st, Cleanup(k)>>, k)
  BY <1>1, <1>2, ThreeSteps
<1> QED BY <1>3 DEF e

\* A GET that finds the document as it was put.
LEMMA FindCase ==
  ASSUME NEW k, ResolvePath(k) = k, NEW t \in MediaType, NEW st,
         NEW a, Accepted(a, t), NEW codes, 200 \in codes, NEW ch, NEW w,
         Made(st, "GET", k, a, Plain, Original, codes, ch, w),
         Right(ch, w, k, t, Original)
  PROVE  Claims(<<Put(k, t), st, Cleanup(k)>>, k)
<1>1. Original \in Body
  BY TestTypeAssumption
<1>2. Works(st, k, EntryFor(k, t, Original))
  BY <1>1, LookServes DEF Serves
<1> QED BY <1>2, LookCase

\* A GET of the root that works whatever becomes of the document.
LEMMA RootCase ==
  ASSUME NEW k, NEW method \in {"GET", "HEAD"}, NEW codes, 200 \in codes
  PROVE  Claims(<<Expect(codes, Ask(method, Root))>>, k)
<1> DEFINE st == Expect(codes, Ask(method, Root))
<1>1. Made(st, method, Root, {AnyType}, Plain, Original, codes, "status", None)
  BY Built
<1> HIDE DEF st
<1>2. Works(st, k, None)
  BY <1>1, RootWorks
<1>3. Moves(st, k, None, None)
  BY <1>1, MadeMoves
<1>4. Claims(<<st>>, k)
  BY <1>2, <1>3, OneStep DEF Serves
<1> QED BY <1>4 DEF st

\* A request for a document that is not there.
LEMMA MissCase ==
  ASSUME NEW k, ResolvePath(k) = k, NEW method \in {"GET", "DELETE"}
  PROVE  Claims(<<Expect({404}, Ask(method, k))>>, k)
BY MissServes, OneStep

\* A document is made, the answer tells so, and it is removed.
LEMMA CreateCase ==
  ASSUME NEW k, ResolvePath(k) = k, NEW t \in MediaType, NEW codes, 201 \in codes
  PROVE  Claims(<<Expect(codes, Put(k, t)), Cleanup(k)>>, k)
<1> DEFINE e == EntryFor(k, t, Original)
<1>1. Serves(Expect(codes, Put(k, t)), k, None, e) /\ Serves(Cleanup(k), k, e, None)
  BY CreateServes, CleanupServes
<1> HIDE DEF e
<1> QED BY <1>1, TwoSteps

LEMMA ClaimsWorks ==
  ASSUME NEW r, NEW s, NEW n, Claims(Script(r, s, n), Document(r, s, n))
  PROVE  CaseWorks(r, s, n)
BY DEF CaseWorks, Claims

LEMMA HealthWorks ==
  ASSUME NEW r \in Run
  PROVE  Len(Health(r)) = 3 /\ \A n \in 1..3 : CaseWorks(r, 1, n)
<1>1. /\ Len(Health(r)) = 3
      /\ Health(r)[1] = <<Expect({200, 401}, Ask("GET", Root))>>
      /\ Health(r)[2] = <<Expect({200, 204}, Ask("OPTIONS", Root))>>
      /\ Health(r)[3] = <<Expect((200..299) \cup {401}, Ask("HEAD", Root))>>
  BY DEF Health
<1>2. \A n : Script(r, 1, n) = Health(r)[n]
  BY SuitesAre DEF Script
<1>3. CaseWorks(r, 1, 1)
  BY <1>1, <1>2, RootCase, ClaimsWorks
<1>4. CaseWorks(r, 1, 2)
  <2> DEFINE st == Expect({200, 204}, Ask("OPTIONS", Root))
             k == Document(r, 1, 2)
  <2>1. Made(st, "OPTIONS", Root, {AnyType}, Plain, Original, {200, 204}, "status",
             None)
    BY Built
  <2> HIDE DEF st, k
  <2>2. Works(st, k, None) /\ Moves(st, k, None, None)
    BY <2>1, OptionsWorks, MadeMoves
  <2>3. Claims(<<st>>, k)
    BY <2>2, OneStep DEF Serves
  <2> QED BY <1>1, <1>2, <2>3, ClaimsWorks DEF st, k
<1>5. CaseWorks(r, 1, 3)
  <2>1. 200 \in (200..299) \cup {401}
    OBVIOUS
  <2> QED BY <1>1, <1>2, <2>1, RootCase, ClaimsWorks
<1>6. \A n \in 1..3 : n = 1 \/ n = 2 \/ n = 3
  OBVIOUS
<1> QED BY <1>1, <1>3, <1>4, <1>5, <1>6

LEMMA ResourceCrudWorks ==
  ASSUME NEW r \in Run
  PROVE  Len(ResourceCrud(r)) = 7 /\ \A n \in 1..7 : CaseWorks(r, 2, n)
<1> DEFINE p(n) == <<Uuid(r, 2, n), File>>
           body == Check("body", Original, Expect({200}, Ask("GET", p(2))))
           update == Expect({200, 204}, [Put(p(4), Plain) EXCEPT !.send.body = Updated])
           read == Check("body", Updated, Ask("GET", p(4)))
           type == Check("type", Turtle, Expect({200}, Ask("GET", p(7))))
<1>1. /\ Len(ResourceCrud(r)) = 7
      /\ ResourceCrud(r)[1] = <<Expect({201}, Put(p(1), Plain)), Cleanup(p(1))>>
      /\ ResourceCrud(r)[2] = <<Put(p(2), Plain), body, Cleanup(p(2))>>
      /\ ResourceCrud(r)[3] = <<Expect({404}, Ask("GET", p(3)))>>
      /\ ResourceCrud(r)[4] = <<Put(p(4), Plain), update, read, Cleanup(p(4))>>
      /\ ResourceCrud(r)[5] =
           <<Put(p(5), Plain), Expect({204}, Ask("DELETE", p(5))),
             Expect({404}, Ask("GET", p(5)))>>
      /\ ResourceCrud(r)[6] = <<Expect({404}, Ask("DELETE", p(6)))>>
      /\ ResourceCrud(r)[7] = <<Put(p(7), Turtle), type, Cleanup(p(7))>>
  BY DEF ResourceCrud
<1>2. \A n \in 1..7 : ResolvePath(p(n)) = p(n) /\ Document(r, 2, n) = p(n)
  <2>1. \A n \in 1..7 : Document(r, 2, n) = p(n)
    BY DEF Document
  <2>2. \A n \in 1..7 : Uuid(r, 2, n) \in Seg
    BY UuidAssumption
  <2> QED BY <2>1, <2>2, ResolvedAre
<1>3. ASSUME NEW n \in 1..7, Claims(ResourceCrud(r)[n], p(n)) PROVE CaseWorks(r, 2, n)
  <2>1. Script(r, 2, n) = ResourceCrud(r)[n] /\ Document(r, 2, n) = p(n)
    BY <1>2, SuitesAre DEF Script
  <2> HIDE DEF p
  <2> QED BY <1>3, <2>1, ClaimsWorks
<1>4. /\ Plain \in MediaType /\ Turtle \in MediaType
      /\ Original \in Body /\ Updated \in Body
  BY TestTypeAssumption, TurtleAssumption
<1>5. Made(body, "GET", p(2), {AnyType}, Plain, Original, {200}, "body", Original)
  BY LookMade
<1>6. Made(read, "GET", p(4), {AnyType}, Plain, Original, Anything, "body", Updated)
  BY Built
<1>7. Made(type, "GET", p(7), {AnyType}, Plain, Original, {200}, "type", Turtle)
  BY LookMade
<1>8. Made(update, "PUT", p(4), {AnyType}, Plain, Updated, {200, 204}, "status", None)
  <2> DEFINE st == Put(p(4), Plain)
  <2>1. Made(st, "PUT", p(4), {AnyType}, Plain, Original, Anything, "status", None)
    BY Built
  <2> HIDE DEF st
  <2>2. Made([st EXCEPT !.send.body = Updated], "PUT", p(4), {AnyType}, Plain, Updated,
             Anything, "status", None)
    BY <2>1 DEF Made
  <2> QED BY <2>2, Built DEF st
<1>9. \A t : Accepted({AnyType}, t)
  BY AnyTypeSatisfies DEF Accepted
<1> HIDE DEF p, body, update, read, type
<1>10. CaseWorks(r, 2, 1)
  BY <1>1, <1>2, <1>3, <1>4, CreateCase
<1>11. CaseWorks(r, 2, 2)
  <2>1. Right("body", Original, p(2), Plain, Original)
    BY DEF Right
  <2>2. ResolvePath(p(2)) = p(2)
    BY <1>2
  <2>3. Claims(<<Put(p(2), Plain), body, Cleanup(p(2))>>, p(2))
    BY <1>4, <1>5, <1>9, <2>1, <2>2, FindCase
  <2> QED BY <1>1, <1>3, <2>3
<1>12. CaseWorks(r, 2, 3)
  <2>1. ResolvePath(p(3)) = p(3)
    BY <1>2
  <2>2. Claims(<<Expect({404}, Ask("GET", p(3)))>>, p(3))
    BY <2>1, MissCase
  <2> QED BY <1>1, <1>3, <2>2
<1>13. CaseWorks(r, 2, 4)
  <2> DEFINE e == EntryFor(p(4), Plain, Original)
             f == EntryFor(p(4), Plain, Updated)
  <2>0. ResolvePath(p(4)) = p(4)
    BY <1>2
  <2>1. Right("body", Updated, p(4), Plain, Updated) /\ 200 \in Anything
    BY DEF Right, Anything
  <2>2. Serves(read, p(4), f, f)
    BY <1>4, <1>6, <1>9, <2>0, <2>1, LookServes
  <2>3. e # None
    BY <1>4, EntryIsSome
  <2>4. Serves(Put(p(4), Plain), p(4), None, e) /\ Serves(Cleanup(p(4)), p(4), f, None)
    BY <1>4, <2>0, PutServes, CleanupServes
  <2>5. Moves(update, p(4), e, f)
    BY <1>4, <1>8, MadeMoves
  <2> HIDE DEF e, f
  <2>6. Works(update, p(4), e)
    BY <1>8, <2>0, <2>3, PutWorks
  <2>7. Claims(<<Put(p(4), Plain), update, read, Cleanup(p(4))>>, p(4))
    BY <2>2, <2>4, <2>5, <2>6, FourSteps DEF Serves
  <2> QED BY <1>1, <1>3, <2>7
<1>14. CaseWorks(r, 2, 5)
  <2> DEFINE e == EntryFor(p(5), Plain, Original)
             remove == Expect({204}, Ask("DELETE", p(5)))
             miss == Expect({404}, Ask("GET", p(5)))
  <2>0. ResolvePath(p(5)) = p(5)
    BY <1>2
  <2>1. e # None
    BY <1>4, EntryIsSome
  <2>2. Serves(Put(p(5), Plain), p(5), None, e)
    BY <1>4, <2>0, PutServes
  <2>3. Serves(miss, p(5), None, None)
    BY <2>0, MissServes
  <2> HIDE DEF e
  <2>4. Serves(remove, p(5), e, None)
    BY <2>0, <2>1, DeleteServes
  <2> HIDE DEF remove, miss
  <2>5. Claims(<<Put(p(5), Plain), remove, miss>>, p(5))
    BY <2>2, <2>3, <2>4, ThreeSteps DEF Serves
  <2> QED BY <1>1, <1>3, <2>5 DEF remove, miss
<1>15. CaseWorks(r, 2, 6)
  <2>1. ResolvePath(p(6)) = p(6)
    BY <1>2
  <2>2. Claims(<<Expect({404}, Ask("DELETE", p(6)))>>, p(6))
    BY <2>1, MissCase
  <2> QED BY <1>1, <1>3, <2>2
<1>16. CaseWorks(r, 2, 7)
  <2>1. Right("type", Turtle, p(7), Turtle, Original)
    BY DEF Right
  <2>2. ResolvePath(p(7)) = p(7)
    BY <1>2
  <2>3. Claims(<<Put(p(7), Turtle), type, Cleanup(p(7))>>, p(7))
    BY <1>4, <1>7, <1>9, <2>1, <2>2, FindCase
  <2> QED BY <1>1, <1>3, <2>3
<1>17. \A n \in 1..7 : n = 1 \/ n = 2 \/ n = 3 \/ n = 4 \/ n = 5 \/ n = 6 \/ n = 7
  OBVIOUS
<1> QED BY <1>1, <1>10, <1>11, <1>12, <1>13, <1>14, <1>15, <1>16, <1>17

LEMMA ContainersWorks ==
  ASSUME NEW r \in Run
  PROVE  Len(Containers(r)) = 5 /\ \A n \in 1..5 : CaseWorks(r, 3, n)
<1> DEFINE p(n) == <<Uuid(r, 3, n), Empty>>
           post == Check("location", None, Expect({201}, Ask("POST", p(3))))
           look == Check("container link", None, Expect({200}, Ask("GET", p(4))))
<1>1. /\ Len(Containers(r)) = 5
      /\ Containers(r)[1] = <<Expect({200, 401}, Ask("GET", Root))>>
      /\ Containers(r)[2] = <<Expect({201}, Put(p(2), Turtle)), Cleanup(p(2))>>
      /\ Containers(r)[3] = <<Put(p(3), Turtle), post, Cleanup(p(3))>>
      /\ Containers(r)[4] = <<Put(p(4), Turtle), look, Cleanup(p(4))>>
      /\ Containers(r)[5] = <<Put(p(5), Turtle), Expect({204}, Ask("DELETE", p(5)))>>
  <2> DEFINE q == [n \in 1..5 |-> p(n)]
             c1 == <<Expect({200, 401}, Ask("GET", Root))>>
             c2 == <<Expect({201}, Put(p(2), Turtle)), Cleanup(p(2))>>
             c3 == <<Put(p(3), Turtle), post, Cleanup(p(3))>>
             c4 == <<Put(p(4), Turtle), look, Cleanup(p(4))>>
             c5 == <<Put(p(5), Turtle), Expect({204}, Ask("DELETE", p(5)))>>
  <2>1. q[2] = p(2) /\ q[3] = p(3) /\ q[4] = p(4) /\ q[5] = p(5)
    OBVIOUS
  <2>2. Containers(r) =
          <<c1, <<Expect({201}, Put(q[2], Turtle)), Cleanup(q[2])>>,
            <<Put(q[3], Turtle),
              Check("location", None, Expect({201}, Ask("POST", q[3]))), Cleanup(q[3])>>,
            <<Put(q[4], Turtle),
              Check("container link", None, Expect({200}, Ask("GET", q[4]))),
              Cleanup(q[4])>>,
            <<Put(q[5], Turtle), Expect({204}, Ask("DELETE", q[5]))>> >>
    BY DEF Containers
  <2> HIDE DEF q, p
  <2>3. Containers(r) = <<c1, c2, c3, c4, c5>>
    BY <2>1, <2>2
  <2> HIDE DEF c1, c2, c3, c4, c5
  <2>4. /\ Len(Containers(r)) = 5 /\ Containers(r)[1] = c1 /\ Containers(r)[2] = c2
        /\ Containers(r)[3] = c3 /\ Containers(r)[4] = c4 /\ Containers(r)[5] = c5
    BY <2>3
  <2> QED BY <2>4 DEF c1, c2, c3, c4, c5
<1>2. \A n \in 1..5 : Uuid(r, 3, n) \in Seg \ Unprintable
  BY UuidAssumption
<1>3. \A n \in 1..5 : ResolvePath(p(n)) = p(n) /\ Document(r, 3, n) = p(n)
  <2>1. \A n \in 1..5 : Document(r, 3, n) = p(n)
    BY DEF Document
  <2> QED BY <1>2, <2>1, ResolvedAre
<1>4. ASSUME NEW n \in 1..5, Claims(Containers(r)[n], p(n)) PROVE CaseWorks(r, 3, n)
  <2>1. Script(r, 3, n) = Containers(r)[n] /\ Document(r, 3, n) = p(n)
    BY <1>3, SuitesAre DEF Script
  <2> HIDE DEF p
  <2> QED BY <1>4, <2>1, ClaimsWorks
<1>5. \A n \in 1..5 : IsContainerKey(p(n))
  BY DEF IsContainerKey
<1>6. Turtle \in MediaType /\ Original \in Body
  BY TestTypeAssumption, TurtleAssumption
<1>7. Made(post, "POST", p(3), {AnyType}, Plain, Original, {201}, "location", None)
  <2> DEFINE x == Ask("POST", p(3))  y == Expect({201}, x)
  <2>1. Made(x, "POST", p(3), {AnyType}, Plain, Original, Anything, "status", None)
    BY Built
  <2> HIDE DEF x
  <2>2. Made(y, "POST", p(3), {AnyType}, Plain, Original, {201}, "status", None)
    BY <2>1, Built
  <2> HIDE DEF y
  <2>3. Made(Check("location", None, y), "POST", p(3), {AnyType}, Plain, Original,
             {201}, "location", None)
    BY <2>2, Built
  <2> QED BY <2>3 DEF x, y
<1>8. Works(post, p(3), EntryFor(p(3), Turtle, Original))
  <2>1. Uuid(r, 3, 3) \in Seg \ Unprintable
    BY <1>2
  <2> HIDE DEF post
  <2> QED BY <1>7, <2>1, PostWorks
<1>9. Made(look, "GET", p(4), {AnyType}, Plain, Original, {200}, "container link", None)
  BY LookMade
<1>10. Accepted({AnyType}, Turtle)
  BY AnyTypeSatisfies DEF Accepted
<1> HIDE DEF p, post, look
<1>11. CaseWorks(r, 3, 1)
  BY <1>1, <1>4, RootCase
<1>12. CaseWorks(r, 3, 2)
  <2>1. ResolvePath(p(2)) = p(2)
    BY <1>3
  <2>2. Claims(<<Expect({201}, Put(p(2), Turtle)), Cleanup(p(2))>>, p(2))
    BY <1>6, <2>1, CreateCase
  <2> QED BY <1>1, <1>4, <2>2
<1>13. CaseWorks(r, 3, 3)
  <2> DEFINE k == p(3)  e == EntryFor(k, Turtle, Original)
  <2>1. ResolvePath(k) = k /\ k[Len(k)] = Empty
    BY <1>3, <1>5 DEF IsContainerKey
  <2>2. Serves(Put(k, Turtle), k, None, e) /\ Serves(Cleanup(k), k, e, None)
    BY <1>6, <2>1, PutServes, CleanupServes
  <2>3. Made(post, "POST", k, {AnyType}, Plain, Original, {201}, "location", None)
    BY <1>7
  <2>4. Works(post, k, e)
    BY <1>8
  <2>7. e # None
    BY <1>6, EntryIsSome
  <2> HIDE DEF k, e
  <2>5. Moves(post, k, e, e)
    BY <2>1, <2>3, <2>7, MadeMoves
  <2>6. Claims(<<Put(k, Turtle), post, Cleanup(k)>>, k)
    BY <2>2, <2>4, <2>5, ThreeSteps
  <2> QED BY <1>1, <1>4, <2>6 DEF k
<1>14. CaseWorks(r, 3, 4)
  <2>1. Right("container link", None, p(4), Turtle, Original)
    BY <1>5 DEF Right
  <2>2. ResolvePath(p(4)) = p(4)
    BY <1>3
  <2>3. Claims(<<Put(p(4), Turtle), look, Cleanup(p(4))>>, p(4))
    BY <1>6, <1>9, <1>10, <2>1, <2>2, FindCase
  <2> QED BY <1>1, <1>4, <2>3
<1>15. CaseWorks(r, 3, 5)
  <2> DEFINE k == p(5)  e == EntryFor(k, Turtle, Original)
             remove == Expect({204}, Ask("DELETE", k))
  <2>1. ResolvePath(k) = k /\ e # None
    BY <1>3, <1>6, EntryIsSome
  <2>2. Serves(Put(k, Turtle), k, None, e)
    BY <1>6, <2>1, PutServes
  <2> HIDE DEF k, e
  <2>3. Serves(remove, k, e, None)
    BY <2>1, DeleteServes
  <2> HIDE DEF remove
  <2>4. Claims(<<Put(k, Turtle), remove>>, k)
    BY <2>2, <2>3, TwoSteps
  <2> QED BY <1>1, <1>4, <2>4 DEF k, remove
<1>16. \A n \in 1..5 : n = 1 \/ n = 2 \/ n = 3 \/ n = 4 \/ n = 5
  OBVIOUS
<1> QED BY <1>1, <1>11, <1>12, <1>13, <1>14, <1>15, <1>16

LEMMA ContentNegotiationWorks ==
  ASSUME NEW r \in Run
  PROVE  /\ Len(ContentNegotiation(r)) = 4
         /\ \A n \in 1..4 : CaseWorks(r, 4, n)
<1> DEFINE p(n) == <<Uuid(r, 4, n)>>
           turtle == Check("type", Turtle,
                           Expect({200}, Accepting(Turtle, Ask("GET", p(1)))))
           json == Check("type", JsonLd,
                         Expect({200, 406}, Accepting(JsonLd, Ask("GET", p(2)))))
           plain == Check("type", Plain, Expect({200}, Ask("GET", p(3))))
           unheard == Expect((200..299) \cup {406}, Accepting(Unheard, Ask("GET", p(4))))
<1>1. /\ Len(ContentNegotiation(r)) = 4
      /\ ContentNegotiation(r)[1] = <<Put(p(1), Turtle), turtle, Cleanup(p(1))>>
      /\ ContentNegotiation(r)[2] = <<Put(p(2), Turtle), json, Cleanup(p(2))>>
      /\ ContentNegotiation(r)[3] = <<Put(p(3), Plain), plain, Cleanup(p(3))>>
      /\ ContentNegotiation(r)[4] = <<Put(p(4), Plain), unheard, Cleanup(p(4))>>
  BY DEF ContentNegotiation
<1>2. \A n \in 1..4 : ResolvePath(p(n)) = p(n) /\ Document(r, 4, n) = p(n)
  <2>1. \A n \in 1..4 : Document(r, 4, n) = p(n)
    BY DEF Document
  <2>2. \A n \in 1..4 : Uuid(r, 4, n) \in Seg
    BY UuidAssumption
  <2> QED BY <2>1, <2>2, ResolvedAre
<1>3. ASSUME NEW n \in 1..4, Claims(ContentNegotiation(r)[n], p(n))
      PROVE  CaseWorks(r, 4, n)
  <2>1. Script(r, 4, n) = ContentNegotiation(r)[n] /\ Document(r, 4, n) = p(n)
    BY <1>2, SuitesAre DEF Script
  <2> HIDE DEF p
  <2> QED BY <1>3, <2>1, ClaimsWorks
<1>4. /\ Plain \in MediaType /\ Turtle \in MediaType /\ Original \in Body
      /\ JsonLd.sub # Star /\ NoAccept # {JsonLd}
  BY TestTypeAssumption, TurtleAssumption
<1>5. ASSUME NEW k, NEW t, NEW codes
      PROVE  Made(Expect(codes, Accepting(t, Ask("GET", k))), "GET", k, {t}, Plain,
                  Original, codes, "status", None)
  <2> DEFINE x == Ask("GET", k)  y == Accepting(t, x)
  <2>1. Made(x, "GET", k, {AnyType}, Plain, Original, Anything, "status", None)
    BY Built
  <2> HIDE DEF x
  <2>2. Made(y, "GET", k, {t}, Plain, Original, Anything, "status", None)
    BY <2>1, Built
  <2> HIDE DEF y
  <2>3. Made(Expect(codes, y), "GET", k, {t}, Plain, Original, codes, "status", None)
    BY <2>2, Built
  <2> QED BY <2>3 DEF x, y
<1>6. ASSUME NEW k, NEW t, NEW codes
      PROVE  Made(Check("type", t, Expect(codes, Accepting(t, Ask("GET", k)))), "GET", k,
                  {t}, Plain, Original, codes, "type", t)
  <2> DEFINE y == Expect(codes, Accepting(t, Ask("GET", k)))
  <2>1. Made(y, "GET", k, {t}, Plain, Original, codes, "status", None)
    BY <1>5
  <2> HIDE DEF y
  <2>2. Made(Check("type", t, y), "GET", k, {t}, Plain, Original, codes, "type", t)
    BY <2>1, Built
  <2> QED BY <2>2 DEF y
<1>7. Made(turtle, "GET", p(1), {Turtle}, Plain, Original, {200}, "type", Turtle)
  BY <1>6
<1>8. Made(json, "GET", p(2), {JsonLd}, Plain, Original, {200, 406}, "type", JsonLd)
  BY <1>6
<1>9. Made(plain, "GET", p(3), {AnyType}, Plain, Original, {200}, "type", Plain)
  BY LookMade
<1>10. Made(unheard, "GET", p(4), {Unheard}, Plain, Original, (200..299) \cup {406},
            "status", None)
  BY <1>5
<1>11. Accepted({AnyType}, Plain) /\ Accepted({Turtle}, Turtle)
  BY AnyTypeSatisfies DEF Accepted, AcceptSatisfied
<1> HIDE DEF p, turtle, json, plain, unheard
<1>12. CaseWorks(r, 4, 1)
  <2>1. Right("type", Turtle, p(1), Turtle, Original)
    BY DEF Right
  <2>2. ResolvePath(p(1)) = p(1)
    BY <1>2
  <2>3. Claims(<<Put(p(1), Turtle), turtle, Cleanup(p(1))>>, p(1))
    BY <1>4, <1>7, <1>11, <2>1, <2>2, FindCase
  <2> QED BY <1>1, <1>3, <2>3
<1>13. CaseWorks(r, 4, 2)
  <2>1. ResolvePath(p(2)) = p(2) /\ EntryFor(p(2), Turtle, Original) # None
    BY <1>2, <1>4, EntryIsSome
  <2>2. Works(json, p(2), EntryFor(p(2), Turtle, Original))
    <3>1. CASE Accepted({JsonLd}, Turtle)
      <4>1. JsonLd = Turtle
        BY <1>4, <3>1 DEF Accepted, AcceptSatisfied, AnyType
      <4>2. Right("type", JsonLd, p(2), Turtle, Original)
        BY <4>1 DEF Right
      <4> QED BY <1>8, <2>1, <3>1, <4>2, GetWorks
    <3>2. CASE ~Accepted({JsonLd}, Turtle)
      BY <1>8, <2>1, <3>2, RefusedWorks
    <3> QED BY <3>1, <3>2
  <2>3. Claims(<<Put(p(2), Turtle), json, Cleanup(p(2))>>, p(2))
    BY <1>4, <1>8, <2>1, <2>2, LookCase
  <2> QED BY <1>1, <1>3, <2>3
<1>14. CaseWorks(r, 4, 3)
  <2>1. Right("type", Plain, p(3), Plain, Original)
    BY DEF Right
  <2>2. ResolvePath(p(3)) = p(3)
    BY <1>2
  <2>3. Claims(<<Put(p(3), Plain), plain, Cleanup(p(3))>>, p(3))
    BY <1>4, <1>9, <1>11, <2>1, <2>2, FindCase
  <2> QED BY <1>1, <1>3, <2>3
<1>15. CaseWorks(r, 4, 4)
  <2> DEFINE codes == (200..299) \cup {406}
  <2>0. 200 \in codes /\ 406 \in codes
    OBVIOUS
  <2>1. ResolvePath(p(4)) = p(4) /\ EntryFor(p(4), Plain, Original) # None
    BY <1>2, <1>4, EntryIsSome
  <2>2. Made(unheard, "GET", p(4), {Unheard}, Plain, Original, codes, "status", None)
    BY <1>10
  <2> HIDE DEF codes
  <2>3. Works(unheard, p(4), EntryFor(p(4), Plain, Original))
    <3>1. CASE Accepted({Unheard}, Plain)
      <4>1. Right("status", None, p(4), Plain, Original)
        BY DEF Right
      <4> QED BY <2>0, <2>1, <2>2, <3>1, <4>1, GetWorks
    <3>2. CASE ~Accepted({Unheard}, Plain)
      BY <2>0, <2>1, <2>2, <3>2, RefusedWorks
    <3> QED BY <3>1, <3>2
  <2>4. Claims(<<Put(p(4), Plain), unheard, Cleanup(p(4))>>, p(4))
    BY <1>4, <2>1, <2>2, <2>3, LookCase
  <2> QED BY <1>1, <1>3, <2>4
<1>16. \A n \in 1..4 : n = 1 \/ n = 2 \/ n = 3 \/ n = 4
  OBVIOUS
<1> QED BY <1>1, <1>12, <1>13, <1>14, <1>15, <1>16

LEMMA ErrorResponsesWorks ==
  ASSUME NEW r \in Run
  PROVE  Len(ErrorResponses(r)) = 4 /\ \A n \in 1..4 : CaseWorks(r, 5, n)
<1> DEFINE p(n) == IF n = 4 THEN <<Uuid(r, 5, 4), File>> ELSE <<Uuid(r, 5, n)>>
           patch == Expect({400, 405, 415}, Ask("PATCH", p(2)))
<1>1. /\ Len(ErrorResponses(r)) = 4
      /\ ErrorResponses(r)[1] = <<Expect({404}, Ask("GET", p(1)))>>
      /\ ErrorResponses(r)[2] = <<Put(p(2), Plain), patch, Cleanup(p(2))>>
      /\ ErrorResponses(r)[3] = <<Expect({404}, Ask("GET", p(3)))>>
      /\ ErrorResponses(r)[4] =
           <<Expect({201, 404, 409}, Put(p(4), Plain)), Cleanup(p(4))>>
  BY DEF ErrorResponses
<1>2. \A n \in 1..4 : ResolvePath(p(n)) = p(n) /\ Document(r, 5, n) = p(n)
  <2>1. \A n \in 1..4 : Document(r, 5, n) = p(n)
    BY DEF Document
  <2>2. \A n \in 1..4 : Uuid(r, 5, n) \in Seg
    BY UuidAssumption
  <2> QED BY <2>1, <2>2, ResolvedAre
<1>3. ASSUME NEW n \in 1..4, Claims(ErrorResponses(r)[n], p(n)) PROVE CaseWorks(r, 5, n)
  <2>1. Script(r, 5, n) = ErrorResponses(r)[n] /\ Document(r, 5, n) = p(n)
    BY <1>2, SuitesAre DEF Script
  <2> HIDE DEF p
  <2> QED BY <1>3, <2>1, ClaimsWorks
<1>4. Made(patch, "PATCH", p(2), {AnyType}, Plain, Original, {400, 405, 415}, "status",
           None)
  <2> DEFINE x == Ask("PATCH", p(2))
  <2>1. Made(x, "PATCH", p(2), {AnyType}, Plain, Original, Anything, "status", None)
    BY Built
  <2> HIDE DEF x
  <2>2. Made(Expect({400, 405, 415}, x), "PATCH", p(2), {AnyType}, Plain, Original,
             {400, 405, 415}, "status", None)
    BY <2>1, Built
  <2> QED BY <2>2 DEF x
<1> HIDE DEF p, patch
<1>5. CaseWorks(r, 5, 1)
  <2>1. ResolvePath(p(1)) = p(1)
    BY <1>2
  <2>2. Claims(<<Expect({404}, Ask("GET", p(1)))>>, p(1))
    BY <2>1, MissCase
  <2> QED BY <1>1, <1>3, <2>2
<1>6. CaseWorks(r, 5, 2)
  <2>1. ResolvePath(p(2)) = p(2)
    BY <1>2
  <2>2. Works(patch, p(2), EntryFor(p(2), Plain, Original))
    BY <1>4, PatchWorks
  <2>3. Claims(<<Put(p(2), Plain), patch, Cleanup(p(2))>>, p(2))
    BY <1>4, <2>1, <2>2, TestTypeAssumption, LookCase
  <2> QED BY <1>1, <1>3, <2>3
<1>7. CaseWorks(r, 5, 3)
  <2>1. ResolvePath(p(3)) = p(3)
    BY <1>2
  <2>2. Claims(<<Expect({404}, Ask("GET", p(3)))>>, p(3))
    BY <2>1, MissCase
  <2> QED BY <1>1, <1>3, <2>2
<1>8. CaseWorks(r, 5, 4)
  <2>1. ResolvePath(p(4)) = p(4)
    BY <1>2
  <2>2. Claims(<<Expect({201, 404, 409}, Put(p(4), Plain)), Cleanup(p(4))>>, p(4))
    BY <2>1, TestTypeAssumption, CreateCase
  <2> QED BY <1>1, <1>3, <2>2
<1>9. \A n \in 1..4 : n = 1 \/ n = 2 \/ n = 3 \/ n = 4
  OBVIOUS
<1> QED BY <1>1, <1>5, <1>6, <1>7, <1>8, <1>9

LEMMA WacWorks ==
  ASSUME NEW r \in Run
  PROVE  Len(Wac(r)) = 3 /\ \A n \in 1..3 : CaseWorks(r, 6, n)
<1> DEFINE p(n) == <<Uuid(r, 6, n)>>
           open == Expect({200}, Ask("GET", p(1)))
           closed == Expect({401}, Ask("GET", p(2)))
           allow == Check("wac-allow", None, Ask("GET", p(3)))
<1>1. /\ Len(Wac(r)) = 3
      /\ Wac(r)[1] = <<Put(p(1), Plain), open, Cleanup(p(1))>>
      /\ Wac(r)[2] = <<Put(p(2), Turtle), closed, Cleanup(p(2))>>
      /\ Wac(r)[3] = <<Put(p(3), Turtle), allow, Cleanup(p(3))>>
  BY DEF Wac, WacName
<1>2. \A n \in 1..3 : ResolvePath(p(n)) = p(n) /\ Document(r, 6, n) = p(n)
  <2>1. \A n \in 1..3 : Document(r, 6, n) = p(n)
    BY DEF Document
  <2>2. \A n \in 1..3 : Uuid(r, 6, n) \in Seg
    BY UuidAssumption
  <2> QED BY <2>1, <2>2, ResolvedAre
<1>3. \A n : Script(r, 6, n) = Wac(r)[n]
  BY SuitesAre DEF Script
<1>4. Made(open, "GET", p(1), {AnyType}, Plain, Original, {200}, "status", None)
  BY LookMade
<1>5. Made(closed, "GET", p(2), {AnyType}, Plain, Original, {401}, "status", None)
  BY LookMade
<1>6. Made(allow, "GET", p(3), {AnyType}, Plain, Original, Anything, "wac-allow", None)
  <2> DEFINE x == Ask("GET", p(3))
  <2>1. Made(x, "GET", p(3), {AnyType}, Plain, Original, Anything, "status", None)
    BY Built
  <2> HIDE DEF x
  <2>2. Made(Check("wac-allow", None, x), "GET", p(3), {AnyType}, Plain, Original,
             Anything, "wac-allow", None)
    BY <2>1, Built
  <2> QED BY <2>2 DEF x
<1> HIDE DEF p, open, closed, allow
<1>7. CaseWorks(r, 6, 1)
  <2>1. Right("status", None, p(1), Plain, Original)
    BY DEF Right
  <2>2. Plain \in MediaType /\ Accepted({AnyType}, Plain)
    BY TestTypeAssumption, AnyTypeSatisfies DEF Accepted
  <2>3. ResolvePath(p(1)) = p(1) /\ Document(r, 6, 1) = p(1)
    BY <1>2
  <2>4. Claims(<<Put(p(1), Plain), open, Cleanup(p(1))>>, p(1))
    BY <1>4, <2>1, <2>2, <2>3, FindCase
  <2> QED BY <1>1, <1>3, <2>3, <2>4, ClaimsWorks
<1>8. CaseWorks(r, 6, 2)
  <2>1. ResolvePath(p(2)) = p(2) /\ Document(r, 6, 2) = p(2)
    BY <1>2
  <2>2. Shaped(<<Put(p(2), Turtle), closed, Cleanup(p(2))>>, p(2))
    BY <1>5, <2>1, TurtleAssumption, LookCase
  <2> QED BY <1>1, <1>3, <2>1, <2>2, AclCasesAre DEF CaseWorks
<1>9. CaseWorks(r, 6, 3)
  <2>1. ResolvePath(p(3)) = p(3) /\ Document(r, 6, 3) = p(3)
    BY <1>2
  <2>2. Shaped(<<Put(p(3), Turtle), allow, Cleanup(p(3))>>, p(3))
    BY <1>6, <2>1, TurtleAssumption, LookCase
  <2> QED BY <1>1, <1>3, <2>1, <2>2, AclCasesAre DEF CaseWorks
<1>10. \A n \in 1..3 : n = 1 \/ n = 2 \/ n = 3
  OBVIOUS
<1> QED BY <1>1, <1>7, <1>8, <1>9, <1>10

SuiteWorks(r, s, len) ==
  Len(Suites[r][s]) = len /\ \A n \in 1..len : CaseWorks(r, s, n)

LEMMA SuitesWork ==
  ASSUME NEW r \in Run, NEW s \in 1..6
  PROVE  \E len \in 1..7 : SuiteWorks(r, s, len)
<1>1. SuiteWorks(r, 1, 3)
  BY HealthWorks, SuitesAre DEF SuiteWorks
<1>2. SuiteWorks(r, 2, 7)
  BY ResourceCrudWorks, SuitesAre DEF SuiteWorks
<1>3. SuiteWorks(r, 3, 5)
  BY ContainersWorks, SuitesAre DEF SuiteWorks
<1>4. SuiteWorks(r, 4, 4)
  BY ContentNegotiationWorks, SuitesAre DEF SuiteWorks
<1>5. SuiteWorks(r, 5, 4)
  BY ErrorResponsesWorks, SuitesAre DEF SuiteWorks
<1>6. SuiteWorks(r, 6, 3)
  BY WacWorks, SuitesAre DEF SuiteWorks
<1>7. s = 1 \/ s = 2 \/ s = 3 \/ s = 4 \/ s = 5 \/ s = 6
  OBVIOUS
<1> QED BY <1>1, <1>2, <1>3, <1>4, <1>5, <1>6, <1>7

-----------------------------------------------------------------------------
(* Where runs and connections stand.                                         *)

OnStep(r, s, n, j) ==
  s \in 1..6 /\ n \in 1..Len(Suites[r][s]) /\ j \in 1..Len(Script(r, s, n))

\* p is a step of a case, or before the first, or after the last.
Place(r, p) ==
  p = NotStarted \/ p = Over \/ \E s, n, j : OnStep(r, s, n, j) /\ p = <<s, n, j>>

Domains ==
  /\ DOMAIN pc = Conn /\ DOMAIN req = Conn /\ DOMAIN key = Conn
  /\ DOMAIN reply = Conn
  /\ DOMAIN at = Run /\ DOMAIN lost = Run /\ DOMAIN failed = Run
  /\ DOMAIN timedOut = Run /\ DOMAIN chosen = Run

\* The variables have the shapes the code gives them.
Shape ==
  /\ Domains /\ slugs \subseteq Slug
  /\ \A r \in Run :
       lost[r] \in 0..MaxTimeouts[r] /\ chosen[r] \subseteq AllSuites /\ Place(r, at[r])

\* The handler of c works on what its request asks for.
KeyIs(c) ==
  /\ pc[c] \in {"permissions", "authorize", "handler"} =>
       key[c] = ResolvePath(req[c].target)
  /\ pc[c] \in {"ancestors", "insert"} =>
       \/ req[c].method = "PUT" /\ key[c] = ResolvePath(req[c].target)
       \/ /\ req[c].method = "POST"
          /\ \E slug \in slugs : key[c] = ChildKey(ResolvePath(req[c].target), slug)

\* The request on c is that of a step: the step its run is at, or one of a
\* case that has met a timeout.
Serving(c, s, n, j) ==
  /\ OnStep(c[1], s, n, j) /\ req[c] = Script(c[1], s, n)[j].send
  /\ c[2] = lost[c[1]] => at[c[1]] = <<s, n, j>>
  /\ c[2] # lost[c[1]] => <<s, n>> \in timedOut[c[1]]

Busied(c) ==
  c[2] <= lost[c[1]] /\ KeyIs(c) /\ \E s, n, j : Serving(c, s, n, j)

Served == \A c \in Conn : pc[c] # "idle" => Busied(c)

Base == Shape /\ Served

LEMMA ConnIs ==
  ASSUME NEW c \in Conn
  PROVE  c[1] \in Run /\ c[2] \in 0..MaxTimeouts[c[1]] /\ c = <<c[1], c[2]>>
<1>1. PICK r \in Run : c \in {<<r, i>> : i \in 0..MaxTimeouts[r]}
  BY ConnAssumption
<1>2. PICK i \in 0..MaxTimeouts[r] : c = <<r, i>>
  BY <1>1
<1> QED BY <1>2

LEMMA CurrentIs ==
  ASSUME NEW r \in Run, lost[r] \in 0..MaxTimeouts[r]
  PROVE  /\ Current(r) \in Conn /\ Current(r)[1] = r /\ Current(r)[2] = lost[r]
         /\ \A c \in Conn : c[1] = r /\ c[2] = lost[r] => c = Current(r)
<1>1. Current(r) \in {<<r, i>> : i \in 0..MaxTimeouts[r]}
  BY DEF Current
<1>2. Current(r) \in Conn
  BY <1>1, ConnAssumption
<1> QED BY <1>2, ConnIs DEF Current

\* The first of some suites.
LEMMA Firsts ==
  ASSUME NEW S, S \subseteq 1..6
  PROVE  \/ S = {} /\ FirstOf(S) = Over
         \/ \E s \in S : FirstOf(S) = <<s, 1, 1>>
<1>1. CASE S = {}
  BY <1>1 DEF FirstOf
<1>2. CASE S # {}
  <2> DEFINE Least(s) == \A x \in S : s <= x
  <2>1. \E s \in S : Least(s)
    <3>1. S \subseteq {1, 2, 3, 4, 5, 6}
      OBVIOUS
    <3>2. CASE 1 \in S
      BY <3>1, <3>2
    <3>3. CASE 1 \notin S /\ 2 \in S
      BY <3>1, <3>3
    <3>4. CASE 1 \notin S /\ 2 \notin S /\ 3 \in S
      BY <3>1, <3>4
    <3>5. CASE 1 \notin S /\ 2 \notin S /\ 3 \notin S /\ 4 \in S
      BY <3>1, <3>5
    <3>6. CASE 1 \notin S /\ 2 \notin S /\ 3 \notin S /\ 4 \notin S /\ 5 \in S
      BY <3>1, <3>6
    <3>7. CASE 1 \notin S /\ 2 \notin S /\ 3 \notin S /\ 4 \notin S /\ 5 \notin S
      <4>1. S = {6}
        BY <1>2, <3>1, <3>7
      <4> QED BY <4>1
    <3> QED BY <3>2, <3>3, <3>4, <3>5, <3>6, <3>7
  <2>2. FirstOf(S) = <<CHOOSE s \in S : Least(s), 1, 1>>
    BY <1>2 DEF FirstOf
  <2>3. (CHOOSE s \in S : Least(s)) \in S
    <3> HIDE DEF Least
    <3> QED BY <2>1
  <2> HIDE DEF Least
  <2> QED BY <2>2, <2>3
<1> QED BY <1>1, <1>2

LEMMA FirstSteps ==
  ASSUME NEW r \in Run, NEW s \in 1..6
  PROVE  /\ Len(Suites[r][s]) \in 1..7 /\ OnStep(r, s, 1, 1)
         /\ \A n \in 1..Len(Suites[r][s]) :
              CaseWorks(r, s, n) /\ Len(Script(r, s, n)) \in Nat \ {0}
<1>1. PICK len \in 1..7 : SuiteWorks(r, s, len)
  BY SuitesWork
<1>2. Len(Suites[r][s]) = len /\ \A n \in 1..len : CaseWorks(r, s, n)
  BY <1>1 DEF SuiteWorks
<1>3. \A n \in 1..len : Len(Script(r, s, n)) \in Nat \ {0}
  BY <1>2 DEF CaseWorks, Shaped
<1>4. OnStep(r, s, 1, 1)
  <2>1. 1 \in 1..len /\ 1 \in 1..Len(Script(r, s, 1))
    BY <1>3
  <2> QED BY <1>2, <2>1 DEF OnStep
<1> QED BY <1>2, <1>3, <1>4

\* The first step of another case.
Fresh(r, s, n, p) ==
  \/ p = Over
  \/ \E t, m : OnStep(r, t, m, 1) /\ p = <<t, m, 1>> /\ (t # s \/ m # n)

LEMMA NextCaseIs ==
  ASSUME NEW r \in Run, NEW s, NEW n, NEW j, OnStep(r, s, n, j), at[r] = <<s, n, j>>,
         chosen[r] \subseteq AllSuites
  PROVE  Fresh(r, s, n, NextCase(r))
<1>1. s \in 1..6 /\ n \in 1..Len(Suites[r][s]) /\ Len(Suites[r][s]) \in 1..7
  BY FirstSteps DEF OnStep
<1>2. at[r][1] = s /\ at[r][2] = n
  OBVIOUS
<1>3. CASE n < Len(Suites[r][s])
  <2>1. n + 1 \in 1..Len(Suites[r][s]) /\ n + 1 # n
    BY <1>1, <1>3
  <2>2. OnStep(r, s, n + 1, 1)
    <3>1. Len(Script(r, s, n + 1)) \in Nat \ {0}
      BY <1>1, <2>1, FirstSteps
    <3>2. 1 \in 1..Len(Script(r, s, n + 1))
      BY <3>1
    <3> QED BY <1>1, <2>1, <3>2 DEF OnStep
  <2>3. NextCase(r) = <<s, n + 1, 1>>
    BY <1>2, <1>3 DEF NextCase
  <2> QED BY <2>1, <2>2, <2>3 DEF Fresh
<1>4. CASE ~(n < Len(Suites[r][s]))
  <2> DEFINE S == {x \in chosen[r] : x > s}
  <2>1. NextCase(r) = FirstOf(S)
    BY <1>2, <1>4 DEF NextCase
  <2>2. S \subseteq 1..6 /\ \A t \in S : t \in 1..6 /\ t # s
    BY <1>1 DEF AllSuites
  <2> HIDE DEF S
  <2>3. CASE FirstOf(S) = Over
    BY <2>1, <2>3 DEF Fresh
  <2>4. ASSUME NEW t \in S, FirstOf(S) = <<t, 1, 1>> PROVE Fresh(r, s, n, NextCase(r))
    <3>1. OnStep(r, t, 1, 1) /\ t # s
      BY <2>2, FirstSteps
    <3> QED BY <2>1, <2>4, <3>1 DEF Fresh
  <2> QED BY <2>2, <2>3, <2>4, Firsts
<1> QED BY <1>3, <1>4

LEMMA NextStepIs ==
  ASSUME NEW r \in Run, NEW s, NEW n, NEW j, OnStep(r, s, n, j), at[r] = <<s, n, j>>,
         chosen[r] \subseteq AllSuites
  PROVE  IF j < Len(Script(r, s, n))
         THEN OnStep(r, s, n, j + 1) /\ NextStep(r) = <<s, n, j + 1>>
         ELSE Fresh(r, s, n, NextStep(r))
<1>1. /\ at[r][1] = s /\ at[r][2] = n /\ at[r][3] = j
      /\ Len(Script(r, s, n)) \in Nat /\ j \in 1..Len(Script(r, s, n))
  BY FirstSteps DEF OnStep
<1>2. CASE j < Len(Script(r, s, n))
  <2>1. j + 1 \in 1..Len(Script(r, s, n))
    BY <1>1, <1>2
  <2>2. NextStep(r) = <<s, n, j + 1>>
    BY <1>1, <1>2 DEF NextStep, Script
  <2> QED BY <1>2, <2>1, <2>2 DEF OnStep
<1>3. CASE ~(j < Len(Script(r, s, n)))
  <2>1. NextStep(r) = NextCase(r)
    BY <1>1, <1>3 DEF NextStep, Script
  <2> QED BY <1>3, <2>1, NextCaseIs
<1> QED BY <1>2, <1>3

-----------------------------------------------------------------------------
(* What the steps leave alone.                                               *)

\* The connections other than c stay as they are.
Others(c) ==
  \A d \in Conn \ {c} :
    pc'[d] = pc[d] /\ req'[d] = req[d] /\ key'[d] = key[d] /\ reply'[d] = reply[d]

LEMMA WorkKeeps ==
  ASSUME Domains, slugs \subseteq Slug, NEW c \in Conn, Work(c)
  PROVE  /\ UNCHANGED runVars /\ Domains' /\ Others(c) /\ req'[c] = req[c]
         /\ pc[c] # "idle" /\ pc'[c] # "idle"
         /\ slugs \subseteq slugs' /\ slugs' \subseteq Slug
<1> USE DEF Domains, Others, runVars
<1>0. UNCHANGED runVars
  BY DEF Work
<1>1. CASE ReadPermissions(c)
  BY <1>0, <1>1 DEF ReadPermissions, Answer, histVars
<1>2. CASE Authorize(c)
  BY <1>0, <1>2 DEF Authorize, Answer, histVars
<1>3. CASE HandleRead(c)
  BY <1>0, <1>3 DEF HandleRead, At, Answer, histVars
<1>4. CASE HandleStateless(c)
  BY <1>0, <1>4 DEF HandleStateless, At, Answer, histVars
<1>5. CASE HandleDelete(c)
  BY <1>0, <1>5 DEF HandleDelete, At, Answer
<1>6. CASE PutBody(c)
  BY <1>0, <1>6 DEF PutBody, At, histVars
<1>7. CASE PostBody(c)
  BY <1>0, <1>7 DEF PostBody, At
<1>8. CASE EnsureAncestors(c)
  BY <1>0, <1>8 DEF EnsureAncestors, histVars
<1>9. CASE Insert(c)
  BY <1>0, <1>9 DEF Insert, Answer, histVars
<1> QED BY <1>1, <1>2, <1>3, <1>4, <1>5, <1>6, <1>7, <1>8, <1>9 DEF Work

LEMMA ResetKeeps ==
  ASSUME Domains, NEW c \in Conn, Reset(c)
  PROVE  /\ DOMAIN pc' = Conn /\ DOMAIN req' = Conn /\ DOMAIN key' = Conn
         /\ DOMAIN reply' = Conn /\ Others(c) /\ pc'[c] = "idle"
BY DEF Domains, Reset, Others

LEMMA EnterKeeps ==
  ASSUME Domains, NEW c \in Conn, NEW rq, Enter(c, rq)
  PROVE  /\ DOMAIN pc' = Conn /\ DOMAIN req' = Conn /\ DOMAIN key' = Conn
         /\ DOMAIN reply' = Conn /\ Others(c)
         /\ pc'[c] = "permissions" /\ req'[c] = rq /\ key'[c] = ResolvePath(rq.target)
         /\ store' = store /\ slugs' = slugs
BY DEF Domains, Enter, Others, histVars

\* A handler goes on with the key of its request.
LEMMA WorkKey ==
  ASSUME Domains, slugs \subseteq Slug, NEW c \in Conn, Work(c), KeyIs(c)
  PROVE  KeyIs(c)'
<1> USE DEF Domains, KeyIs
<1>1. CASE ReadPermissions(c)
  BY <1>1 DEF ReadPermissions, Answer, histVars
<1>2. CASE Authorize(c)
  BY <1>2 DEF Authorize, Answer, histVars
<1>3. CASE HandleRead(c)
  BY <1>3 DEF HandleRead, At, Answer, histVars
<1>4. CASE HandleStateless(c)
  BY <1>4 DEF HandleStateless, At, Answer, histVars
<1>5. CASE HandleDelete(c)
  BY <1>5 DEF HandleDelete, At, Answer
<1>6. CASE PutBody(c)
  BY <1>6 DEF PutBody, At, histVars
<1>7. CASE PostBody(c)
  BY <1>7 DEF PostBody, At
<1>8. CASE EnsureAncestors(c)
  BY <1>8 DEF EnsureAncestors, histVars
<1>9. CASE Insert(c)
  BY <1>9 DEF Insert, Answer, histVars
<1> QED BY <1>1, <1>2, <1>3, <1>4, <1>5, <1>6, <1>7, <1>8, <1>9 DEF Work

\* A connection stays served when what its request depends on stays.
LEMMA ServedStays ==
  ASSUME NEW d \in Conn, Busied(d), req'[d] = req[d], KeyIs(d)',
         lost'[d[1]] = lost[d[1]], timedOut[d[1]] \subseteq timedOut'[d[1]],
         d[2] = lost[d[1]] => at'[d[1]] = at[d[1]]
  PROVE  Busied(d)'
<1>1. PICK s, n, j : Serving(d, s, n, j)
  BY DEF Busied
<1>2. Serving(d, s, n, j)'
  BY <1>1 DEF Serving
<1>3. d[2] <= lost[d[1]]
  BY DEF Busied
<1> QED BY <1>2, <1>3 DEF Busied

LEMMA KeyStays ==
  ASSUME NEW d, KeyIs(d), pc'[d] = pc[d], req'[d] = req[d], key'[d] = key[d],
         slugs \subseteq slugs'
  PROVE  KeyIs(d)'
BY DEF KeyIs

-----------------------------------------------------------------------------
(* Base is inductive.                                                        *)

LEMMA Outcomes ==
  ASSUME NEW r \in Run, NEW s, NEW n, NEW j, OnStep(r, s, n, j), at[r] = <<s, n, j>>,
         chosen[r] \subseteq AllSuites
  PROVE  Place(r, NextStep(r)) /\ Place(r, NextCase(r))
<1>1. \A p : Fresh(r, s, n, p) => Place(r, p)
  BY DEF Fresh, Place
<1>2. Place(r, NextCase(r))
  BY <1>1, NextCaseIs
<1>3. CASE j < Len(Script(r, s, n))
  BY <1>2, <1>3, NextStepIs DEF Place
<1>4. CASE ~(j < Len(Script(r, s, n)))
  BY <1>1, <1>2, <1>4, NextStepIs
<1> QED BY <1>3, <1>4

\* A run that is busy is at a step.
LEMMA BusyAt ==
  ASSUME Shape, NEW r \in Run, Busy(r)
  PROVE  \E s, n, j : OnStep(r, s, n, j) /\ at[r] = <<s, n, j>>
BY DEF Shape, Place, Busy

\* A connection that serves the current request of its run shows it is busy.
LEMMA ServedAt ==
  ASSUME Base, NEW r \in Run, pc[Current(r)] # "idle"
  PROVE  \E s, n, j : /\ OnStep(r, s, n, j) /\ at[r] = <<s, n, j>>
                      /\ req[Current(r)] = Script(r, s, n)[j].send
<1>1. Current(r) \in Conn /\ Current(r)[1] = r /\ Current(r)[2] = lost[r]
  BY CurrentIs DEF Base, Shape
<1> DEFINE c == Current(r)
<1>2. PICK s, n, j : Serving(c, s, n, j)
  BY <1>1 DEF Base, Served, Busied
<1> HIDE DEF c
<1>3. c[1] = r /\ c[2] = lost[r]
  BY <1>1 DEF c
<1>4. OnStep(r, s, n, j) /\ at[r] = <<s, n, j>> /\ req[c] = Script(r, s, n)[j].send
  BY <1>2, <1>3 DEF Serving
<1> QED BY <1>4 DEF c

LEMMA BaseInit == RunInit => Base
<1> SUFFICES ASSUME RunInit PROVE Base
  OBVIOUS
<1>1. Domains /\ slugs \subseteq Slug
  BY DEF RunInit, InitWith, Domains
<1>2. \A r \in Run : lost[r] = 0 /\ chosen[r] = {} /\ at[r] = NotStarted
  BY DEF RunInit
<1>3. \A r \in Run : 0 \in 0..MaxTimeouts[r]
  BY ConnAssumption
<1>4. Shape
  BY <1>1, <1>2, <1>3 DEF Shape, Place
<1>5. Served
  BY DEF RunInit, InitWith, Served
<1> QED BY <1>4, <1>5 DEF Base

LEMMA BaseBegin ==
  ASSUME Base, NEW r \in Run, Begin(r)
  PROVE  Base'
<1>1. PICK suites \in Filters[r] :
        /\ chosen' = [chosen EXCEPT ![r] = suites]
        /\ at' = [at EXCEPT ![r] = FirstOf(suites)]
  BY DEF Begin
<1>2. at[r] = NotStarted /\ UNCHANGED <<vars, lost, failed, timedOut>>
  BY DEF Begin
<1>3. suites \subseteq 1..6
  BY ConnAssumption DEF AllSuites
<1>4. Place(r, FirstOf(suites))
  <2>1. \A s \in suites : OnStep(r, s, 1, 1)
    BY <1>3, FirstSteps
  <2>2. CASE FirstOf(suites) = Over
    BY <2>2 DEF Place
  <2>3. ASSUME NEW s \in suites, FirstOf(suites) = <<s, 1, 1>>
        PROVE  Place(r, FirstOf(suites))
    BY <2>1, <2>3 DEF Place
  <2> QED BY <1>3, <2>2, <2>3, Firsts
<1>5. /\ store' = store /\ pc' = pc /\ req' = req /\ key' = key /\ reply' = reply
      /\ slugs' = slugs /\ lost' = lost /\ failed' = failed /\ timedOut' = timedOut
  BY <1>2 DEF vars, connVars, histVars
<1>6. Domains'
  BY <1>1, <1>5 DEF Base, Shape, Domains
<1>7. \A q \in Run : /\ q # r => at'[q] = at[q] /\ chosen'[q] = chosen[q]
                     /\ q = r => at'[q] = FirstOf(suites) /\ chosen'[q] = suites
  BY <1>1 DEF Base, Shape, Domains
<1>8. \A q \in Run : \A p : Place(q, p)' <=> Place(q, p)
  BY DEF Place, OnStep, Script, Suites, NotStarted, Over
<1>9. Shape'
  <2>1. \A q \in Run : lost'[q] \in 0..MaxTimeouts[q] /\ chosen'[q] \subseteq AllSuites
    BY <1>3, <1>5, <1>7 DEF Base, Shape, AllSuites
  <2>2. ASSUME NEW q \in Run PROVE Place(q, at'[q])
    BY <1>4, <1>7 DEF Base, Shape
  <2>3. slugs' \subseteq Slug
    BY <1>5 DEF Base, Shape
  <2> QED BY <1>6, <2>1, <2>2, <2>3 DEF Shape
<1>10. ASSUME NEW d \in Conn, pc'[d] # "idle" PROVE Busied(d)'
  <2>1. Busied(d) /\ pc[d] # "idle"
    BY <1>5, <1>10 DEF Base, Served
  <2>2. KeyIs(d)'
    BY <1>5, <2>1, KeyStays DEF Busied
  <2>3. d[1] \in Run
    BY ConnIs
  <2>4. d[2] = lost[d[1]] => at'[d[1]] = at[d[1]]
    <3>1. CASE d[1] # r
      BY <1>7, <2>3, <3>1
    <3>2. CASE d[1] = r
      <4>1. d[2] # lost[r]
        <5> SUFFICES ASSUME d[2] = lost[r] PROVE FALSE
          OBVIOUS
        <5>1. d = Current(r)
          BY <3>2, CurrentIs DEF Base, Shape
        <5>2. PICK s, n, j : OnStep(r, s, n, j) /\ at[r] = <<s, n, j>>
          BY <2>1, <5>1, ServedAt
        <5>3. at[r][1] \in 1..6 /\ at[r][1] = 0
          BY <1>2, <5>2 DEF OnStep, NotStarted
        <5> QED BY <5>3
      <4> QED BY <3>2, <4>1
    <3> QED BY <3>1, <3>2
  <2> QED BY <1>5, <2>1, <2>2, <2>4, ServedStays
<1> QED BY <1>9, <1>10 DEF Base, Served

LEMMA BaseSend ==
  ASSUME Base, NEW r \in Run, SendRequest(r)
  PROVE  Base'
<1>1. PICK c \in Conn : c = Current(r) /\ c[1] = r /\ c[2] = lost[r]
  BY CurrentIs DEF Base, Shape
<1>2. PICK s, n, j : OnStep(r, s, n, j) /\ at[r] = <<s, n, j>>
  BY BusyAt DEF Base, SendRequest
<1>3. StepAt(r) = Script(r, s, n)[j]
  BY <1>2 DEF StepAt, Script
<1>4. Enter(c, Script(r, s, n)[j].send) /\ UNCHANGED runVars
  BY <1>1, <1>3 DEF SendRequest
<1>5. /\ DOMAIN pc' = Conn /\ DOMAIN req' = Conn /\ DOMAIN key' = Conn
      /\ DOMAIN reply' = Conn /\ Others(c) /\ pc'[c] = "permissions"
      /\ req'[c] = Script(r, s, n)[j].send
      /\ key'[c] = ResolvePath(Script(r, s, n)[j].send.target) /\ slugs' = slugs
  BY <1>1, <1>4, EnterKeeps DEF Base, Shape
<1>6. /\ chosen' = chosen /\ at' = at /\ lost' = lost /\ failed' = failed
      /\ timedOut' = timedOut
  BY <1>4 DEF runVars
<1>7. Shape'
  BY <1>5, <1>6 DEF Base, Shape, Domains
<1>8. Busied(c)'
  <2>1. KeyIs(c)'
    BY <1>5 DEF KeyIs
  <2>2. Serving(c, s, n, j)'
    BY <1>1, <1>2, <1>5, <1>6 DEF Serving
  <2>3. lost[r] <= lost[r]
    BY <1>1 DEF Base, Shape
  <2> QED BY <1>1, <1>6, <2>1, <2>2, <2>3 DEF Busied
<1>9. ASSUME NEW d \in Conn \ {c}, pc'[d] # "idle" PROVE Busied(d)'
  <2>1. pc'[d] = pc[d] /\ req'[d] = req[d] /\ key'[d] = key[d]
    BY <1>5 DEF Others
  <2>2. Busied(d)
    BY <1>9, <2>1 DEF Base, Served
  <2>3. KeyIs(d)'
    BY <1>5, <2>1, <2>2, KeyStays DEF Busied
  <2> QED BY <1>6, <2>1, <2>2, <2>3, ServedStays
<1> QED BY <1>7, <1>8, <1>9 DEF Base, Served

\* A step of the server, its runs looking on.
LEMMA BaseWork ==
  ASSUME Base, NEW c \in Conn, Work(c)
  PROVE  Base'
<1>1. /\ UNCHANGED runVars /\ Domains' /\ Others(c) /\ req'[c] = req[c]
      /\ pc[c] # "idle" /\ slugs \subseteq slugs' /\ slugs' \subseteq Slug
  BY WorkKeeps DEF Base, Shape
<1>2. /\ chosen' = chosen /\ at' = at /\ lost' = lost /\ failed' = failed
      /\ timedOut' = timedOut
  BY <1>1 DEF runVars
<1>3. Shape'
  BY <1>1, <1>2 DEF Base, Shape
<1>4. ASSUME NEW d \in Conn, pc'[d] # "idle" PROVE Busied(d)'
  <2>1. Busied(d) /\ req'[d] = req[d]
    BY <1>1, <1>4 DEF Base, Served, Others
  <2>2. KeyIs(d)'
    <3>1. CASE d = c
      BY <2>1, <3>1, WorkKey DEF Base, Shape, Busied
    <3>2. CASE d # c
      <4>1. pc'[d] = pc[d] /\ req'[d] = req[d] /\ key'[d] = key[d]
        BY <1>1, <3>2 DEF Others
      <4> QED BY <1>1, <2>1, <4>1, KeyStays DEF Busied
    <3> QED BY <3>1, <3>2
  <2> QED BY <1>2, <2>1, <2>2, ServedStays
<1> QED BY <1>3, <1>4 DEF Base, Served

LEMMA BaseDrop ==
  ASSUME Base, NEW c \in Conn, Drop(c)
  PROVE  Base'
<1>1. Reset(c) /\ UNCHANGED <<store, histVars>> /\ UNCHANGED runVars
  BY DEF Drop, Disconnect
<1>2. /\ DOMAIN pc' = Conn /\ DOMAIN req' = Conn /\ DOMAIN key' = Conn
      /\ DOMAIN reply' = Conn /\ Others(c) /\ pc'[c] = "idle"
  BY <1>1, ResetKeeps DEF Base, Shape
<1>3. /\ chosen' = chosen /\ at' = at /\ lost' = lost /\ failed' = failed
      /\ timedOut' = timedOut /\ slugs' = slugs
  BY <1>1 DEF runVars, histVars
<1>4. Shape'
  BY <1>2, <1>3 DEF Base, Shape, Domains
<1>5. ASSUME NEW d \in Conn, pc'[d] # "idle" PROVE Busied(d)'
  <2>1. pc'[d] = pc[d] /\ req'[d] = req[d] /\ key'[d] = key[d]
    BY <1>2, <1>5 DEF Others
  <2>2. Busied(d)
    BY <1>5, <2>1 DEF Base, Served
  <2>3. KeyIs(d)'
    BY <1>3, <2>1, <2>2, KeyStays DEF Busied
  <2> QED BY <1>3, <2>1, <2>2, <2>3, ServedStays
<1> QED BY <1>4, <1>5 DEF Base, Served

\* What becomes of a run when its step is over, well or not.
Advance(r, p) ==
  /\ at' = [at EXCEPT ![r] = p]
  /\ DOMAIN failed' = Run

LEMMA Advances ==
  ASSUME Base, NEW r \in Run, Busy(r), Pass(r) \/ Fail(r)
  PROVE  \E p : Advance(r, p) /\ Place(r, p)
<1>1. PICK s, n, j : OnStep(r, s, n, j) /\ at[r] = <<s, n, j>>
  BY BusyAt DEF Base
<1>2. Place(r, NextStep(r)) /\ Place(r, NextCase(r))
  BY <1>1, Outcomes DEF Base, Shape
<1>3. CASE Pass(r)
  BY <1>2, <1>3 DEF Pass, Advance, Base, Shape, Domains
<1>4. CASE Fail(r)
  BY <1>2, <1>4 DEF Fail, Advance, Base, Shape, Domains
<1> QED BY <1>3, <1>4

LEMMA BaseConclude ==
  ASSUME Base, NEW r \in Run, Conclude(r)
  PROVE  Base'
<1> DEFINE c == Current(r)
<1>1. c \in Conn /\ \A d \in Conn : d[1] = r /\ d[2] = lost[r] => d = c
  BY CurrentIs DEF Base, Shape
<1>2. Busy(r) /\ Respond(c) /\ (Pass(r) \/ Fail(r)) /\ UNCHANGED <<chosen, lost, timedOut>>
  BY DEF Conclude
<1> HIDE DEF c
<1>3. Reset(c) /\ slugs' = slugs
  BY <1>2 DEF Respond
<1>4. /\ DOMAIN pc' = Conn /\ DOMAIN req' = Conn /\ DOMAIN key' = Conn
      /\ DOMAIN reply' = Conn /\ Others(c) /\ pc'[c] = "idle"
  BY <1>1, <1>3, ResetKeeps DEF Base, Shape
<1>5. PICK p : Advance(r, p) /\ Place(r, p)
  BY <1>2, Advances
<1>6. /\ DOMAIN at' = Run /\ DOMAIN failed' = Run
      /\ \A q \in Run : at'[q] = IF q = r THEN p ELSE at[q]
  BY <1>5 DEF Advance, Base, Shape, Domains
<1>7. Shape'
  <2>1. Domains' /\ slugs' \subseteq Slug
    BY <1>2, <1>3, <1>4, <1>6 DEF Base, Shape, Domains
  <2>2. ASSUME NEW q \in Run PROVE Place(q, at'[q])
    BY <1>5, <1>6 DEF Base, Shape
  <2> QED BY <1>2, <2>1, <2>2 DEF Base, Shape
<1>8. ASSUME NEW d \in Conn, pc'[d] # "idle" PROVE Busied(d)'
  <2>1. /\ d # c /\ pc'[d] = pc[d] /\ req'[d] = req[d] /\ key'[d] = key[d]
        /\ d[1] \in Run
    BY <1>4, <1>8, ConnIs DEF Others
  <2>2. Busied(d)
    BY <1>8, <2>1 DEF Base, Served
  <2>3. KeyIs(d)'
    BY <1>3, <2>1, <2>2, KeyStays DEF Busied
  <2>4. d[2] = lost[d[1]] => at'[d[1]] = at[d[1]]
    BY <1>1, <1>6, <2>1
  <2> QED BY <1>2, <2>1, <2>2, <2>3, <2>4, ServedStays
<1> QED BY <1>7, <1>8 DEF Base, Served

LEMMA BaseTimeOut ==
  ASSUME Base, NEW r \in Run, TimeOut(r)
  PROVE  Base'
<1>1. /\ Busy(r) /\ lost[r] < MaxTimeouts[r] /\ (Pass(r) \/ Fail(r))
      /\ lost' = [lost EXCEPT ![r] = lost[r] + 1]
      /\ timedOut' = [timedOut EXCEPT ![r] = timedOut[r] \cup {Case(r)}]
      /\ UNCHANGED <<vars, chosen>>
  BY DEF TimeOut
<1>2. PICK p : Advance(r, p) /\ Place(r, p)
  BY <1>1, Advances
<1>3. /\ DOMAIN at' = Run /\ DOMAIN failed' = Run
      /\ \A q \in Run : at'[q] = IF q = r THEN p ELSE at[q]
  BY <1>2 DEF Advance, Base, Shape, Domains
<1>4. /\ DOMAIN lost' = Run /\ DOMAIN timedOut' = Run
      /\ \A q \in Run : lost'[q] = IF q = r THEN lost[r] + 1 ELSE lost[q]
      /\ \A q \in Run : timedOut'[q] = IF q = r THEN timedOut[r] \cup {Case(r)}
                                       ELSE timedOut[q]
  BY <1>1 DEF Base, Shape, Domains
<1>5. /\ pc' = pc /\ req' = req /\ key' = key /\ reply' = reply /\ slugs' = slugs
      /\ chosen' = chosen
  BY <1>1 DEF vars, connVars, histVars
<1>6. \A q \in Run : lost[q] \in Nat /\ MaxTimeouts[q] \in Nat
  BY ConnAssumption DEF Base, Shape
<1>7. Shape'
  <2>1. Domains' /\ slugs' \subseteq Slug
    BY <1>3, <1>4, <1>5 DEF Base, Shape, Domains
  <2>2. ASSUME NEW q \in Run PROVE Place(q, at'[q])
    BY <1>2, <1>3 DEF Base, Shape
  <2>3. ASSUME NEW q \in Run PROVE lost'[q] \in 0..MaxTimeouts[q]
    BY <1>1, <1>4, <1>6 DEF Base, Shape
  <2>4. \A q \in Run : chosen'[q] \subseteq AllSuites
    BY <1>5 DEF Base, Shape
  <2> QED BY <2>1, <2>2, <2>3, <2>4 DEF Shape
<1>8. ASSUME NEW d \in Conn, pc'[d] # "idle" PROVE Busied(d)'
  <2>1. d[1] \in Run /\ d[2] \in Nat
    <3>1. d[1] \in Run /\ d[2] \in 0..MaxTimeouts[d[1]]
      BY ConnIs
    <3> QED BY <1>6, <3>1
  <2>2. Busied(d)
    BY <1>5, <1>8 DEF Base, Served
  <2>3. KeyIs(d)'
    BY <1>5, <2>2, KeyStays DEF Busied
  <2>4. PICK s, n, j : Serving(d, s, n, j)
    BY <2>2 DEF Busied
  <2>5. CASE d[1] # r
    <3>1. /\ lost'[d[1]] = lost[d[1]] /\ timedOut'[d[1]] = timedOut[d[1]]
          /\ at'[d[1]] = at[d[1]]
      BY <1>3, <1>4, <2>1, <2>5
    <3> QED BY <1>5, <2>2, <2>3, <3>1, ServedStays
  <2>6. CASE d[1] = r
    <3>1. d[2] <= lost[r] /\ lost'[r] = lost[r] + 1
      BY <1>4, <2>2, <2>6 DEF Busied
    <3>2. d[2] <= lost'[r] /\ d[2] # lost'[r]
      BY <1>6, <2>1, <3>1
    <3>3. <<s, n>> \in timedOut'[r]
      <4>1. CASE d[2] = lost[r]
        <5>1. at[r] = <<s, n, j>>
          BY <2>4, <2>6, <4>1 DEF Serving
        <5>2. Case(r) = <<s, n>>
          BY <5>1 DEF Case
        <5> QED BY <1>4, <5>2
      <4>2. CASE d[2] # lost[r]
        BY <1>4, <2>4, <2>6, <4>2 DEF Serving
      <4> QED BY <4>1, <4>2
    <3>4. Serving(d, s, n, j)'
      BY <1>5, <2>4, <2>6, <3>2, <3>3 DEF Serving
    <3> QED BY <2>3, <2>6, <3>2, <3>4 DEF Busied
  <2> QED BY <2>5, <2>6
<1> QED BY <1>7, <1>8 DEF Base, Served

LEMMA BaseStays ==
  ASSUME Base, UNCHANGED testVars
  PROVE  Base'
<1>1. UNCHANGED <<pc, req, key, reply, slugs, chosen, at, lost, failed, timedOut>>
  BY DEF testVars, vars, connVars, histVars, runVars
<1> QED BY <1>1 DEF Base, Shape, Domains, Served, Busied, KeyIs, Serving

LEMMA BaseNext == Base /\ [RunNext]_testVars => Base'
<1> SUFFICES ASSUME Base, [RunNext]_testVars PROVE Base'
  OBVIOUS
<1>1. ASSUME NEW r \in Run, Begin(r) \/ SendRequest(r) \/ Conclude(r) \/ TimeOut(r)
      PROVE  Base'
  BY <1>1, BaseBegin, BaseSend, BaseConclude, BaseTimeOut
<1>2. ASSUME NEW c \in Conn, Work(c) \/ Drop(c)
      PROVE  Base'
  BY <1>2, BaseWork, BaseDrop
<1> QED BY <1>1, <1>2, BaseStays DEF RunNext, Progress

-----------------------------------------------------------------------------
(* What the server does for a step, to the store and in its answer.          *)

\* What a step works on.
Bound(st, u, k) ==
  /\ u \in Seg \ Unprintable /\ k \in {<<u>>, <<u, File>>, <<u, Empty>>}
  /\ k[1] = u /\ ResolvePath(k) = k /\ Addressed(st, k)

LEMMA StepBound ==
  ASSUME NEW r \in Run, NEW s, NEW n, NEW j, OnStep(r, s, n, j)
  PROVE  /\ Bound(Script(r, s, n)[j], Uuid(r, s, n), Document(r, s, n))
         /\ s \in 1..6 /\ n \in 1..7 /\ CaseWorks(r, s, n)
<1>1. /\ s \in 1..6 /\ n \in 1..Len(Suites[r][s]) /\ Len(Suites[r][s]) \in 1..7
      /\ CaseWorks(r, s, n) /\ j \in 1..Len(Script(r, s, n))
  BY FirstSteps DEF OnStep
<1>2. n \in 1..7
  <2>1. PICK len \in 1..7 : len = Len(Suites[r][s])
    BY <1>1
  <2>2. n \in 1..len
    BY <1>1, <2>1
  <2> QED BY <2>2
<1>3. Addressed(Script(r, s, n)[j], Document(r, s, n))
  BY <1>1 DEF CaseWorks, Shaped
<1> QED BY <1>1, <1>2, <1>3, Documents DEF Bound

\* The document is not the root.
LEMMA BoundKeys ==
  ASSUME NEW st, NEW u, NEW k, Bound(st, u, k)
  PROVE  /\ u \in Seg /\ u # Empty /\ k # Root /\ Root[1] # u
         /\ k[Len(k)] = Empty => k = <<u, Empty>>
<1>1. u \in Seg /\ u # Empty /\ k[1] = u /\ File # Empty
  BY SegAssumption, FileAssumption DEF Bound
<1>2. k # Root /\ Root[1] # u
  BY <1>1 DEF Root
<1>3. ASSUME k[Len(k)] = Empty PROVE k = <<u, Empty>>
  <2>1. k # <<u>>
    BY <1>1, <1>3
  <2>2. k # <<u, File>>
    BY <1>1, <1>3
  <2> QED BY <2>1, <2>2 DEF Bound
<1> QED BY <1>1, <1>2, <1>3

\* The containers put makes above the document, or above its child.
LEMMA BoundAncestors ==
  ASSUME NEW st, NEW u, NEW k, Bound(st, u, k)
  PROVE  /\ Ancestors(k) \subseteq {Root, <<u, Empty>>} /\ k \notin Ancestors(k)
         /\ \A x \in Seg : Ancestors(<<u, x>>) \subseteq {Root, <<u, Empty>>}
<1>1. u \in Seg /\ File \in Seg /\ u # Empty /\ k # Root
  BY BoundKeys, FileAssumption
<1>2. \A x \in Seg : Ancestors(<<u, x>>) \subseteq {Root, <<u, Empty>>}
  BY <1>1, AncestorsAre
<1>3. CASE k \in {<<u>>, <<u, Empty>>}
  <2>1. Ancestors(k) = {Root}
    BY <1>1, <1>3, AncestorsAre
  <2> QED BY <1>1, <1>2, <2>1
<1>4. CASE k = <<u, File>>
  <2>1. Ancestors(k) \subseteq {Root, <<u, Empty>>}
    BY <1>1, <1>2, <1>4
  <2>2. k # <<u, Empty>>
    BY <1>1, <1>4, SegAssumption
  <2> QED BY <1>1, <1>2, <2>1, <2>2
<1> QED BY <1>3, <1>4 DEF Bound

\* The store m with containers put in at the keys of A that were missing.
Provided(m, A, m2) ==
  /\ DOMAIN m2 = DOMAIN m \cup A
  /\ \A x \in DOMAIN m2 : m2[x] = IF x \in DOMAIN m THEN m[x] ELSE ContainerEntry

Inserted(m, k, e, m2) ==
  /\ DOMAIN m2 = DOMAIN m \cup {k} /\ m2[k] = e
  /\ \A x \in DOMAIN m : x # k => m2[x] = m[x]

\* What a step of the server makes of the store for the step st of a script.
Untouched(c, st) ==
  /\ store' = store
  /\ pc'[c] = "respond" /\ PassThrough => st.send.method \notin {"PUT", "DELETE"}

Removing(c, st, k) ==
  /\ st.send.method = "DELETE" /\ pc'[c] = "respond"
  /\ DOMAIN store' = DOMAIN store \ {k}
  /\ \A x \in DOMAIN store' : store'[x] = store[x]

Providing(c, st, u, k) ==
  /\ st.send.method \in {"PUT", "POST"} /\ pc'[c] # "respond"
  /\ st.send.method = "POST" => k = <<u, Empty>>
  /\ \E A \in SUBSET {Root, <<u, Empty>>} :
       Provided(store, A, store') /\ (st.send.method = "PUT" => k \notin A)

Placing(c, st, k) ==
  /\ st.send.method = "PUT" /\ pc'[c] = "respond"
  /\ Inserted(store, k, EntryFor(k, st.send.content_type, st.send.body), store')

Bearing(c, st, u, k) ==
  /\ st.send.method = "POST" /\ k = <<u, Empty>> /\ pc'[c] = "respond"
  /\ \E slug \in slugs : \E e : Inserted(store, <<u, slug>>, e, store')

Changes(c, st, u, k) ==
  \/ Untouched(c, st) \/ Removing(c, st, k) \/ Providing(c, st, u, k)
  \/ Placing(c, st, k) \/ Bearing(c, st, u, k)

\* The key a handler works on.
LEMMA HandlerKey ==
  ASSUME NEW c, NEW st, NEW u, NEW k, Bound(st, u, k), req[c] = st.send, KeyIs(c),
         slugs \subseteq Slug
  PROVE  /\ pc[c] = "handler" /\ req[c].method = "DELETE" => key[c] = k
         /\ pc[c] \in {"ancestors", "insert"} =>
              \/ st.send.method = "PUT" /\ key[c] = k
              \/ /\ st.send.method = "POST" /\ k = <<u, Empty>>
                 /\ \E slug \in slugs : key[c] = <<u, slug>>
<1>1. k = ResolvePath(k) /\ u \in Seg
  BY BoundKeys DEF Bound
<1>2. ASSUME st.send.method \in {"PUT", "POST", "DELETE"} PROVE st.send.target = k
  BY <1>2 DEF Bound, Addressed
<1>3. ASSUME st.send.method = "POST" PROVE k = <<u, Empty>>
  BY <1>3, BoundKeys DEF Bound, Addressed
<1>4. ASSUME pc[c] = "handler", req[c].method = "DELETE" PROVE key[c] = k
  BY <1>1, <1>2, <1>4 DEF KeyIs
<1>5. ASSUME pc[c] \in {"ancestors", "insert"}
      PROVE  \/ st.send.method = "PUT" /\ key[c] = k
             \/ /\ st.send.method = "POST" /\ k = <<u, Empty>>
                /\ \E slug \in slugs : key[c] = <<u, slug>>
  <2>1. CASE st.send.method = "PUT" /\ key[c] = ResolvePath(st.send.target)
    BY <1>1, <1>2, <2>1
  <2>2. ASSUME st.send.method = "POST", NEW slug \in slugs,
               key[c] = ChildKey(ResolvePath(st.send.target), slug)
        PROVE  k = <<u, Empty>> /\ key[c] = <<u, slug>>
    <3>1. k = <<u, Empty>> /\ key[c] = ChildKey(<<u, Empty>>, slug)
      BY <1>1, <1>2, <1>3, <2>2
    <3>2. slug \in Seg
      BY SlugAssumption
    <3> QED BY <1>1, <3>1, <3>2, ChildIs
  <2> QED BY <1>5, <2>1, <2>2 DEF KeyIs
<1> QED BY <1>4, <1>5

LEMMA WorkChanges ==
  ASSUME Domains, slugs \subseteq Slug, NEW c \in Conn, Work(c), KeyIs(c),
         NEW st, NEW u, NEW k, Bound(st, u, k), req[c] = st.send
  PROVE  Changes(c, st, u, k)
<1>1. CASE ReadPermissions(c)
  <2>1. Untouched(c, st)
    BY <1>1 DEF ReadPermissions, Answer, Untouched, Domains
  <2> QED BY <2>1 DEF Changes
<1>2. CASE Authorize(c)
  <2>1. Untouched(c, st)
    BY <1>2 DEF Authorize, Answer, Untouched, Domains
  <2> QED BY <2>1 DEF Changes
<1>3. CASE HandleRead(c)
  <2>1. Untouched(c, st)
    BY <1>3 DEF HandleRead, At, Untouched
  <2> QED BY <2>1 DEF Changes
<1>4. CASE HandleStateless(c)
  <2>1. Untouched(c, st)
    BY <1>4 DEF HandleStateless, At, Untouched
  <2> QED BY <2>1 DEF Changes
<1>5. CASE HandleDelete(c)
  <2>1. key[c] = k /\ st.send.method = "DELETE"
    BY <1>5, HandlerKey DEF HandleDelete, At
  <2>2. store' = Without(store, k) /\ pc'[c] = "respond"
    BY <1>5, <2>1 DEF HandleDelete, Answer, Domains
  <2>3. Removing(c, st, k)
    BY <2>1, <2>2 DEF Removing, Without
  <2> QED BY <2>3 DEF Changes
<1>6. CASE PutBody(c)
  <2>1. Untouched(c, st)
    BY <1>6 DEF PutBody, Untouched, Domains
  <2> QED BY <2>1 DEF Changes
<1>7. CASE PostBody(c)
  <2>1. Untouched(c, st)
    BY <1>7 DEF PostBody, Untouched, Domains
  <2> QED BY <2>1 DEF Changes
<1>8. CASE EnsureAncestors(c)
  <2>1. pc[c] = "ancestors" /\ pc'[c] # "respond" /\ store' = WithAncestors(store, key[c])
    BY <1>8 DEF EnsureAncestors, Domains
  <2>2. Provided(store, Ancestors(key[c]), store')
    BY <2>1 DEF WithAncestors, Provided
  <2>3. CASE st.send.method = "PUT" /\ key[c] = k
    <3>1. Ancestors(key[c]) \in SUBSET {Root, <<u, Empty>>} /\ k \notin Ancestors(key[c])
      BY <2>3, BoundAncestors
    <3>2. Providing(c, st, u, k)
      BY <2>1, <2>2, <2>3, <3>1 DEF Providing
    <3> QED BY <3>2 DEF Changes
  <2>4. CASE /\ st.send.method = "POST" /\ k = <<u, Empty>>
             /\ \E slug \in slugs : key[c] = <<u, slug>>
    <3>1. Ancestors(key[c]) \in SUBSET {Root, <<u, Empty>>}
      BY <2>4, BoundAncestors, SlugAssumption
    <3>2. Providing(c, st, u, k)
      BY <2>1, <2>2, <2>4, <3>1 DEF Providing
    <3> QED BY <3>2 DEF Changes
  <2> QED BY <2>1, <2>3, <2>4, HandlerKey
<1>9. CASE Insert(c)
  <2> DEFINE e == EntryFor(key[c], req[c].content_type, req[c].body)
  <2>1. pc[c] = "insert" /\ pc'[c] = "respond" /\ store' = WithEntry(store, key[c], e)
    BY <1>9 DEF Insert, Answer, Domains
  <2>2. Inserted(store, key[c], e, store')
    <3> HIDE DEF e
    <3> QED BY <2>1 DEF WithEntry, Inserted
  <2>3. CASE st.send.method = "PUT" /\ key[c] = k
    <3>1. Placing(c, st, k)
      BY <2>1, <2>2, <2>3 DEF Placing
    <3> QED BY <3>1 DEF Changes
  <2>4. CASE /\ st.send.method = "POST" /\ k = <<u, Empty>>
             /\ \E slug \in slugs : key[c] = <<u, slug>>
    <3> HIDE DEF e
    <3>1. Bearing(c, st, u, k)
      BY <2>1, <2>2, <2>4 DEF Bearing
    <3> QED BY <3>1 DEF Changes
  <2> QED BY <2>1, <2>3, <2>4, HandlerKey
<1> QED BY <1>1, <1>2, <1>3, <1>4, <1>5, <1>6, <1>7, <1>8, <1>9 DEF Work

\* Keys of other cases and of others stay, and the only keys that may be new
\* are the document, what is beside or above it, and the root.
Local(u) ==
  /\ \A x \in DOMAIN store : x[1] # u => x \in DOMAIN store' /\ store'[x] = store[x]
  /\ \A x \in DOMAIN store' : x[1] = u \/ x \in DOMAIN store \/ x = Root

LEMMA ChangesLocal ==
  ASSUME NEW c, NEW st, NEW u, NEW k, Bound(st, u, k), Changes(c, st, u, k)
  PROVE  Local(u)
<1>1. k[1] = u /\ <<u, Empty>>[1] = u /\ \A slug : <<u, slug>>[1] = u
  BY DEF Bound
<1>2. CASE Untouched(c, st)
  BY <1>2 DEF Untouched, Local
<1>3. CASE Removing(c, st, k)
  BY <1>1, <1>3 DEF Removing, Local
<1>4. CASE Providing(c, st, u, k)
  <2>1. PICK A \in SUBSET {Root, <<u, Empty>>} : Provided(store, A, store')
    BY <1>4 DEF Providing
  <2> QED BY <1>1, <2>1 DEF Provided, Local
<1>5. CASE Placing(c, st, k)
  <2> DEFINE e == EntryFor(k, st.send.content_type, st.send.body)
  <2>1. Inserted(store, k, e, store')
    BY <1>5 DEF Placing
  <2> HIDE DEF e
  <2> QED BY <1>1, <2>1 DEF Inserted, Local
<1>6. CASE Bearing(c, st, u, k)
  <2>1. PICK slug \in slugs : \E e : Inserted(store, <<u, slug>>, e, store')
    BY <1>6 DEF Bearing
  <2> QED BY <1>1, <2>1 DEF Inserted, Local
<1> QED BY <1>2, <1>3, <1>4, <1>5, <1>6 DEF Changes

\* The document itself changes with the answer, as the script expects.
LEMMA ChangesDocument ==
  ASSUME NEW c, NEW st, NEW u, NEW k, Bound(st, u, k), Changes(c, st, u, k), PassThrough,
         slugs \subseteq Slug, NEW e, Shows(store, k, e),
         st.send.method = "POST" => e # None,
         st.send.method = "PUT" => After(st, k, e) # None
  PROVE  /\ pc'[c] = "respond" => Shows(store', k, After(st, k, e))
         /\ pc'[c] # "respond" => Shows(store', k, e)
<1>1. k # Root
  BY BoundKeys
<1>2. CASE Untouched(c, st)
  BY <1>2 DEF Untouched, After
<1>3. CASE Removing(c, st, k)
  <2>1. After(st, k, e) = None /\ k \notin DOMAIN store' /\ pc'[c] = "respond"
    BY <1>3 DEF Removing, After
  <2> QED BY <2>1 DEF Shows
<1>4. CASE Providing(c, st, u, k)
  <2>1. PICK A \in SUBSET {Root, <<u, Empty>>} :
          Provided(store, A, store') /\ (st.send.method = "PUT" => k \notin A)
    BY <1>4 DEF Providing
  <2>2. pc'[c] # "respond" /\ st.send.method \in {"PUT", "POST"}
    BY <1>4 DEF Providing
  <2>3. CASE e = None
    <3>1. k \notin DOMAIN store /\ k \notin A
      BY <2>1, <2>2, <2>3 DEF Shows
    <3> QED BY <2>1, <2>2, <2>3, <3>1 DEF Shows, Provided
  <2>4. CASE e # None
    BY <2>1, <2>2, <2>4 DEF Shows, Provided
  <2> QED BY <2>3, <2>4
<1>5. CASE Placing(c, st, k)
  <2> DEFINE f == EntryFor(k, st.send.content_type, st.send.body)
  <2>1. /\ Inserted(store, k, f, store') /\ pc'[c] = "respond"
        /\ After(st, k, e) = f /\ f # None
    BY <1>5 DEF Placing, After
  <2> HIDE DEF f
  <2> QED BY <2>1 DEF Inserted, Shows
<1>6. CASE Bearing(c, st, u, k)
  <2>1. PICK slug \in slugs : \E f : Inserted(store, <<u, slug>>, f, store')
    BY <1>6 DEF Bearing
  <2>2. st.send.method = "POST" /\ pc'[c] = "respond" /\ k = <<u, Empty>>
    BY <1>6 DEF Bearing
  <2>3. <<u, slug>> # k
    <3>1. slug # Empty
      BY SlugAssumption, SegAssumption
    <3> QED BY <2>2, <3>1
  <2>4. After(st, k, e) = e /\ e # None
    BY <2>2 DEF After
  <2> QED BY <2>1, <2>2, <2>3, <2>4 DEF Inserted, Shows
<1> QED BY <1>2, <1>3, <1>4, <1>5, <1>6 DEF Changes

\* An answer is one the store of the moment calls for.
LEMMA WorkReplies ==
  ASSUME Domains, slugs \subseteq Slug, NEW c \in Conn, Work(c), KeyIs(c), PassThrough,
         pc'[c] = "respond"
  PROVE  pc[c] # "respond" /\ reply'[c] \in Replies(req[c], store)
<1>1. CASE ReadPermissions(c)
  BY <1>1 DEF ReadPermissions, Domains
<1>2. CASE Authorize(c)
  BY <1>2 DEF Authorize, Domains
<1>3. CASE HandleRead(c)
  <2>1. /\ pc[c] = "handler" /\ req[c].method \in {"GET", "HEAD"}
        /\ reply'[c] = ReadReply(req[c], key[c], store)
    BY <1>3 DEF HandleRead, At, Answer, Domains
  <2> QED BY <2>1 DEF KeyIs, Replies
<1>4. CASE HandleStateless(c)
  <2>1. /\ pc[c] = "handler" /\ req[c].method \in {"OPTIONS", "PATCH"}
        /\ reply'[c] = Status(IF req[c].method = "OPTIONS" THEN 204 ELSE 415)
    BY <1>4 DEF HandleStateless, At, Answer, Domains
  <2> QED BY <2>1 DEF Replies
<1>5. CASE HandleDelete(c)
  <2>1. /\ pc[c] = "handler" /\ req[c].method = "DELETE"
        /\ reply'[c] = DeleteReply(key[c], store)
    BY <1>5 DEF HandleDelete, At, Answer, Domains
  <2> QED BY <2>1 DEF KeyIs, Replies
<1>6. CASE PutBody(c)
  BY <1>6 DEF PutBody, Domains
<1>7. CASE PostBody(c)
  BY <1>7 DEF PostBody, Domains
<1>8. CASE EnsureAncestors(c)
  BY <1>8 DEF EnsureAncestors, Domains
<1>9. CASE Insert(c)
  <2> DEFINE t == ResolvePath(req[c].target)
  <2>1. /\ pc[c] = "insert"
        /\ reply'[c] = WriteReply(req[c], key[c], key[c] \notin DOMAIN store)
    BY <1>9 DEF Insert, Answer, Domains
  <2>2. CASE req[c].method = "PUT" /\ key[c] = t
    <3>1. reply'[c] = WriteReply(req[c], t, t \notin DOMAIN store)
      BY <2>1, <2>2
    <3> QED BY <2>1, <2>2, <3>1 DEF Replies
  <2>3. ASSUME req[c].method = "POST", NEW slug \in slugs, key[c] = ChildKey(t, slug)
        PROVE  reply'[c] \in Replies(req[c], store)
    <3>1. reply'[c] = WriteReply(req[c], key[c], TRUE)
      BY <2>1, <2>3 DEF WriteReply
    <3>2. reply'[c] \in {WriteReply(req[c], ChildKey(t, x), TRUE) : x \in Slug}
      BY <2>3, <3>1
    <3> HIDE DEF t
    <3> QED BY <2>3, <3>2 DEF Replies, t
  <2> QED BY <2>1, <2>2, <2>3 DEF KeyIs
<1> QED BY <1>1, <1>2, <1>3, <1>4, <1>5, <1>6, <1>7, <1>8, <1>9 DEF Work

-----------------------------------------------------------------------------
(* What the tests touch: nothing but what is theirs.                         *)

\* What a step of the server does for the case (s, n) of its run.
LEMMA WorkFor ==
  ASSUME Base, NEW c \in Conn, Work(c)
  PROVE  \E s, n, j :
           /\ OnStep(c[1], s, n, j) /\ Serving(c, s, n, j)
           /\ Bound(Script(c[1], s, n)[j], Uuid(c[1], s, n), Document(c[1], s, n))
           /\ Changes(c, Script(c[1], s, n)[j], Uuid(c[1], s, n), Document(c[1], s, n))
<1>1. pc[c] # "idle" /\ Domains /\ slugs \subseteq Slug
  BY WorkKeeps DEF Base, Shape
<1>2. Busied(c)
  BY <1>1 DEF Base, Served
<1>3. PICK s, n, j : Serving(c, s, n, j)
  BY <1>2 DEF Busied
<1>4. OnStep(c[1], s, n, j) /\ req[c] = Script(c[1], s, n)[j].send /\ c[1] \in Run
  BY <1>3, ConnIs DEF Serving
<1>5. Bound(Script(c[1], s, n)[j], Uuid(c[1], s, n), Document(c[1], s, n))
  BY <1>4, StepBound
<1>6. Changes(c, Script(c[1], s, n)[j], Uuid(c[1], s, n), Document(c[1], s, n))
  BY <1>1, <1>2, <1>4, <1>5, WorkChanges DEF Busied
<1> QED BY <1>3, <1>4, <1>5, <1>6

\* Every other step leaves the store alone.
LEMMA OtherSteps ==
  ASSUME [RunNext]_testVars
  PROVE  (\E c \in Conn : Work(c)) \/ (store' = store /\ slugs' = slugs)
<1>1. ASSUME NEW r \in Run, Begin(r) PROVE store' = store /\ slugs' = slugs
  BY <1>1 DEF Begin, vars, histVars
<1>2. ASSUME NEW r \in Run, SendRequest(r) PROVE store' = store /\ slugs' = slugs
  BY <1>2 DEF SendRequest, Enter, histVars
<1>3. ASSUME NEW r \in Run, Conclude(r) PROVE store' = store /\ slugs' = slugs
  BY <1>3 DEF Conclude, Respond
<1>4. ASSUME NEW r \in Run, TimeOut(r) PROVE store' = store /\ slugs' = slugs
  BY <1>4 DEF TimeOut, vars, histVars
<1>5. ASSUME NEW c \in Conn, Drop(c) PROVE store' = store /\ slugs' = slugs
  BY <1>5 DEF Drop, Disconnect, histVars
<1>6. ASSUME UNCHANGED testVars PROVE store' = store /\ slugs' = slugs
  BY <1>6 DEF testVars, vars, histVars
<1> QED BY <1>1, <1>2, <1>3, <1>4, <1>5, <1>6 DEF RunNext, Progress

LEMMA ForeignStays ==
  ASSUME Base, [RunNext]_testVars, NEW k \in DOMAIN store,
         \A r \in Run : ~MadeBy(r, k)
  PROVE  k \in DOMAIN store' /\ store'[k] = store[k]
<1>1. CASE store' = store
  BY <1>1
<1>2. ASSUME NEW c \in Conn, Work(c) PROVE k \in DOMAIN store' /\ store'[k] = store[k]
  <2>1. PICK s, n, j :
          /\ OnStep(c[1], s, n, j)
          /\ Bound(Script(c[1], s, n)[j], Uuid(c[1], s, n), Document(c[1], s, n))
          /\ Changes(c, Script(c[1], s, n)[j], Uuid(c[1], s, n), Document(c[1], s, n))
    BY <1>2, WorkFor
  <2>2. Local(Uuid(c[1], s, n))
    BY <2>1, ChangesLocal
  <2>3. k[1] # Uuid(c[1], s, n)
    <3>1. c[1] \in Run /\ s \in AllSuites /\ n \in 1..Len(Suites[c[1]][s])
      BY <2>1, ConnIs DEF OnStep, AllSuites
    <3> QED BY <3>1 DEF MadeBy
  <2> QED BY <2>2, <2>3 DEF Local
<1> QED BY <1>1, <1>2, OtherSteps

\* Tests run against a live server: whatever runs there are, however their
\* requests interleave, come late or are given up, an entry that no run has
\* made stays as it was.
THEOREM ForeignDataIsKept == RunSpec => ForeignDataStays
<1>1. Base /\ [RunNext]_testVars =>
        [\A k \in DOMAIN store :
           (\A r \in Run : ~MadeBy(r, k)) =>
             k \in DOMAIN store' /\ store'[k] = store[k]]_testVars
  <2> SUFFICES ASSUME Base, [RunNext]_testVars, NEW k \in DOMAIN store,
                      \A r \in Run : ~MadeBy(r, k)
               PROVE  k \in DOMAIN store' /\ store'[k] = store[k]
    OBVIOUS
  <2> QED BY ForeignStays
<1> QED BY <1>1, BaseInit, BaseNext, PTL DEF RunSpec, ForeignDataStays

-----------------------------------------------------------------------------
(* What the cases find, and what they leave.                                 *)

\* What the case n of suite s makes of its document, step by step.
Contents(r, s, n) ==
  CHOOSE es : /\ History(Script(r, s, n), Document(r, s, n), es)
              /\ <<s, n>> \notin AclCases => Sound(Script(r, s, n), Document(r, s, n), es)

LEMMA ContentsAre ==
  ASSUME NEW r, NEW s, NEW n, CaseWorks(r, s, n)
  PROVE  /\ History(Script(r, s, n), Document(r, s, n), Contents(r, s, n))
         /\ <<s, n>> \notin AclCases =>
              Sound(Script(r, s, n), Document(r, s, n), Contents(r, s, n))
<1> DEFINE P(es) ==
             /\ History(Script(r, s, n), Document(r, s, n), es)
             /\ <<s, n>> \notin AclCases =>
                  Sound(Script(r, s, n), Document(r, s, n), es)
<1>1. \E es : P(es)
  <2>1. CASE <<s, n>> \in AclCases
    BY <2>1 DEF CaseWorks, Shaped
  <2>2. CASE <<s, n>> \notin AclCases
    BY <2>2 DEF CaseWorks, Claims
  <2> QED BY <2>1, <2>2
<1>2. Contents(r, s, n) = CHOOSE es : P(es)
  BY DEF Contents
<1>3. P(CHOOSE es : P(es))
  <2> HIDE DEF P
  <2> QED BY <1>1
<1> HIDE DEF P
<1>4. P(Contents(r, s, n))
  BY <1>2, <1>3
<1> QED BY <1>4 DEF P

\* The answer that has come for the step is one that it takes.
Satisfied(r, st) == st.tolerant \/ Meets(reply[Current(r)], st)

\* The run is not at the case.
Away(p, s, n) == \A j : p # <<s, n, j>>

\* The document of the step a run is at is what the script has made of it, and
\* the answer is good.
AtStep(r, s, n, j) ==
  /\ pc[Current(r)] # "respond" => Shows(store, Document(r, s, n), Contents(r, s, n)[j])
  /\ pc[Current(r)] = "respond" =>
       /\ Shows(store, Document(r, s, n), Contents(r, s, n)[j + 1])
       /\ <<s, n>> \notin AclCases => Satisfied(r, Script(r, s, n)[j])

\* A case that has not failed and met no timeout: its document is as its
\* script has it while the run is at it, and not there before and after.
Tracked(r, s, n) ==
  <<s, n>> \notin failed[r] \cup timedOut[r] =>
    /\ Away(at[r], s, n) => Document(r, s, n) \notin DOMAIN store
    /\ \A j : at[r] = <<s, n, j>> => AtStep(r, s, n, j)

OnCase(r, s, n) == s \in 1..6 /\ n \in 1..Len(Suites[r][s])

\* Every case has a first step.
LEMMA CaseIsStep ==
  ASSUME NEW r \in Run, NEW s, NEW n, OnCase(r, s, n)
  PROVE  OnStep(r, s, n, 1) /\ s \in 1..6 /\ n \in 1..7
<1>1. Len(Script(r, s, n)) \in Nat \ {0}
  BY FirstSteps DEF OnCase
<1>2. 1 \in 1..Len(Script(r, s, n))
  BY <1>1
<1>3. OnStep(r, s, n, 1)
  BY <1>2 DEF OnCase, OnStep
<1> QED BY <1>3, StepBound

AllTracked == \A r \in Run : \A s, n : OnCase(r, s, n) => Tracked(r, s, n)

RootIn == Root \in DOMAIN store

\* While all is well the failed cases are accounted for.
Following == Base /\ RootIn /\ AllTracked /\ OnlyAclCasesFail

LEMMA FollowingInit == RunInit => Following
<1> SUFFICES ASSUME RunInit PROVE Following
  OBVIOUS
<1>1. store = LiveStore /\ \A r \in Run : failed[r] = {} /\ at[r] = NotStarted
  BY DEF RunInit, InitWith
<1>2. RootIn /\ OnlyAclCasesFail
  BY <1>1, LiveStoreAssumption DEF RootIn, OnlyAclCasesFail
<1>3. ASSUME NEW r \in Run, NEW s, NEW n, OnCase(r, s, n) PROVE Tracked(r, s, n)
  <2>2. s \in 1..6 /\ n \in 1..7
    BY <1>3, CaseIsStep
  <2>3. Document(r, s, n)[1] = Uuid(r, s, n)
    BY <2>2, Documents
  <2>4. Document(r, s, n) \notin DOMAIN store
    BY <1>1, <2>2, <2>3, LiveStoreAssumption
  <2>5. \A j : at[r] # <<s, n, j>>
    BY <1>1, <2>2 DEF NotStarted
  <2> QED BY <2>4, <2>5 DEF Tracked
<1> QED BY <1>2, <1>3, BaseInit DEF Following, AllTracked

\* Cases of a run, or of two, do not share a document.
LEMMA Apart ==
  ASSUME NEW r \in Run, NEW s, NEW n, OnCase(r, s, n),
         NEW q \in Run, NEW t, NEW m, NEW j, OnStep(q, t, m, j),
         r # q \/ s # t \/ n # m
  PROVE  Document(r, s, n)[1] # Uuid(q, t, m) /\ Document(r, s, n) # Root
<1>1. OnStep(r, s, n, 1)
  BY CaseIsStep
<1>2. /\ Bound(Script(r, s, n)[1], Uuid(r, s, n), Document(r, s, n))
      /\ s \in 1..6 /\ n \in 1..7
  BY <1>1, StepBound
<1>3. t \in 1..6 /\ m \in 1..7
  BY StepBound
<1>4. Uuid(r, s, n) # Uuid(q, t, m)
  BY <1>2, <1>3, UuidAssumption
<1> QED BY <1>2, <1>4, BoundKeys DEF Bound

\* A step of the run takes what is at hand.
LEMMA WorkPc ==
  ASSUME NEW c, Work(c)
  PROVE  pc[c] # "respond"
BY DEF Work, ReadPermissions, Authorize, HandleRead, HandleStateless, HandleDelete,
       PutBody, PostBody, EnsureAncestors, Insert, At

LEMMA WorkTracked ==
  ASSUME Following, PassThrough, NEW c \in Conn, Work(c),
         NEW r \in Run, NEW s, NEW n, OnCase(r, s, n)
  PROVE  Tracked(r, s, n)'
<1>1. /\ UNCHANGED runVars /\ Domains /\ Others(c) /\ slugs \subseteq Slug
      /\ req'[c] = req[c] /\ pc[c] # "idle" /\ pc[c] # "respond"
  BY WorkKeeps, WorkPc DEF Following, Base, Shape
<1>2. /\ chosen' = chosen /\ at' = at /\ lost' = lost /\ failed' = failed
      /\ timedOut' = timedOut
  BY <1>1 DEF runVars
<1>3. SUFFICES ASSUME <<s, n>> \notin failed[r] \cup timedOut[r]
               PROVE  /\ Away(at[r], s, n) => Document(r, s, n) \notin DOMAIN store'
                      /\ \A j : at[r] = <<s, n, j>> => AtStep(r, s, n, j)'
  BY <1>2 DEF Tracked
<1>4. Tracked(r, s, n)
  BY DEF Following, AllTracked
<1>5. PICK cur \in Conn : cur = Current(r) /\ cur[1] = r /\ cur[2] = lost[r]
  BY CurrentIs DEF Following, Base, Shape
<1>6. Current(r)' = cur
  BY <1>2, <1>5 DEF Current
<1>7. PICK t, m, i :
        /\ OnStep(c[1], t, m, i) /\ Serving(c, t, m, i)
        /\ Bound(Script(c[1], t, m)[i], Uuid(c[1], t, m), Document(c[1], t, m))
        /\ Changes(c, Script(c[1], t, m)[i], Uuid(c[1], t, m), Document(c[1], t, m))
  BY WorkFor DEF Following
<1>8. c[1] \in Run
  BY ConnIs
<1>9. CASE c[1] # r \/ t # s \/ m # n
  <2>1. Local(Uuid(c[1], t, m))
    BY <1>7, ChangesLocal
  <2>2. /\ Document(r, s, n)[1] # Uuid(c[1], t, m)
        /\ Document(r, s, n) # Root
    BY <1>7, <1>8, <1>9, Apart
  <2>3. \A e : Shows(store, Document(r, s, n), e) => Shows(store', Document(r, s, n), e)
    BY <2>1, <2>2 DEF Local, Shows
  <2>4. Document(r, s, n) \notin DOMAIN store => Document(r, s, n) \notin DOMAIN store'
    BY <2>1, <2>2 DEF Local
  <2>5. ASSUME NEW j, at[r] = <<s, n, j>> PROVE AtStep(r, s, n, j)'
    <3>1. c # cur
      <4> SUFFICES ASSUME c = cur PROVE FALSE
        OBVIOUS
      <4>1. at[r] = <<t, m, i>> /\ c[1] = r
        BY <1>5, <1>7 DEF Serving
      <4>2. s = t /\ n = m
        BY <2>5, <4>1
      <4> QED BY <1>9, <4>1, <4>2
    <3>2. pc'[cur] = pc[cur] /\ reply'[cur] = reply[cur]
      BY <1>1, <1>5, <3>1 DEF Others
    <3>3. AtStep(r, s, n, j)
      BY <1>3, <1>4, <2>5 DEF Tracked
    <3> QED BY <1>5, <1>6, <2>3, <3>2, <3>3 DEF AtStep, Satisfied
  <2> QED BY <1>3, <1>4, <2>4, <2>5 DEF Tracked
<1>10. CASE c[1] = r /\ t = s /\ m = n
  <2>1. c = cur /\ at[r] = <<s, n, i>>
    <3>1. c[2] = lost[r]
      BY <1>3, <1>7, <1>10 DEF Serving
    <3>2. at[r] = <<s, n, i>>
      BY <1>7, <1>10, <3>1 DEF Serving
    <3>3. c = <<r, lost[r]>>
      BY <1>10, <3>1, ConnIs
    <3> QED BY <1>5, <3>2, <3>3 DEF Current
  <2> DEFINE st == Script(r, s, n)[i]  k == Document(r, s, n)  u == Uuid(r, s, n)
             es == Contents(r, s, n)
  <2>2. Shows(store, k, es[i])
    BY <1>1, <1>3, <1>4, <1>5, <2>1 DEF Tracked, AtStep
  <2>3. /\ OnStep(r, s, n, i) /\ Bound(st, u, k) /\ Changes(c, st, u, k)
        /\ req[c] = st.send
    BY <1>7, <1>10 DEF Serving
  <2>4. CaseWorks(r, s, n) /\ i \in 1..Len(Script(r, s, n))
    BY <2>3, StepBound DEF OnStep
  <2>5. /\ es[i + 1] = After(st, k, es[i])
        /\ st.send.method = "POST" => es[i] # None
        /\ st.send.method = "PUT" => es[i + 1] # None
    <3> DEFINE sc == Script(r, s, n)
    <3>1. History(sc, k, es) /\ i \in 1..Len(sc) /\ st = sc[i]
      BY <2>4, ContentsAre
    <3> HIDE DEF sc, k, es, st
    <3> QED BY <3>1 DEF History
  <2>6. <<s, n>> \notin AclCases => Works(st, k, es[i])
    BY <2>4, ContentsAre DEF Sound
  <2> HIDE DEF st, k, u, es
  <2>7. /\ pc'[c] = "respond" => Shows(store', k, es[i + 1])
        /\ pc'[c] # "respond" => Shows(store', k, es[i])
    BY <1>1, <2>2, <2>3, <2>5, ChangesDocument
  <2>8. ASSUME pc'[c] = "respond", <<s, n>> \notin AclCases
        PROVE  st.tolerant \/ Meets(reply'[c], st)
    <3>1. KeyIs(c)
      BY <1>1 DEF Following, Base, Served, Busied
    <3>2. reply'[c] \in Replies(st.send, store)
      BY <1>1, <2>3, <2>8, <3>1, WorkReplies
    <3>3. Root \in DOMAIN store
      BY DEF Following, RootIn
    <3> QED BY <2>2, <2>6, <2>8, <3>2, <3>3 DEF Works
  <2>9. AtStep(r, s, n, i)'
    BY <1>6, <2>1, <2>7, <2>8 DEF AtStep, Satisfied, st, k, es
  <2>10. ~Away(at[r], s, n) /\ \A j : at[r] = <<s, n, j>> => j = i
    BY <2>1 DEF Away
  <2> QED BY <2>9, <2>10
<1> QED BY <1>9, <1>10

\* A case that nothing happens to.
LEMMA TrackedStays ==
  ASSUME NEW r \in Run, NEW s, NEW n, Tracked(r, s, n), store' = store,
         at'[r] = at[r], lost'[r] = lost[r],
         failed'[r] = failed[r], timedOut'[r] = timedOut[r],
         NEW cur, cur = Current(r), pc[cur] = "respond" <=> pc'[cur] = "respond",
         reply'[cur] = reply[cur]
  PROVE  Tracked(r, s, n)'
<1>1. Current(r)' = cur
  BY DEF Current
<1>2. \A j : AtStep(r, s, n, j) => AtStep(r, s, n, j)'
  BY <1>1 DEF AtStep, Satisfied
<1> QED BY <1>2 DEF Tracked

\* What must hold of a run that has gone to p for a case to be tracked there.
Arrived(r, s, n, p) ==
  /\ Away(p, s, n) => Document(r, s, n) \notin DOMAIN store
  /\ \A j : p = <<s, n, j>> => Shows(store, Document(r, s, n), Contents(r, s, n)[j])

LEMMA TrackedThere ==
  ASSUME NEW r, NEW s, NEW n, NEW p, at'[r] = p, store' = store,
         NEW cur, cur = Current(r)', pc'[cur] # "respond",
         <<s, n>> \notin failed'[r] \cup timedOut'[r] => Arrived(r, s, n, p)
  PROVE  Tracked(r, s, n)'
<1>1. \A j : p = <<s, n, j>> /\ Arrived(r, s, n, p) => AtStep(r, s, n, j)'
  BY DEF AtStep, Arrived
<1> QED BY <1>1 DEF Tracked, Arrived

\* A run that goes to the first step of another case finds all as it should be.
LEMMA ArrivedFresh ==
  ASSUME NEW r \in Run, NEW s, NEW n, NEW t, NEW m, NEW p, Fresh(r, t, m, p),
         OnCase(r, s, n), Document(r, s, n) \notin DOMAIN store
  PROVE  Arrived(r, s, n, p)
<1>1. ASSUME NEW j, p = <<s, n, j>>
      PROVE  Shows(store, Document(r, s, n), Contents(r, s, n)[j])
  <2>1. j = 1
    <3>1. p # Over
      BY <1>1 DEF OnCase, Over
    <3> QED BY <1>1, <3>1 DEF Fresh
  <2>2. CaseWorks(r, s, n)
    BY FirstSteps DEF OnCase
  <2>3. Contents(r, s, n)[1] = None
    <3> DEFINE es == Contents(r, s, n)  sc == Script(r, s, n)  k == Document(r, s, n)
    <3>1. History(sc, k, es)
      BY <2>2, ContentsAre
    <3> HIDE DEF es, sc, k
    <3>2. es[1] = None
      BY <3>1 DEF History
    <3> QED BY <3>2 DEF es
  <2> QED BY <2>1, <2>3 DEF Shows
<1> QED BY <1>1 DEF Arrived

LEMMA BeginTracked ==
  ASSUME Following, NEW q \in Run, Begin(q),
         NEW r \in Run, NEW s, NEW n, OnCase(r, s, n)
  PROVE  Tracked(r, s, n)'
<1>1. PICK suites \in Filters[q] : at' = [at EXCEPT ![q] = FirstOf(suites)]
  BY DEF Begin
<1>2. at[q] = NotStarted /\ UNCHANGED <<vars, lost, failed, timedOut>>
  BY DEF Begin
<1>3. /\ store' = store /\ pc' = pc /\ reply' = reply /\ lost' = lost
      /\ failed' = failed /\ timedOut' = timedOut
  BY <1>2 DEF vars, connVars
<1>4. \A x \in Run : at'[x] = IF x = q THEN FirstOf(suites) ELSE at[x]
  BY <1>1 DEF Following, Base, Shape, Domains
<1>5. Tracked(r, s, n)
  BY DEF Following, AllTracked
<1>6. CASE r # q
  <2> DEFINE cur == Current(r)
  <2>1. at'[r] = at[r]
    BY <1>4, <1>6
  <2> QED BY <1>3, <1>5, <2>1, TrackedStays
<1>7. CASE r = q
  <2>1. PICK cur : cur = Current(r)
    OBVIOUS
  <2>2. cur = Current(r)'
    BY <1>3, <2>1 DEF Current
  <2>3. pc'[cur] # "respond"
    <3> SUFFICES ASSUME pc[cur] = "respond" PROVE FALSE
      BY <1>3
    <3>1. PICK t, m, j : OnStep(r, t, m, j) /\ at[r] = <<t, m, j>>
      BY <2>1, ServedAt DEF Following
    <3>2. at[r][1] \in 1..6 /\ at[r][1] = 0
      BY <1>2, <1>7, <3>1 DEF OnStep, NotStarted
    <3> QED BY <3>2
  <2>4. Away(at[r], s, n)
    BY <1>2, <1>7 DEF Away, OnCase, NotStarted
  <2>5. Fresh(r, 0, 0, FirstOf(suites))
    <3>1. suites \subseteq 1..6
      BY ConnAssumption DEF AllSuites
    <3>2. ASSUME NEW x \in suites PROVE OnStep(r, x, 1, 1) /\ x # 0
      <4>1. x \in 1..6
        BY <3>1
      <4> QED BY <4>1, FirstSteps
    <3>3. CASE FirstOf(suites) = Over
      BY <3>3 DEF Fresh
    <3>4. ASSUME NEW x \in suites, FirstOf(suites) = <<x, 1, 1>>
          PROVE  Fresh(r, 0, 0, FirstOf(suites))
      BY <3>2, <3>4 DEF Fresh
    <3> QED BY <3>1, <3>3, <3>4, Firsts
  <2>6. <<s, n>> \notin failed'[r] \cup timedOut'[r] =>
          Arrived(r, s, n, FirstOf(suites))
    BY <1>3, <1>5, <2>4, <2>5, ArrivedFresh DEF Tracked
  <2>7. at'[r] = FirstOf(suites)
    BY <1>4, <1>7
  <2> QED BY <1>3, <2>2, <2>3, <2>6, <2>7, TrackedThere
<1> QED BY <1>6, <1>7

LEMMA SendTracked ==
  ASSUME Following, NEW q \in Run, SendRequest(q),
         NEW r \in Run, NEW s, NEW n, OnCase(r, s, n)
  PROVE  Tracked(r, s, n)'
<1>1. PICK c \in Conn : c = Current(q)
  BY CurrentIs DEF Following, Base, Shape
<1>2. /\ pc[c] = "idle" /\ pc'[c] = "permissions" /\ store' = store /\ reply' = reply
      /\ Others(c)
  <2>1. Enter(c, StepAt(q).send) /\ pc[c] = "idle"
    BY <1>1 DEF SendRequest
  <2>2. reply' = reply
    BY <2>1 DEF Enter
  <2> QED BY <1>1, <2>1, <2>2, EnterKeeps DEF Following, Base, Shape
<1>3. /\ at' = at /\ lost' = lost /\ failed' = failed /\ timedOut' = timedOut
  BY DEF SendRequest, runVars
<1>4. PICK cur \in Conn : cur = Current(r)
  BY CurrentIs DEF Following, Base, Shape
<1>5. pc[cur] = "respond" <=> pc'[cur] = "respond"
  BY <1>2, <1>4 DEF Others
<1>6. Tracked(r, s, n)
  BY DEF Following, AllTracked
<1> QED BY <1>2, <1>3, <1>4, <1>5, <1>6, TrackedStays

LEMMA DropTracked ==
  ASSUME Following, NEW c \in Conn, Drop(c),
         NEW r \in Run, NEW s, NEW n, OnCase(r, s, n)
  PROVE  Tracked(r, s, n)'
<1>1. Abandoned(c) /\ Reset(c) /\ UNCHANGED <<store, histVars>> /\ UNCHANGED runVars
  BY DEF Drop, Disconnect
<1>2. /\ at' = at /\ lost' = lost /\ failed' = failed /\ timedOut' = timedOut
      /\ store' = store
  BY <1>1 DEF runVars
<1>3. Others(c)
  BY <1>1, ResetKeeps DEF Following, Base, Shape
<1>4. PICK cur \in Conn : cur = Current(r) /\ cur[1] = r /\ cur[2] = lost[r]
  BY CurrentIs DEF Following, Base, Shape
<1>5. cur # c
  <2>1. lost[r] \in Nat
    BY ConnAssumption DEF Following, Base, Shape
  <2> QED BY <1>1, <1>4, <2>1 DEF Abandoned
<1>6. pc'[cur] = pc[cur] /\ reply'[cur] = reply[cur]
  BY <1>3, <1>4, <1>5 DEF Others
<1>7. Tracked(r, s, n)
  BY DEF Following, AllTracked
<1> QED BY <1>2, <1>4, <1>6, <1>7, TrackedStays

\* A run goes on from its step: the case it is at has gone wrong, or the
\* document is what the next step expects.
LEMMA Moved ==
  ASSUME Following, NEW r \in Run, NEW t, NEW m, NEW i, OnStep(r, t, m, i),
         at[r] = <<t, m, i>>, NEW p \in {NextStep(r), NextCase(r)},
         NEW bad, failed[r] \cup timedOut[r] \subseteq bad,
         <<t, m>> \notin bad =>
           p = NextStep(r) /\ Shows(store, Document(r, t, m), Contents(r, t, m)[i + 1]),
         NEW s, NEW n, OnCase(r, s, n), <<s, n>> \notin bad
  PROVE  Arrived(r, s, n, p)
<1>1. Tracked(r, s, n)
  BY DEF Following, AllTracked
<1>2. /\ i < Len(Script(r, t, m)) =>
           OnStep(r, t, m, i + 1) /\ NextStep(r) = <<t, m, i + 1>>
      /\ ~(i < Len(Script(r, t, m))) => Fresh(r, t, m, NextStep(r))
      /\ Fresh(r, t, m, NextCase(r))
  BY NextStepIs, NextCaseIs DEF Following, Base, Shape
<1>3. p = <<t, m, i + 1>> \/ Fresh(r, t, m, p)
  BY <1>2
<1>4. CASE s # t \/ n # m
  <2>1. Away(at[r], s, n)
    BY <1>4 DEF Away
  <2>2. Document(r, s, n) \notin DOMAIN store
    BY <1>1, <2>1 DEF Tracked
  <2>3. CASE Fresh(r, t, m, p)
    BY <2>2, <2>3, ArrivedFresh
  <2>4. CASE p = <<t, m, i + 1>>
    <3>1. \A j : p # <<s, n, j>>
      BY <1>4, <2>4
    <3> QED BY <2>2, <3>1 DEF Arrived
  <2> QED BY <1>3, <2>3, <2>4
<1>5. CASE s = t /\ n = m
  <2>1. p = NextStep(r) /\ Shows(store, Document(r, s, n), Contents(r, s, n)[i + 1])
    BY <1>5
  <2>2. CASE i < Len(Script(r, t, m))
    <3>1. p = <<s, n, i + 1>>
      BY <1>2, <1>5, <2>1, <2>2
    <3>2. ~Away(p, s, n) /\ \A j : p = <<s, n, j>> => j = i + 1
      BY <3>1 DEF Away
    <3> QED BY <2>1, <3>2 DEF Arrived
  <2>3. CASE ~(i < Len(Script(r, t, m)))
    <3>1. Fresh(r, t, m, p) /\ i \in 1..Len(Script(r, t, m)) /\ CaseWorks(r, t, m)
      BY <1>2, <2>1, <2>3, StepBound DEF OnStep
    <3>2. i = Len(Script(r, t, m))
      BY <2>3, <3>1 DEF CaseWorks, Shaped
    <3>3. Contents(r, t, m)[i + 1] = None
      <4> DEFINE es == Contents(r, t, m)  sc == Script(r, t, m)  k == Document(r, t, m)
      <4>1. History(sc, k, es) /\ i = Len(sc)
        BY <3>1, <3>2, ContentsAre
      <4> HIDE DEF es, sc, k
      <4>2. es[i + 1] = None
        BY <4>1 DEF History
      <4> QED BY <4>2 DEF es
    <3>4. Document(r, s, n) \notin DOMAIN store
      BY <1>5, <2>1, <3>3 DEF Shows
    <3> QED BY <3>1, <3>4, ArrivedFresh
  <2> QED BY <2>2, <2>3
<1> QED BY <1>4, <1>5

LEMMA ConcludeTracked ==
  ASSUME Following, NEW q \in Run, Conclude(q),
         NEW r \in Run, NEW s, NEW n, OnCase(r, s, n)
  PROVE  Tracked(r, s, n)' /\ failed'[r] \subseteq AclCases \cup timedOut'[r]
<1>1. PICK c \in Conn : c = Current(q)
  BY CurrentIs DEF Following, Base, Shape
<1>2. /\ Busy(q) /\ Respond(c) /\ UNCHANGED <<chosen, lost, timedOut>>
      /\ IF StepAt(q).tolerant \/ Meets(reply[c], StepAt(q)) THEN Pass(q) ELSE Fail(q)
  BY <1>1 DEF Conclude
<1>3. pc[c] = "respond" /\ Reset(c) /\ store' = store
  BY <1>2 DEF Respond
<1>4. Others(c) /\ pc'[c] = "idle" /\ Domains
  BY <1>3, ResetKeeps DEF Following, Base, Shape
<1>5. PICK t, m, i : OnStep(q, t, m, i) /\ at[q] = <<t, m, i>>
  BY <1>2, BusyAt DEF Following, Base
<1>6. StepAt(q) = Script(q, t, m)[i] /\ Case(q) = <<t, m>> /\ OnCase(q, t, m)
  BY <1>5 DEF StepAt, Script, Case, OnStep, OnCase
<1>7. Tracked(r, s, n) /\ Tracked(q, t, m)
  BY <1>6 DEF Following, AllTracked
<1>8. failed[r] \subseteq AclCases \cup timedOut[r]
  BY DEF Following, OnlyAclCasesFail
<1>9. <<t, m>> \notin failed[q] \cup timedOut[q] =>
        /\ Shows(store, Document(q, t, m), Contents(q, t, m)[i + 1])
        /\ <<t, m>> \notin AclCases => Satisfied(q, Script(q, t, m)[i])
  BY <1>1, <1>3, <1>5, <1>7 DEF Tracked, AtStep
<1>10. CASE r # q
  <2>1. at'[r] = at[r] /\ failed'[r] = failed[r]
    BY <1>2, <1>4, <1>10 DEF Pass, Fail, Domains
  <2>2. PICK cur \in Conn : cur = Current(r) /\ cur[1] = r
    BY CurrentIs DEF Following, Base, Shape
  <2>3. cur # c
    <3>1. c[1] = q
      BY <1>1, CurrentIs DEF Following, Base, Shape
    <3> QED BY <1>10, <2>2, <3>1
  <2>4. pc'[cur] = pc[cur] /\ reply'[cur] = reply[cur]
    BY <1>4, <2>2, <2>3 DEF Others
  <2>5. Tracked(r, s, n)'
    BY <1>2, <1>3, <1>7, <2>1, <2>2, <2>4, TrackedStays
  <2> QED BY <1>2, <1>8, <2>1, <2>5
<1>11. CASE r = q
  <2>1. c = Current(r)' /\ pc'[c] # "respond"
    BY <1>1, <1>2, <1>4, <1>11 DEF Current
  <2>2. \A p, bad :
          /\ p \in {NextStep(q), NextCase(q)} /\ failed[q] \cup timedOut[q] \subseteq bad
          /\ <<t, m>> \notin bad => p = NextStep(q)
          => (<<s, n>> \notin bad => Arrived(r, s, n, p))
    BY <1>5, <1>9, <1>11, Moved
  <2>3. CASE Pass(q)
    <3>1. at'[r] = NextStep(q) /\ failed' = failed /\ timedOut' = timedOut
      BY <1>2, <1>4, <1>11, <2>3 DEF Pass, Domains
    <3>2. <<s, n>> \notin failed'[r] \cup timedOut'[r] => Arrived(r, s, n, NextStep(q))
      BY <1>11, <2>2, <3>1
    <3>3. Tracked(r, s, n)'
      BY <1>3, <2>1, <3>1, <3>2, TrackedThere
    <3> QED BY <1>8, <3>1, <3>3
  <2>4. CASE Fail(q) /\ ~(StepAt(q).tolerant \/ Meets(reply[c], StepAt(q)))
    <3>1. /\ at'[r] = NextCase(q) /\ failed'[r] = failed[r] \cup {<<t, m>>}
          /\ timedOut' = timedOut
      BY <1>2, <1>4, <1>6, <1>11, <2>4 DEF Fail, Domains
    <3> DEFINE bad == failed'[r] \cup timedOut'[r]
    <3>2. <<s, n>> \notin bad => Arrived(r, s, n, NextCase(q))
      <4>1. failed[q] \cup timedOut[q] \subseteq bad /\ <<t, m>> \in bad
        BY <1>11, <3>1
      <4> HIDE DEF bad
      <4> QED BY <1>11, <2>2, <4>1
    <3>3. Tracked(r, s, n)'
      BY <1>3, <2>1, <3>1, <3>2, TrackedThere
    <3>4. <<t, m>> \in AclCases \cup timedOut[r]
      <4>1. ~Satisfied(q, Script(q, t, m)[i])
        BY <1>1, <1>6, <2>4 DEF Satisfied
      <4> QED BY <1>8, <1>9, <1>11, <4>1
    <3> QED BY <1>8, <3>1, <3>3, <3>4
  <2> QED BY <1>2, <2>3, <2>4
<1> QED BY <1>10, <1>11

LEMMA TimeOutTracked ==
  ASSUME Following, NEW q \in Run, TimeOut(q),
         NEW r \in Run, NEW s, NEW n, OnCase(r, s, n)
  PROVE  Tracked(r, s, n)' /\ failed'[r] \subseteq AclCases \cup timedOut'[r]
<1>1. /\ Busy(q) /\ lost[q] < MaxTimeouts[q] /\ (Pass(q) \/ Fail(q))
      /\ lost' = [lost EXCEPT ![q] = lost[q] + 1]
      /\ timedOut' = [timedOut EXCEPT ![q] = timedOut[q] \cup {Case(q)}]
      /\ UNCHANGED <<vars, chosen>>
  BY DEF TimeOut
<1>2. store' = store /\ pc' = pc /\ reply' = reply /\ Domains
  BY <1>1 DEF vars, connVars, Following, Base, Shape
<1>3. PICK t, m, i : OnStep(q, t, m, i) /\ at[q] = <<t, m, i>>
  BY <1>1, BusyAt DEF Following, Base
<1>4. Case(q) = <<t, m>>
  BY <1>3 DEF Case
<1>5. Tracked(r, s, n) /\ failed[r] \subseteq AclCases \cup timedOut[r]
  BY DEF Following, AllTracked, OnlyAclCasesFail
<1>6. CASE r # q
  <2>1. /\ at'[r] = at[r] /\ failed'[r] = failed[r] /\ lost'[r] = lost[r]
        /\ timedOut'[r] = timedOut[r]
    BY <1>1, <1>2, <1>6 DEF Pass, Fail, Domains
  <2>2. PICK cur : cur = Current(r)
    OBVIOUS
  <2>3. Tracked(r, s, n)'
    BY <1>2, <1>5, <2>1, <2>2, TrackedStays
  <2> QED BY <1>5, <2>1, <2>3
<1>7. CASE r = q
  <2>1. /\ lost'[r] = lost[r] + 1 /\ timedOut'[r] = timedOut[r] \cup {<<t, m>>}
        /\ failed[r] \subseteq failed'[r]
        /\ failed'[r] \subseteq failed[r] \cup {<<t, m>>}
    BY <1>1, <1>2, <1>4, <1>7 DEF Pass, Fail, Domains
  <2>2. PICK p \in {NextStep(r), NextCase(r)} : at'[r] = p
    BY <1>1, <1>2, <1>7 DEF Pass, Fail, Domains
  <2> DEFINE bad == failed'[r] \cup timedOut'[r]
  <2>3. failed[r] \cup timedOut[r] \subseteq bad /\ <<t, m>> \in bad
    BY <2>1
  <2>4. <<s, n>> \notin bad => Arrived(r, s, n, p)
    <3> HIDE DEF bad
    <3> QED BY <1>3, <1>7, <2>3, Moved
  <2>5. PICK cur : cur = Current(r)'
    OBVIOUS
  <2>6. pc'[cur] # "respond"
    <3>1. cur = <<r, lost[r] + 1>>
      BY <2>1, <2>5 DEF Current
    <3>2. /\ lost[r] \in Nat /\ MaxTimeouts[r] \in Nat /\ lost[r] < MaxTimeouts[r]
      BY <1>1, <1>7, ConnAssumption DEF Following, Base, Shape
    <3>3. lost[r] + 1 \in 0..MaxTimeouts[r]
      BY <3>2
    <3>4. cur \in Conn
      BY <3>1, <3>3, ConnAssumption
    <3>5. cur[2] = lost[r] + 1 /\ cur[1] = r /\ ~(lost[r] + 1 <= lost[r])
      BY <3>1, <3>2
    <3>6. pc[cur] = "idle"
      BY <3>4, <3>5 DEF Following, Base, Served, Busied
    <3> QED BY <1>2, <3>6
  <2>7. Tracked(r, s, n)'
    BY <1>2, <2>2, <2>4, <2>5, <2>6, TrackedThere
  <2> QED BY <1>5, <2>1, <2>7
<1> QED BY <1>6, <1>7

\* A stutter, and everything the parts of a step leave alone.
LEMMA StutterTracked ==
  ASSUME Following, UNCHANGED testVars,
         NEW r \in Run, NEW s, NEW n, OnCase(r, s, n)
  PROVE  Tracked(r, s, n)'
<1>1. /\ store' = store /\ pc' = pc /\ reply' = reply /\ at' = at /\ lost' = lost
      /\ failed' = failed /\ timedOut' = timedOut
  BY DEF testVars, runVars, vars, connVars
<1>2. Tracked(r, s, n)
  BY DEF Following, AllTracked
<1>3. PICK cur : cur = Current(r)
  OBVIOUS
<1> QED BY <1>1, <1>2, <1>3, TrackedStays

\* One step of the runs and the server, seen from one case of a run.
LEMMA StepTracked ==
  ASSUME Following, PassThrough, [RunNext]_testVars,
         NEW r \in Run, NEW s, NEW n, OnCase(r, s, n)
  PROVE  Tracked(r, s, n)' /\ failed'[r] \subseteq AclCases \cup timedOut'[r]
<1>1. failed[r] \subseteq AclCases \cup timedOut[r]
  BY DEF Following, OnlyAclCasesFail
<1>2. ASSUME NEW q \in Run, Begin(q) \/ SendRequest(q)
      PROVE  failed' = failed /\ timedOut' = timedOut
  BY <1>2 DEF Begin, SendRequest, runVars
<1>3. ASSUME NEW c \in Conn, Work(c) \/ Drop(c)
      PROVE  failed' = failed /\ timedOut' = timedOut
  BY <1>3 DEF Work, Drop, runVars
<1>4. ASSUME UNCHANGED testVars PROVE failed' = failed /\ timedOut' = timedOut
  BY <1>4 DEF testVars, runVars
<1>5. ASSUME NEW q \in Run, Begin(q) \/ SendRequest(q) PROVE Tracked(r, s, n)'
  BY <1>5, BeginTracked, SendTracked
<1>6. ASSUME NEW c \in Conn, Work(c) \/ Drop(c) PROVE Tracked(r, s, n)'
  BY <1>6, WorkTracked, DropTracked
<1>7. ASSUME UNCHANGED testVars PROVE Tracked(r, s, n)'
  BY <1>7, StutterTracked
<1>8. ASSUME NEW q \in Run, Conclude(q) \/ TimeOut(q)
      PROVE  Tracked(r, s, n)' /\ failed'[r] \subseteq AclCases \cup timedOut'[r]
  BY <1>8, ConcludeTracked, TimeOutTracked
<1>9. \/ \E q \in Run : Begin(q) \/ SendRequest(q)
      \/ \E q \in Run : Conclude(q) \/ TimeOut(q)
      \/ \E c \in Conn : Work(c) \/ Drop(c)
      \/ UNCHANGED testVars
  BY DEF RunNext, Progress
<1>10. ASSUME failed' = failed, timedOut' = timedOut
       PROVE  failed'[r] \subseteq AclCases \cup timedOut'[r]
  BY <1>1, <1>10
<1> QED BY <1>2, <1>3, <1>4, <1>5, <1>6, <1>7, <1>8, <1>9, <1>10

\* No case deletes the root, so a root that is there stays.
LEMMA RootStays ==
  ASSUME Base, RootIn, [RunNext]_testVars
  PROVE  RootIn'
<1>1. CASE store' = store
  BY <1>1 DEF RootIn
<1>2. ASSUME NEW c \in Conn, Work(c) PROVE RootIn'
  <2>1. PICK s, n, j :
          /\ OnStep(c[1], s, n, j)
          /\ Bound(Script(c[1], s, n)[j], Uuid(c[1], s, n), Document(c[1], s, n))
          /\ Changes(c, Script(c[1], s, n)[j], Uuid(c[1], s, n), Document(c[1], s, n))
    BY <1>2, WorkFor
  <2>2. Local(Uuid(c[1], s, n))
    BY <2>1, ChangesLocal
  <2>3. Root[1] # Uuid(c[1], s, n)
    BY <2>1, BoundKeys
  <2> QED BY <2>2, <2>3 DEF Local, RootIn
<1> QED BY <1>1, <1>2, OtherSteps

LEMMA FollowingNext ==
  ASSUME PassThrough PROVE Following /\ [RunNext]_testVars => Following'
<1> SUFFICES ASSUME Following, [RunNext]_testVars PROVE Following'
  OBVIOUS
<1>1. Base' /\ RootIn'
  BY BaseNext, RootStays DEF Following
<1>2. ASSUME NEW r \in Run, NEW s, NEW n, OnCase(r, s, n) PROVE Tracked(r, s, n)'
  BY <1>2, StepTracked
<1>3. AllTracked'
  BY <1>2 DEF AllTracked, OnCase
<1>4. ASSUME NEW r \in Run PROVE failed'[r] \subseteq AclCases \cup timedOut'[r]
  <2>1. OnCase(r, 1, 1)
    <3>1. OnStep(r, 1, 1, 1)
      BY FirstSteps
    <3> QED BY <3>1 DEF OnStep, OnCase
  <2> QED BY <2>1, StepTracked
<1>5. OnlyAclCasesFail'
  BY <1>4 DEF OnlyAclCasesFail
<1> QED BY <1>1, <1>3, <1>5 DEF Following

LEMMA FollowingAlways ==
  ASSUME PassThrough PROVE RunSpec => []Following
BY FollowingInit, FollowingNext, PTL DEF RunSpec

\* "it uses a UUID-keyed path so parallel runs do not collide": with the default
\* reader and authorizer, whatever other runs and the late effects of requests
\* that have timed out do, a case fails only if a timeout has hit it, or if it
\* asks for the treatment of .acl names that the server does not have.
THEOREM OnlyAclFails ==
  ASSUME PassThrough PROVE RunSpec => []OnlyAclCasesFail
<1>1. Following => OnlyAclCasesFail
  BY DEF Following
<1> QED BY <1>1, FollowingAlways, PTL

-----------------------------------------------------------------------------
(* What is left behind.                                                      *)

\* An entry of the case is its document, the container put made above it, or
\* the child it has POSTed.
Own(r, s, n, k) ==
  \/ k = Document(r, s, n)
  \/ k = <<Uuid(r, s, n), Empty>> /\ store[k] = ContainerEntry
  \/ \E slug \in slugs : k = <<Uuid(r, s, n), slug>>

Owned ==
  \A r \in Run : \A s, n : OnCase(r, s, n) =>
    \A k \in DOMAIN store : k[1] = Uuid(r, s, n) => Own(r, s, n, k)

LEMMA OwnedInit == RunInit => Owned
<1> SUFFICES ASSUME RunInit, NEW r \in Run, NEW s, NEW n, OnCase(r, s, n),
                    NEW k \in DOMAIN store, k[1] = Uuid(r, s, n)
             PROVE  FALSE
  BY DEF Owned
<1>1. store = LiveStore
  BY DEF RunInit, InitWith
<1> QED BY <1>1, CaseIsStep, LiveStoreAssumption

\* The slugs drawn are remembered.
LEMMA SlugsStay ==
  ASSUME [RunNext]_testVars PROVE slugs \subseteq slugs'
<1>1. ASSUME NEW c \in Conn, Work(c) PROVE slugs \subseteq slugs'
  BY <1>1 DEF Work, ReadPermissions, Authorize, HandleRead, HandleStateless,
     HandleDelete, PutBody, PostBody, EnsureAncestors, Insert, histVars
<1> QED BY <1>1, OtherSteps

\* An entry that is there after a step was there before, unchanged, or is what
\* the case may own.
LEMMA ChangesKeys ==
  ASSUME NEW c, NEW st, NEW u, NEW k, Bound(st, u, k), Changes(c, st, u, k),
         NEW x \in DOMAIN store', x[1] = u
  PROVE  \/ x \in DOMAIN store /\ store'[x] = store[x]
         \/ x = k
         \/ x = <<u, Empty>> /\ store'[x] = ContainerEntry
         \/ \E slug \in slugs : x = <<u, slug>>
<1>1. x # Root
  BY BoundKeys
<1>2. CASE Untouched(c, st)
  BY <1>2 DEF Untouched
<1>3. CASE Removing(c, st, k)
  BY <1>3 DEF Removing
<1>4. CASE Providing(c, st, u, k)
  <2>1. PICK A \in SUBSET {Root, <<u, Empty>>} : Provided(store, A, store')
    BY <1>4 DEF Providing
  <2> QED BY <1>1, <2>1 DEF Provided
<1>5. CASE Placing(c, st, k)
  <2> DEFINE e == EntryFor(k, st.send.content_type, st.send.body)
  <2>1. Inserted(store, k, e, store')
    BY <1>5 DEF Placing
  <2> HIDE DEF e
  <2> QED BY <2>1 DEF Inserted
<1>6. CASE Bearing(c, st, u, k)
  <2>1. PICK slug \in slugs : \E e : Inserted(store, <<u, slug>>, e, store')
    BY <1>6 DEF Bearing
  <2> QED BY <2>1 DEF Inserted
<1> QED BY <1>2, <1>3, <1>4, <1>5, <1>6 DEF Changes

LEMMA OwnedNext ==
  ASSUME Base, Owned, [RunNext]_testVars
  PROVE  Owned'
<1> SUFFICES ASSUME NEW r \in Run, NEW s, NEW n, OnCase(r, s, n),
                    NEW k \in DOMAIN store', k[1] = Uuid(r, s, n)
             PROVE  Own(r, s, n, k)'
  BY DEF Owned, OnCase
<1>1. slugs \subseteq slugs'
  BY SlugsStay
<1>2. ASSUME k \in DOMAIN store, store'[k] = store[k] PROVE Own(r, s, n, k)'
  <2>1. Own(r, s, n, k)
    BY <1>2 DEF Owned
  <2> QED BY <1>1, <1>2, <2>1 DEF Own
<1>3. ASSUME NEW c \in Conn, Work(c) PROVE Own(r, s, n, k)'
  <2>1. PICK t, m, j :
          /\ OnStep(c[1], t, m, j)
          /\ Bound(Script(c[1], t, m)[j], Uuid(c[1], t, m), Document(c[1], t, m))
          /\ Changes(c, Script(c[1], t, m)[j], Uuid(c[1], t, m), Document(c[1], t, m))
    BY <1>3, WorkFor
  <2>2. CASE c[1] = r /\ t = s /\ m = n
    <3>1. \/ k \in DOMAIN store /\ store'[k] = store[k]
          \/ k = Document(r, s, n)
          \/ k = <<Uuid(r, s, n), Empty>> /\ store'[k] = ContainerEntry
          \/ \E slug \in slugs : k = <<Uuid(r, s, n), slug>>
      BY <2>1, <2>2, ChangesKeys
    <3> QED BY <1>1, <1>2, <3>1 DEF Own
  <2>3. CASE c[1] # r \/ t # s \/ m # n
    <3>1. Local(Uuid(c[1], t, m))
      BY <2>1, ChangesLocal
    <3>2. c[1] \in Run
      BY ConnIs
    <3>3. t \in 1..6 /\ m \in 1..7 /\ s \in 1..6 /\ n \in 1..7 /\ OnStep(r, s, n, 1)
      BY <2>1, <3>2, StepBound, CaseIsStep
    <3>4. Uuid(r, s, n) # Uuid(c[1], t, m)
      BY <2>3, <3>2, <3>3, UuidAssumption
    <3>5. Root[1] # Uuid(r, s, n)
      BY <3>3, StepBound, BoundKeys
    <3>6. k \in DOMAIN store /\ store'[k] = store[k]
      BY <3>1, <3>4, <3>5 DEF Local
    <3> QED BY <1>2, <3>6
  <2> QED BY <2>2, <2>3
<1> QED BY <1>2, <1>3, OtherSteps

\* What a run that is over has left, case by case.
LEMMA LeftIs ==
  Following /\ Owned => LeftByDesign
<1> SUFFICES ASSUME Following, Owned, NEW r \in Run, at[r] = Over,
                    NEW k \in DOMAIN store, MadeBy(r, k)
             PROVE  \/ IsContainerKey(k) /\ store[k] = ContainerEntry
                    \/ k[Len(k)] \in slugs
                    \/ \E x \in failed[r] \cup timedOut[r] : k[1] = Uuid(r, x[1], x[2])
  BY DEF LeftByDesign
<1>1. PICK s \in AllSuites : \E n \in 1..Len(Suites[r][s]) : k[1] = Uuid(r, s, n)
  BY DEF MadeBy
<1>2. PICK n \in 1..Len(Suites[r][s]) : k[1] = Uuid(r, s, n)
  BY <1>1
<1>3. OnCase(r, s, n)
  BY DEF OnCase, AllSuites
<1>4. Own(r, s, n, k) /\ Tracked(r, s, n)
  BY <1>2, <1>3 DEF Owned, Following, AllTracked
<1>5. Uuid(r, s, n) \in Seg
  BY <1>3, CaseIsStep, UuidAssumption
<1>6. CASE k = Document(r, s, n)
  <2>1. Away(at[r], s, n)
    BY <1>3 DEF Away, OnCase, Over
  <2>2. <<s, n>> \in failed[r] \cup timedOut[r]
    BY <1>4, <1>6, <2>1 DEF Tracked
  <2> QED BY <1>2, <2>2
<1>7. CASE k = <<Uuid(r, s, n), Empty>> /\ store[k] = ContainerEntry
  BY <1>5, <1>7 DEF IsContainerKey
<1>8. ASSUME NEW slug \in slugs, k = <<Uuid(r, s, n), slug>>
      PROVE  k[Len(k)] \in slugs
  BY <1>8
<1> QED BY <1>4, <1>6, <1>7, <1>8 DEF Own

\* "it cleans up after itself with a DELETE", as far as that is so: with the
\* default reader and authorizer a run that is over leaves nothing but the
\* containers put made above its documents, the children it has POSTed, and the
\* documents of cases that have failed or met a timeout.
THEOREM LeftoversAreByDesign ==
  ASSUME PassThrough PROVE RunSpec => []LeftByDesign
<1>1. Following /\ Owned /\ [RunNext]_testVars => Owned'
  BY OwnedNext DEF Following
<1> QED BY <1>1, FollowingAlways, OwnedInit, LeftIs, PTL DEF RunSpec
=============================================================================
