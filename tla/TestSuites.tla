------------------------------ MODULE TestSuites ----------------------------
(* The integration-test suites (integration-tests/src/suites) as scripts:    *)
(* what a case sends, step by step, and what it asks of each answer.         *)
EXTENDS LdpMessages

CONSTANTS
  Run,        \* the processes of solid-test
  Uuid(_, _, _),  \* the UUID run r draws for case n of suite s, as a segment
  File,       \* the name below a drawn one: file.txt, data.ttl, ...
  Plain, JsonLd, Unheard,   \* content types
  Original, Updated         \* bodies

\* UUIDs are drawn anew for each case, and no name of a test is a name the
\* server draws or one a header cannot carry.
ASSUME UuidAssumption ==
  /\ \A r \in Run, s \in 1..6, n \in 1..7 : Uuid(r, s, n) \in Seg \ Unprintable
  /\ \A r, q \in Run, s, t \in 1..6, n, m \in 1..7 :
       Uuid(r, s, n) = Uuid(q, t, m) => r = q /\ s = t /\ n = m
ASSUME FileAssumption == File \in Seg
ASSUME SlugsPrintable == Slug \cap Unprintable = {}

\* The types the tests send are types, and application/ld+json is no wildcard.
ASSUME TestTypeAssumption ==
  /\ {Plain, JsonLd, Unheard} \subseteq MediaType /\ {Original, Updated} \subseteq Body
  /\ JsonLd.sub # Star /\ NoAccept # {JsonLd}

\* Every answer will do.
Anything == 100..599

\* Steps.  A tolerant step is one whose outcome the case throws away.
Ask(method, target) ==
  [send |-> [method |-> method, target |-> target, accept |-> {AnyType},
             content_type |-> Plain, body |-> Original],
   expect |-> Anything, check |-> "status", want |-> None, tolerant |-> FALSE]

Put(target, ct) == [Ask("PUT", target) EXCEPT !.send.content_type = ct]
Expect(codes, step) == [step EXCEPT !.expect = codes]
Check(what, value, step) == [step EXCEPT !.check = what, !.want = value]
Accepting(ct, step) == [step EXCEPT !.send.accept = {ct}]
Cleanup(target) == [Ask("DELETE", target) EXCEPT !.tolerant = TRUE]

\* Whether the answer rp is what a step asks for.  No handler sets WAC-Allow;
\* a content type is compared only where there is a representation.
Meets(rp, step) ==
  /\ rp.status \in step.expect
  /\ CASE step.check = "status" -> TRUE
       [] step.check = "body" -> rp.entry # None /\ rp.entry.body = step.want
       [] step.check = "type" ->
            rp.status = 200 => rp.entry.content_type = step.want
       [] step.check = "container link" -> "Container" \in rp.links
       [] step.check = "location" -> rp.location # None
       [] step.check = "wac-allow" -> FALSE

\* Mutant of Health: the health check cleans up the container it asked for.
HealthCleaning(r) ==
  << <<Expect({200, 401}, Ask("GET", Root)), Cleanup(Root)>>,
     <<Expect({200, 204}, Ask("OPTIONS", Root))>>,
     <<Expect((200..299) \cup {401}, Ask("HEAD", Root))>> >>

Health(r) ==
  << <<Expect({200, 401}, Ask("GET", Root))>>,
     <<Expect({200, 204}, Ask("OPTIONS", Root))>>,
     <<Expect((200..299) \cup {401}, Ask("HEAD", Root))>> >>

ResourceCrud(r) ==
  LET p == [n \in 1..7 |-> <<Uuid(r, 2, n), File>>]
  IN << <<Expect({201}, Put(p[1], Plain)), Cleanup(p[1])>>,
        <<Put(p[2], Plain),
          Check("body", Original, Expect({200}, Ask("GET", p[2]))),
          Cleanup(p[2])>>,
        <<Expect({404}, Ask("GET", p[3]))>>,
        <<Put(p[4], Plain),
          Expect({200, 204}, [Put(p[4], Plain) EXCEPT !.send.body = Updated]),
          Check("body", Updated, Ask("GET", p[4])),
          Cleanup(p[4])>>,
        <<Put(p[5], Plain), Expect({204}, Ask("DELETE", p[5])),
          Expect({404}, Ask("GET", p[5]))>>,
        <<Expect({404}, Ask("DELETE", p[6]))>>,
        <<Put(p[7], Turtle),
          Check("type", Turtle, Expect({200}, Ask("GET", p[7]))),
          Cleanup(p[7])>> >>

Containers(r) ==
  LET p == [n \in 1..5 |-> <<Uuid(r, 3, n), Empty>>]
  IN << <<Expect({200, 401}, Ask("GET", Root))>>,
        <<Expect({201}, Put(p[2], Turtle)), Cleanup(p[2])>>,
        <<Put(p[3], Turtle),
          Check("location", None, Expect({201}, Ask("POST", p[3]))),
          Cleanup(p[3])>>,
        <<Put(p[4], Turtle),
          Check("container link", None, Expect({200}, Ask("GET", p[4]))),
          Cleanup(p[4])>>,
        <<Put(p[5], Turtle), Expect({204}, Ask("DELETE", p[5]))>> >>

ContentNegotiation(r) ==
  LET p == [n \in 1..4 |-> <<Uuid(r, 4, n)>>]
  IN << <<Put(p[1], Turtle),
          Check("type", Turtle,
                Expect({200}, Accepting(Turtle, Ask("GET", p[1])))),
          Cleanup(p[1])>>,
        <<Put(p[2], Turtle),
          Check("type", JsonLd,
                Expect({200, 406}, Accepting(JsonLd, Ask("GET", p[2])))),
          Cleanup(p[2])>>,
        <<Put(p[3], Plain),
          Check("type", Plain, Expect({200}, Ask("GET", p[3]))),
          Cleanup(p[3])>>,
        <<Put(p[4], Plain),
          Expect((200..299) \cup {406}, Accepting(Unheard, Ask("GET", p[4]))),
          Cleanup(p[4])>> >>

\* That the body of a 404 is not empty is left out: not_found writes one.
ErrorResponses(r) ==
  LET p == [n \in 1..3 |-> <<Uuid(r, 5, n)>>]
      deep == <<Uuid(r, 5, 4), File>>
  IN << <<Expect({404}, Ask("GET", p[1]))>>,
        <<Put(p[2], Plain), Expect({400, 405, 415}, Ask("PATCH", p[2])),
          Cleanup(p[2])>>,
        <<Expect({404}, Ask("GET", p[3]))>>,
        <<Expect({201, 404, 409}, Put(deep, Plain)), Cleanup(deep)>> >>

\* Mutant of WacName: the UUID is the suite's and not the run's.
WacNameFixed(r, n) == Uuid(CHOOSE x \in Run : TRUE, 6, n)

WacName(r, n) == Uuid(r, 6, n)

\* The names of cases 2 and 3 end with .acl, which no code of the server asks.
Wac(r) ==
  LET p == [n \in 1..3 |-> <<WacName(r, n)>>]
  IN << <<Put(p[1], Plain), Expect({200}, Ask("GET", p[1])), Cleanup(p[1])>>,
        <<Put(p[2], Turtle), Expect({401}, Ask("GET", p[2])), Cleanup(p[2])>>,
        <<Put(p[3], Turtle), Check("wac-allow", None, Ask("GET", p[3])),
          Cleanup(p[3])>> >>

\* The suites of a run, each a sequence of cases, each a sequence of steps.
AllSuites == 1..6
Suites ==
  [r \in Run |-> <<Health(r), ResourceCrud(r), Containers(r),
                   ContentNegotiation(r), ErrorResponses(r), Wac(r)>>]

\* The cases that ask the server to treat names that end with .acl apart.
AclCases == {<<6, 2>>, <<6, 3>>}
=============================================================================
