------------------------------ MODULE TestRunner ----------------------------
(* Runs of the integration tests against a live server: TestSuite::run of    *)
(* integration-tests/src/runner.rs with SolidClient of client.rs, composed   *)
(* with LdpServer.  Several runs share one server.                           *)
(*                                                                           *)
(* A request that exceeds the client's timeout fails its case; the client    *)
(* gives up the connection and goes on with the next case on another one,    *)
(* while the server may still be at work on the request.                     *)
EXTENDS LdpServer, TestSuites

CONSTANTS
  Filters,     \* the sets of suites the --filter of a run can leave
  MaxTimeouts, \* bound: how many requests of a run exceed the timeout
  LiveStore    \* what the server holds when the runs begin

\* The i-th connection of a run is the one it uses after i timeouts.
ASSUME ConnAssumption ==
  /\ MaxTimeouts \in [Run -> Nat]
  /\ Conn = UNION {{<<r, i>> : i \in 0..MaxTimeouts[r]} : r \in Run}
  /\ Filters \in [Run -> SUBSET ((SUBSET AllSuites) \ {{}})]

\* The server has its root, and nothing under the names the runs will draw.
ASSUME LiveStoreAssumption ==
  /\ Root \in DOMAIN LiveStore
  /\ \A k \in DOMAIN LiveStore, r \in Run, s \in 1..6, n \in 1..7 :
       k[1] # Uuid(r, s, n)

VARIABLES
  chosen,    \* the suites a run executes
  at,        \* suite, case and step a run has reached
  lost,      \* how many of its requests have timed out
  failed,    \* its cases that are "not ok"
  timedOut   \* history: its cases that a timeout has hit

runVars == <<chosen, at, lost, failed, timedOut>>
testVars == <<vars, runVars>>

NotStarted == <<0, 0, 0>>
Over == <<7, 1, 1>>

RunInit ==
  /\ InitWith(LiveStore)
  /\ chosen = [r \in Run |-> {}]
  /\ at = [r \in Run |-> NotStarted]
  /\ lost = [r \in Run |-> 0]
  /\ failed = [r \in Run |-> {}]
  /\ timedOut = [r \in Run |-> {}]

Current(r) == <<r, lost[r]>>
Busy(r) == at[r] \notin {NotStarted, Over}
Case(r) == <<at[r][1], at[r][2]>>
StepAt(r) == Suites[r][at[r][1]][at[r][2]][at[r][3]]

FirstOf(suites) ==
  IF suites = {} THEN Over
  ELSE <<CHOOSE s \in suites : \A x \in suites : s <= x, 1, 1>>

\* The case after the one a run is at.
NextCase(r) ==
  LET s == at[r][1]  n == at[r][2]
  IN IF n < Len(Suites[r][s]) THEN <<s, n + 1, 1>>
     ELSE FirstOf({x \in chosen[r] : x > s})

\* Mutant of NextStep: off by one, the last step of a case is not run.
NextStepShort(r) ==
  LET s == at[r][1]  n == at[r][2]  i == at[r][3]
  IN IF i + 1 < Len(Suites[r][s][n]) THEN <<s, n, i + 1>> ELSE NextCase(r)

\* The step after the one a run is at.
NextStep(r) ==
  LET s == at[r][1]  n == at[r][2]  i == at[r][3]
  IN IF i < Len(Suites[r][s][n]) THEN <<s, n, i + 1>> ELSE NextCase(r)

Begin(r) ==
  /\ at[r] = NotStarted
  /\ \E suites \in Filters[r] :
       /\ chosen' = [chosen EXCEPT ![r] = suites]
       /\ at' = [at EXCEPT ![r] = FirstOf(suites)]
  /\ UNCHANGED <<vars, lost, failed, timedOut>>

\* request_with_headers: the request of the step goes out.
SendRequest(r) ==
  /\ Busy(r) /\ pc[Current(r)] = "idle"
  /\ Enter(Current(r), StepAt(r).send)
  /\ UNCHANGED runVars

Pass(r) == at' = [at EXCEPT ![r] = NextStep(r)] /\ UNCHANGED failed

\* Mutant of Fail: a case that has failed is run again.
FailAndRetry(r) ==
  /\ failed' = [failed EXCEPT ![r] = @ \cup {Case(r)}]
  /\ at' = [at EXCEPT ![r] = <<at[r][1], at[r][2], 1>>]

\* An error leaves the case at once: `?` or bail!.
Fail(r) ==
  /\ failed' = [failed EXCEPT ![r] = @ \cup {Case(r)}]
  /\ at' = [at EXCEPT ![r] = NextCase(r)]

\* The answer arrives and is looked at.
Conclude(r) ==
  LET c == Current(r) IN
  /\ Busy(r) /\ Respond(c)
  /\ IF StepAt(r).tolerant \/ Meets(reply[c], StepAt(r)) THEN Pass(r) ELSE Fail(r)
  /\ UNCHANGED <<chosen, lost, timedOut>>

\* No answer within timeout_ms.
TimeOut(r) ==
  /\ Busy(r) /\ pc[Current(r)] # "idle"
  /\ lost[r] < MaxTimeouts[r]
  /\ lost' = [lost EXCEPT ![r] = @ + 1]
  /\ timedOut' = [timedOut EXCEPT ![r] = @ \cup {Case(r)}]
  /\ IF StepAt(r).tolerant THEN Pass(r) ELSE Fail(r)
  /\ UNCHANGED <<vars, chosen>>

\* A step of the server by itself; the client sends bodies whole.
Work(c) ==
  /\ \/ ReadPermissions(c) \/ Authorize(c)
     \/ HandleRead(c) \/ HandleStateless(c) \/ HandleDelete(c)
     \/ PutBody(c) \/ PostBody(c)
     \/ EnsureAncestors(c) \/ Insert(c)
  /\ UNCHANGED runVars

Abandoned(c) == c[2] < lost[c[1]]

\* The server notices that the client of c has given up.
Drop(c) == Abandoned(c) /\ Disconnect(c) /\ UNCHANGED runVars

\* The steps that runs and the server take by themselves.
Progress ==
  \/ \E r \in Run : Begin(r) \/ SendRequest(r) \/ Conclude(r)
  \/ \E c \in Conn : Work(c)

Finished == \A r \in Run : at[r] = Over

RunNext ==
  \/ Progress
  \/ \E r \in Run : TimeOut(r)
  \/ \E c \in Conn : Drop(c)
  \/ Finished /\ UNCHANGED testVars

\* Runs and server do not all stop as long as one of them can go on.
RunSpec == RunInit /\ [][RunNext]_testVars /\ WF_testVars(Progress)

-----------------------------------------------------------------------------
(* Properties.                                                               *)

\* A key that a run has made: its first segment is a UUID of the run.
MadeBy(r, k) ==
  \E s \in AllSuites : \E n \in 1..Len(Suites[r][s]) : k[1] = Uuid(r, s, n)

\* "it uses a UUID-keyed path so parallel runs do not collide"
\* (resource_crud.rs:7-8): whatever other runs and the late effects of
\* requests that have timed out do, a case fails only if a timeout has hit
\* it, or if it asks for the treatment of .acl names the server does not have.
OnlyAclCasesFail ==
  \A r \in Run : failed[r] \subseteq AclCases \cup timedOut[r]

\* Tests run against a live server (test_runner.rs:3): what is not theirs
\* stays as it was, entry by entry.
ForeignDataStays ==
  [][\A k \in DOMAIN store :
       (\A r \in Run : ~MadeBy(r, k)) =>
         k \in DOMAIN store' /\ store'[k] = store[k]]_testVars

\* "it cleans up after itself with a DELETE" (resource_crud.rs:8), as far as
\* that is so: a run that is over leaves nothing but the containers put made
\* above its documents, the child it has POSTed, and documents of cases that
\* have failed or met a timeout, late effects included.
LeftByDesign ==
  \A r \in Run : at[r] = Over =>
    \A k \in DOMAIN store : MadeBy(r, k) =>
      \/ IsContainerKey(k) /\ store[k] = ContainerEntry
      \/ k[Len(k)] \in slugs
      \/ \E x \in failed[r] \cup timedOut[r] : k[1] = Uuid(r, x[1], x[2])

\* Every run comes to its end and says so, whatever fails on the way.
RunsEnd == <>Finished
=============================================================================
