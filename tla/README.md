# A formal model of solid-community-rs

TLA+ specifications of the Solid server in this repository, the TLC
configurations that check them on small instances, and TLAPS proofs of what
matters most for every value of the constants. `PROJECT.json` lists the
components, the runs, the findings, the hazards the properties are for, the
source lines of every definition and, for each property, a mutation of the
model that breaks it.

    tlc -workers 2 -config LdpServer_pipeline.cfg MCLdpServer.tla  # a run
    tlapm LdpServerProofs.tla                                      # the proofs

## 1. The system

| part | state | operations | talks to |
|---|---|---|---|
| LDP store (`server-core/src/store.rs`) | one `HashMap` path -> entry behind an `RwLock` | get, exists, put (two critical sections), delete | called by the handlers |
| handlers, routes (`ldp_handlers.rs`, `routing.rs`) | none | GET, HEAD, PUT, POST, DELETE, OPTIONS, PATCH | the store; await the body of PUT and POST |
| pipeline (`pipeline.rs`, `middleware.rs`, `authz`) | none | reads permissions, authorizes, then runs the handler | a permission reader and an authorizer, both async traits |
| App and CLI (`app.rs`, `cli`) | the router, which owns the store | start, stop | axum, one task per connection |
| key-value storage (`solid-storage/src/key_value.rs`, `backends/memory.rs`) | a map behind a `Mutex` | get, has, set, delete, entries; the same through rewritten keys | several storages may share one source |
| JSON file (`backends/file.rs`) | one file, a `tokio::sync::RwLock` held across awaits | the same | file system, blocking threads |
| expiring storage (`backends/expiring.rs`) | an inner storage of entries with deadlines, a background task | the same and set_expiring, get_raw | the inner storage, the clock |
| resource store decorators (`resource_store.rs`) | none | forward or refuse | an inner store |
| accounts and cookies (`identity/src/account.rs`) | a map behind an `RwLock` each | create, settings, counting of login methods, delete; generate, get, refresh, delete | the clock |
| pods (`identity/src/pod.rs`) | pods and owner rows, each behind a lock of its own | create (two critical sections), get_owners, update_owner, remove_owner | - |
| client credentials (`client_credentials.rs`) | tokens by id and ids by label, each behind a lock | create, delete, find_by_label (two critical sections each) | - |
| WebID links (`webid.rs`) | one map behind a lock | create, delete, is_linked | - |
| http-types | none | identifiers (join, parent, as_container, as_document), operations and their Accept preferences | - |
| static-assets | the mapped prefixes, fixed | resolve, serve | the file system |
| integration-tests, `cli/src/test_runner.rs` | none | six suites of cases, run in turn with a timeout for each request | a live server, which other runs may share |

Handlers run concurrently, on a multi-threaded runtime, and share the store
through an `Arc`. What one task does is cut up by its awaits and by the release
of a lock; a task can be dropped at an await when its client goes away.
Everything the server keeps is in memory. The storages, the decorators, the
identity stores, http-types and static-assets are library types, which no other
crate of the repository constructs; the server shares rules with some of them
(which Accept header matches, which access a method needs) that it has again in
code of its own.

At this commit `server-core` does not build (`store.rs:190` imports a
`ResourceStoreEntry` and implements methods that `solid-storage` does not have;
`RequestPipeline::new()`, which `cli` calls, is missing; `pipeline.rs` names
fields that `authz::Credentials` does not have). The models follow the code that
is there: the handlers and the store as the pipeline wires them up
(`RequestPipeline::with_authz`), with what the trait implementations and the
credentials add left out.

What is hard here, and what would be correct:

* *Store and handlers.* `put` makes the containers above a path under one lock
  and inserts the entry under another. Between the two, other requests read,
  delete and put. Correct is: no resource without the containers above it unless
  somebody deleted those; an acknowledged resource stays; automatic containers
  never replace an entry; the answer of a request agrees with one instant of
  the map; a refused request has no effect; whatever writes was authorized to.
* *Process.* The store is seeded with a root, dies with the process at any step
  of any request, and is seeded again. `App::stop` writes a log line and
  changes nothing.
* *JSON file.* Every call reads and rewrites the whole file, by way of
  truncation, on a thread that outlives the call's future. Correct would be: callers
  cannot tell it from a map behind a mutex, and what they were told is stored
  stays. The first is so for callers that wait, but for a write that is cut off,
  which loses the whole map; the second is not.
* *Expiring storage.* Deadlines are kept in whole seconds; reads and sweeps
  delete in a second step what they have seen expired. Correct is: nothing
  late, nothing lost early, everything expired goes.
* *Accounts and cookies.* Every call takes its instant before the lock, and
  prunes apart from the insert or read it does. Correct is: an account in use is
  never pruned, an idle one goes; a cookie lives for its TTL and is not served
  after it.
* *Credentials and pods.* Pairs of maps updated one after the other, with other
  calls in between. Correct is: what was acknowledged is there until it is
  removed, a label leads to its token, and an owner is one row, so that removing
  the row removes the owner.
* *Tests.* A run leaves its requests behind when they exceed the timeout, and
  other runs use the server at the same time. Correct is: no case fails for what
  another run or a late request does, nothing of anybody else is touched, and a
  run comes to its end whatever fails.
* *Library.* Rewritten keys must keep storages that share a source apart (they do for
  the calls about one key, not for `entries`). A
  series of joins and parents must not lead into another container. A
  decorator must tell what was done, and a read-only one let nothing through.
  Rules that exist twice must agree.

## 2. The modules

| module | models | correspondence |
|---|---|---|
| `LdpPaths` | `LdpStore::key`, `is_container`, the walk of `ensure_ancestors`, `resolve_path` | a path is the sequence of what is between its slashes, so `/a/` is `<<a, Empty>>`; `splitn`'s limit is the constant `SplitLimit`, 100, and 3 in the run whose paths are to reach it |
| `LdpStore` | the critical sections of `store.rs` as functions of the map | one operator per critical section |
| `RequestRules` | the table of access modes of `pipeline.rs`, `accept_satisfied` | media types are records, an Accept header a set of tokens |
| `LdpMessages` | methods, headers, statuses | |
| `LdpServer` | pipeline and handlers over the shared store | `pc[c]` is the await or lock a request stands at; an action is what runs up to the next one; `approved[c]` is the access map the authorizer granted, resource and mode |
| `LdpService` | what the server promises: an atomic resource map | one action per request, at the instant it takes effect; before it only containers strictly above its target may appear (`Provision`), and the root for a PUT of the root (`MakeRoot`), which is the code's own exception |
| `LdpLifecycle` | process start, crash, restart | extends `LdpServer`; `Run` is a step of the pipeline, and what clients were told and have deleted is counted per life. `App::stop` and `--root-dir` only log, so nothing of them is in the model |
| `TestSuites` | the suites of `integration-tests` | a case is a sequence of steps: a request and what is asked of its answer; the path of a case starts with the UUID it draws |
| `TestRunner` | `TestSuite::run`, `SolidClient` with its timeout | extends `LdpServer`; the runs are its clients, and each timeout moves a run to its next connection while the server goes on with the last |
| `KeyValueOps`, `KeyValue` | the `KeyValueStorage` trait and `MemoryMapStorage` | `Apply` is the critical section of the mutex; a storage may also be one whose writes can ruin it (`MayLose`): the map is then `Lost` and every call fails |
| `PassthroughStorage` | `PassthroughKeyValueStorage` over a `MemoryMapStorage` | `Begin` rewrites the key, `Poll` is the critical section of the source; keys are strings on both sides, any rewriting that keeps places apart, any way back |
| `JsonFileStorage` | `backends/file.rs` | lock, read, mkdir, truncate, write; `job[c]` is the blocking thread |
| `ExpiringStorage` | `backends/expiring.rs` over `MemoryMapStorage` | a read, the look at the clock and the eviction are steps of their own, and so are the sweep's snapshot, its filter and each of its deletions |
| `AccountStores` | `BaseAccountStore` and `BaseCookieStore` of `identity/src/account.rs` | `Clock`, a prune, `Stamp` and the critical section of the call are steps of their own; `at[c]` is the instant the call has taken |
| `IdentityStores` | `BasePodStore`, `BaseClientCredentialsStore`, `BaseWebIdStore` | an action per critical section; `row[c]` is what the call carries from the first to the second |
| `ResourceIdentifiers`, `IdentifierWalk` | `ResourceIdentifier` and a caller that goes up and down by it | an identifier is the sequence of its slashes and of what is between them |
| `Operations` | `MediaRange`, `ContentPreferences`, `Operation` | a header is read when its operation is made; qualities in tenths, and NaN |
| `StaticAssets` | `StaticAssetHandler` | URLs and prefixes as sequences of characters that matter |
| `StoreDecorators` | `BaseResourceStore`, `PassthroughStore`, `ReadOnlyStore` | `depth[c]` is the layer a call has come down to |
| `Tables` | the `HashMap`s of the identity crate | `Put`, `Drop` |
| `MC*` | instances for TLC | |
| `*Proofs` | theorems and their lemmas | |

Composition: `LdpPaths` < `LdpStore` < `LdpMessages` (with `RequestRules`) <
`LdpServer` < `LdpLifecycle`; `TestRunner` is `LdpServer` with `TestSuites` for
its clients; `LdpServer` instantiates `LdpService`; `JsonFileStorage` and
`PassthroughStorage` instantiate `KeyValue`; `AccountStores` and `IdentityStores` extend
`Tables`; `Operations` shares `RequestRules` with the server. `MCLibrary` and `MCIdentity` put
types that know nothing of each other beside each other: in each behaviour one of the
machines (`part`) runs and the others rest. That loses nothing: they share no state, so a
behaviour of several is one of each beside the others.

Abstractions to know about:

* A critical section of a `std::sync` lock is one step: nobody sees the inside
  of it, and no code panics with the lock held, so it is never poisoned.
* UUIDs are fresh: `PostBody` picks a slug that was never drawn, and a client
  names one only once a `Location` has told it (`Nameable`).
* Requests that differ only in what their handler ignores are one request
  (`Normal`); this is a choice among inputs and no guard of the code.
* A dropped task (`Disconnect`) stops where it waits: at the reader, the
  authorizer, the body, or with the response at hand. The store's calls are
  synchronous, so a put is never dropped between its critical sections.
* `Unprintable` segments stand for the control characters a percent-decoded
  path may carry, which `HeaderValue` refuses.
* An entry of `ExpiringStorage` is its deadline: payloads change nothing. The
  deadline the caller gave is kept beside the truncated one, for the properties.
* `tokio::fs::write` truncates and writes on a blocking thread. What a write
  leaves of a file that another thread has written since the truncation is that
  text or no JSON (`Outcomes`). A prefix of a JSON object is no JSON.
* Variables marked "history" are read by no action but to update themselves and
  to draw ids that were never drawn.

## 3. The runs

| run | instance | asks | shows |
|---|---|---|---|
| server_pipeline | 2 clients; `/a/` and a POSTed child; reader and authorizer that refuse; bodies that break off; fair | `AcceptedStays`, `ContainersByPath`, `ErrorLeavesNoTrace`, `AuthorizedEffects`, `OnlyTargetedEntriesChange`, `Answered` | refusals have no effect, effects have a grant for the resource they are on, no request touches another's entry, and nothing but a client's body is waited for |
| server_service | 2 clients; `/a/` in two spellings, a name no header takes, and `/` | `ImplementsService` | each request takes effect at one instant and is answered accordingly, a PUT of a deleted root aside; a POST makes a child nobody has, and is told 500 only for a name no header takes |
| server_root | 1 client; `/` | `CreationIsTold` | violated: after DELETE `/` a PUT of `/` makes it as one of the containers above itself, finds it and answers 204 |
| life_restart | 2 clients; `/`, `/a/`, `/a/b`, at a limit of `splitn` of 3; all methods but POST; crashes at any step | `TypeOK`, `HierarchyClosed`, `RootUnlessDeleted` | the two-lock put never leaves a resource without a container that nobody deleted in that life; no life inherits half a put, each starts with a root |
| tests_parallel | a run of any one suite that meets one timeout, beside a run of the `.acl` suite; somebody else's document | `OnlyAclCasesFail`, `LeftByDesign`, `ForeignDataStays`, `RunsEnd` | no case fails for what the other run or a late request does; what stays behind is the containers of put, the POSTed child and what failed or late cases made; nobody else's entry is touched; both runs end |
| file_cancel | 2 callers, 2 keys, 2 values; futures dropped anywhere | `OneUpdateAtATime` | violated: the abandoned write goes on without the lock |
| file_torn | the same; crashes | `StoredCanBeRead` | violated: a process that ends between truncation and write leaves no map, though earlier calls were told of theirs |
| expiring | 2 callers, 1 key, ticks of half a second, two seconds; fair sweep | `TypeOK`, `EvictsWithinTheSecond`, `NotReturnedAfterDeadline`, `ExpiredAreSwept`, `SweeperExits` | truncated deadlines are never late, and less than a second early; what expires goes, and so does the task |
| expiring_lost | the same, to one and a half seconds | `LiveEntriesStay` | violated: the sweep deletes the entry that replaced the one it saw; so may a get |
| identity | 2 callers; one store at a time: accounts (2; expiry 1, clock to 3), cookies (2 of 1 account; TTL 2), 1 pod with 2 WebIDs, 3 tokens under 2 labels, 2 links | `AccountTypeOK`, `KeptUnlessIdle`, `CollectedByNextPrune`, `CookieLivesForTtl`, `ServedInTime`, `TypeOK`, `OneRowPerOwner`, `AcknowledgedStays`, `FoundByLabel` | prunes at past instants and late refreshes take nothing that is in use or within its time, and idle accounts go by the next prune; acknowledged owners, tokens and links stay; a label that is asked for once leads to its token through the two maps; an owner has two rows at most, and only where create raced update_owner |
| library | one machine at a time: 2 callers of a JSON file (2 keys, 2 values; refusals, full disk, crashes, futures dropped outside of writes; fair); 3 callers of two storages that put prefixes before their keys and trim them off; a walk 4 deep; headers of up to 3 tokens; 5 mapped prefixes, URLs of up to 6 characters; 3 stacks of decorators | `TypeOK`, `ImplementsKeyValue`, `Completes`, `PointCallsKeepApart`, `OnlyTrailingSlashesVary`, `Climbs`, `FirstIsBest`, `PreferencesAreServed`, `PipelineAsksForNoLess`, `MappedFilesAreFound`, `ToldWhatWasDone`, `ReadOnlyShields` | the file is a map behind a mutex that only a write cut off can lose, and none of its guards is kept; storages keep apart for calls about one key; identifiers lead where they should, slashes at the end aside; the parsers of Accept and the tables of modes agree as far as the properties say; each mapped file is found; decorators tell the truth |
| identity_owner | 2 callers, 1 pod, 1 WebID | `RemovedOwnerIsGone` | violated: create's first owner is a second row, and remove_owner removes one |

The five violated properties are what a comment says of the code;
`PROJECT.json` quotes the lines under "findings". More disagreements need
no run: a DELETE of `/` removes the root that "must always exist"
(`store.rs:45`, `store.rs:136`; `RootUnlessDeleted` is what holds); `--root-dir`
promises "file-backed storage" (`README.md:153`) and is only logged
(`serve.rs:86`); `stop` is to "gracefully stop the server" (`app.rs:61`) and only
logs; "every intermediate container" is made (`store.rs:145`) of a path of up to
99 segments, as `splitn(100, '/')` leaves the rest in one piece (`store.rs:149`;
`HierarchyClosed` states the limit); expired accounts go "on the next mutating
call" (`account.rs:70-71`), but increment, decrement, update_setting and delete
do not prune and may bring one back (`account.rs:95-117`, `155-177`); the suite `wac` expects 401 and `WAC-Allow` of names that
end with `.acl` (`wac.rs:10-13`, `60-69`), of which the server knows nothing, so that two
cases fail and `solid-test` exits with 1; each test "cleans up after itself"
(`resource_crud.rs:7-8`), but not the containers put has made above its path, the
child it has POSTed, or anything once it has failed; `parent` returns
`http://h/a//` for `http://h/a/b` and a parent for the root, where the comment and the
tests say `http://h/a/` and none (`identifier.rs:74-78`, `253-279`), and `as_document`
strips all slashes where its comment says one; `WaterfallHandler` is to try its handlers
in order (`handler.rs:65-67`) and calls the first only (`handler.rs:103`);
`required_access_modes` asks Append of a POST and nothing of OPTIONS, the pipeline Write
and Read (`operation.rs:258-267`, `pipeline.rs:96-101`); an Accept header is lower-cased
by `ContentPreferences` and compared as it was sent by the server
(`operation.rs:139`, `ldp_handlers.rs:119`), and an empty token of it is skipped by the
one and matches everything in the other; `entries` of a `PassthroughKeyValueStorage` is not what its `get` would show:
`entries_passthrough` hands out every pair of the source (`key_value.rs:268-276`), those of
other storages under names their keys were never given, where `key_value.rs:63` has
entries enumerate the storage's entries, and a key that itself begins with the prefix
comes back shorter, as the doc's `trim_start_matches` (`key_value.rs:138-143`) takes off
every prefix there is and not the one that was added (`key_value.rs:159` asks for the
original); nor is its snapshot taken at once (`key_value.rs:218-223`) but when it is
polled. `Backward` models all of this; `PointCallsKeepApart` is about the other calls.

**Bounds.** `PostBudget`: a POST is sent only while a slug is left. `Invoke` of
`JsonFileStorage`: a client whose abandoned write still runs waits for it, so
there is one blocking write per client. `MaxTime`: the clock stops.
`WithinBudget` of `AccountStores`: a UUID is left for what a call creates, and no account
has more than `MaxLogins` login methods; the cookies of `MCIdentity` belong to one account,
which no step of the cookie store looks at. `Budget` of `IdentityStores`: the same
for pods, tokens and links; three owner rows are as many as one pod with two WebIDs
gets. `Sensible`: calls name rows that are or were there. Labels may be asked for
again, though the trait asks its callers not to ("globally unique",
`client_credentials.rs:52-53`): delete of the older token then takes the index of the
younger (`client_credentials.rs:172`), which is why `FoundByLabel` excepts them
(`shared`); two tokens of one label and one of another are three tokens. `Narrow` of
`MCLibrary`: of the three callers of storages at most two have a call under way, with one
value; a third caller is for the second storage. `MaxTimeouts` of `TestRunner`: how many
requests of a run exceed the timeout, any one for the first run and none for the
second;
`Filters`: the suites a run executes, any one of them for the first and the one
whose cases fail for the second. `MaxDepth` of `IdentifierWalk`, `MaxTokens` of
`Operations`, `MaxUrl` of `StaticAssets`: how deep a caller goes and how long its inputs are;
four levels are two more than the origin has slashes, three tokens are the least
with a tie behind a better one, and six characters reach past every mapped prefix.
Nothing else is bounded; clients send any
number of requests. Two clients are enough for each interleaving of a step of one
between two steps of another, which is what the properties are about (each
relates one request to the rest); the proofs remove the bound where there is one. Three nested paths are a document, a
container made on the way and the root. Two keys of the file tell an update of one from the
loss of another; entries of an expiring storage have nothing to do with each other
but that one pass of the sweep deletes several, which the theorems cover. Two ticks to the second, and a clock that reaches a later
second, are the least that have a deadline inside a second and one on its edge;
what is safe at finer clocks and later times is proved. `CHECK_DEADLOCK FALSE` stands in the
runs of `ExpiringStorage` only: the storage may be dropped and the clock ends.
`server_service` takes clients, and slugs no request names, for alike (SYMMETRY), and
leaves out of a state what no step of the server or of the service reads there (VIEW):
the histories, and what clients know of slugs. `identity` takes callers, accounts and owner
rows for alike, which no property tells apart; it checks no liveness.

**Fairness.** `LdpServer`: weak fairness of the steps the server takes by itself:
the runtime polls tasks that can run, the lock is free again after each critical
section, and the reader and the authorizer return (those of the repository
return at once). None for what a client does: nothing makes it finish a body.
`JsonFileStorage`: weak fairness of I/O, and strong fairness of taking the lock,
which `tokio::sync::RwLock` hands out first come, first served.
`ExpiringStorage`: weak fairness of the sweep, as a `tokio::time::interval` fires for
ever. No fairness of the clock or of callers.
`TestRunner`: weak fairness of the steps of runs and server taken together
(`Progress`), the least that says that they do not all stop; timeouts and the drop of
abandoned requests are never due. The file machine of `library` has the fairness of
`JsonFileStorage`.

## 4. The proofs

tlapm checks every step; nothing is assumed but the named `ASSUME`s on the
constants (disjointness of model values and types, `SplitLimit` and
`TicksPerSec` positive, `Slug` and `Target` of the right type).

*`LdpServerProofs`.* It begins with what `Trim`, `Ancestors`, `ResolvePath` and `ChildKey`
return, and `AncestorsTransitive`: what is above a container above a key is above the
key, for every path and every `SplitLimit`. The trimmed length is the least number
after which only empty segments follow; that it exists is proved from
well-foundedness of the naturals. Then, for any number of connections, any targets
and policy:

* `TypeCorrect` from `TypeInv`, which adds to `TypeOK` that a connection that is
  not idle has a request and a key, and one that responds a reply.
* `HierarchyIsClosed`, `AcceptedResourcesStay`, `ContainersAreByPath` from
  `HierarchyInv`. `HierarchyClosed` is not inductive: when `Insert` runs, the
  ancestors were made some steps ago. The invariant adds that a connection at
  "insert" has all containers above its key in the store or deleted since, and
  `AncestorsTransitive` carries it over the containers themselves. The store and the
  deleted keys together only grow (`PresentGrows`), so others' steps keep it.
* `ErrorsLeaveNoTrace` and `EffectsAreAuthorized` from `AccessInv`: a connection
  past the authorizer holds the access map of its request, resource and mode, one
  before its handler has not written, and one behind it only what is at its target,
  in it or above it (`Reach`).
* `EntriesChangeByName`, an action property, from the types.
* `ServerImplementsService`: `Spec => ImplementsService`. A request is busy until its answer is
  settled, and takes effect at that step; the first critical section of put is a
  `Provision`, everything else before it is not seen. What it makes is above what the
  request is about and never that itself, for every path, but for the root, which the walk
  begins with whatever the key: then the step is a `MakeRoot`. A POST must find its key free
  when it inserts, several steps after it drew the name. That is `NamesInv`: the key of
  a handler is the one its request names or a child of it (`KeysResolved`); the UUIDs
  in stored keys and in keys of requests have been drawn (`SlugsSpent`); and the name
  of a child not yet stored is known to no client and in no stored key and no key of
  another request (`NamesAreFresh`). Ancestors are made of the segments of the key below
  them (`SegsOfAncestors`), so that no put brings such a name into the store before its
  own POST does.
* `TypeCorrectForLife`, `HierarchySurvives`, `AcceptedStaysForLife` and `RootIsSeeded`, the
  same of `LdpLifecycle`: a crash leaves the invariant in the state of a server
  without requests, and a step of the pipeline keeps it as before, with the root
  among the keys that are in the store or deleted since the start of this life.

*`JsonFileStorageProofs`.* `FileImplementsKeyValue`: if no future is dropped in the middle
of its write, `Spec => ImplementsKeyValue`, through any refusals, full disks, crashes and
futures dropped elsewhere. The refinement maps the abstract map to `Held`: the map in the
file; while a write is under way, the map it found there; and `Lost` when no write is
under way and the file is no JSON. A call takes effect when its text is written, or when
it has read; a full disk or a crash between truncation and write is the `Ruin` of the
call, or its `Abandon`, that loses the map with all its keys, and no other step loses
anything. The invariant `StorageInv` says that a call that writes holds the lock alone
(`LockInv`), so that the map it has changed in memory is still the one in the file plus
its own change (`CallInv`), and that the last map the file could be read as is what a
readable file holds (`FileInv`). The assumption is needed: `file_cancel` shows what happens
without it, and `UpdatesAreSingle` that the property it violates holds under the
assumption. That the map can be lost at all is what `file_torn` is about. `TypeCorrect` needs
no assumption: `CallTypes` holds of calls whose futures are dropped as of others.

*`ExpiringStorageProofs`.* `NothingReturnedLate` and `EvictionsAreInTheSecond`, for any
`TicksPerSec`. Both rest on monotonicity of whole seconds (`SecsMonotone`,
`SameSecond`) and on the invariant that an entry about to be evicted has
expired (`EvictStage`), which time does not undo.

*`AccountStoresProofs`.* For any callers, ids, expiry and TTL: `AccountsAreKept` and
`LoginsNeverRunOut` from `RowInv`, which says that a row's age is that of its
account and its count zero only if no login method was ever counted, so that
what a prune of a past instant removes is idle now (`IdleByNow`).
`CookiesLiveForTtl` from `CookieInv`: an expiry never falls below the TTL from
generation, as every refresh takes its instant after that. `CookiesAreServedInTime`
from the order of a call, its instant and its lock, and so `IdleAccountsGo`: what a prune
spares was linked or within its expiry when the call was made (`SparedIsInUse`).
`LoginsNeverRunOut`: what has had a login method keeps one.

*`IdentityStoresProofs`.* For any callers, ids and labels. `LabelsLeadToTokens` from
`LabelInv`: a label that is asked for once belongs to at most one token or caller
(`LabelsAreUnique`); what `by_label` leads to, and what a call holds between its two
locks, is a token with that label or one that was deleted, and then the label is `Gone`,
which no step undoes (`GoneStays`, `LeadsStays`) — so the late `remove` of a label never
hits a token that is there, and the late `insert` of one may leave a label that leads
nowhere but never to a token of another label; and a token whose create has returned is
indexed. For labels that are `shared` only the second half is claimed. `OwnersHaveOneRow`
from `OwnerInv`: while create stands between its locks,
nobody else creates that pod and its WebID has at most one row, to which create
adds one. `AcknowledgedRowsStay` from `AckInv`, which says the same of calls about to
return.

*`PassthroughStorageProofs`.* `RewritingIsInvisible`: `PassSpec => PointCallsKeepApart`, for
any storages, users and keys, any rewritings that give no two keys one place, and any
way back: `to_original_key` need not reverse anything, and in the instance does not. The
refinement maps the abstract map to what the source holds at the places of the observed
storage; the polls of its users for one key are its steps, those of others are none, as
their places are elsewhere, and neither is an `entries`, which changes nothing. It claims
nothing of what `entries` returns (see the disagreements above).

*`TestRunnerProofs`.* For any runs, sets of suites and numbers of timeouts. A case of a
suite is an arbitrary script as far as the induction goes; what is used of the six
suites is proved first, once (`SuitesWork`): each step asks for the document of its
case or only reads the root (`Addressed`), a case makes of its document what its
steps say, one after the other, and leaves none (`History`), and every answer the server
can give in that state of the document is one the step takes, but for the `.acl` cases
(`Sound`). `Base` then says what a busy connection is at work on: a step of its run, the
one the run is at, or one of a case that has met a timeout (`Serving`), and the key its
handler has is the one that step asks for or a child of it (`KeyIs`). From it:

* `ForeignDataIsKept`: a step of the server changes, for the case it serves, only keys
  whose first segment is that case's UUID, or makes the root (`WorkChanges`,
  `ChangesLocal`). It needs no assumption about the authorizer.
* `OnlyAclFails`, from `Following`: the document of a case that has neither failed nor
  met a timeout is in the store as its script has it at the step the run is at, before
  the answer of that step or after it, and is not there while the run is elsewhere
  (`Tracked`). Failures must be in the invariant, since a run that fails a case leaves its
  document behind.
* `LeftoversAreByDesign`, from `Following` and `Owned`: an entry below a case's UUID is its
  document, an untouched container that put made, or a child under a slug the server drew.

What is assumed of the constants: a UUID is drawn once (`UuidAssumption`: `Uuid::new_v4`
for each case), it is no name the live server has (`LiveStoreAssumption`), neither it
nor a slug holds a control character, and the server has its root, which
`main` of the server puts there (`RootIsSeeded`). The last two theorems are for the default
pass-through reader and authorizer (`PassThrough`): a server that refuses fails the tests.

*`LibraryProofs`.* `OutcomesAreTrue` and `ReadOnlyStacksShield`, for stacks of any height
and order, from the invariant that the layers a call has come through are
layers that forward its method, which it still has, and that the store was asked
exactly when the call was told what it answered (`Asking`).
`IdentifiersKeepTheirPlace` and `ClimbsEnd`, for any origin, names and depth: an
identifier is a spelling of exactly one that ends in no slash (`TrimEndOf`), which
`Join` and `Parent` change as a child and its parent differ (`JoinIsChild`,
`ParentOfChild`), and `as_container` and `as_document` leave alone (`RespelledIs`).

`MappedFilesHaveUrls`, for any list of mappings, from the invariant that `file` is
what the lookup gives for the URL (`AssetInv`). Among the prefixes of a URL there is a
longest, and of those as long as it a last in the list, so the lookup is defined wherever
anything matches (`BestMatches`); an entry that nothing shadows is that one (`BestIs`),
and what is left of the URL behind its prefix and one slash is the path itself, since
only leading slashes are cut off it (`RestIs`, `FileIsFound`). The `..` a suffix has not,
its rest has not either (`NothingOutside`). Assumed are the shape of the list and that a
slash is not the `..` (`AssetAssumption`).

`MostPreferredIsBest`, `PreferencesAreHonoured` and `OperationsAreAuthorized`, for
Accept headers of any length. The order of the sort is strict and total
(`PrecedesOrders`), so two ranges have different numbers of ranges before them, and by
the pigeonhole principle each place from the first to the last is taken by exactly
one (`PlacesAreOwn`, `ArrangedAre`): what is at place 1 is preceded by nothing
(`FirstIs`), and what is preferred was sent, also where a NaN leaves the order open
(`PreferencesAre`). Assumed is that a quality is a number (`QualityAssumption`).

Only model-checked is liveness, which needs fairness and ENABLED: `Answered`,
`Completes`, `ExpiredAreSwept`, `SweeperExits`, `RunsEnd`. Every invariant and every other
action property of the passing runs is stated by a theorem.

## 5. What is not modelled

Of http-types: `path_only`, which parses URLs; the table of error codes; the
builders of metadata and representations; the `WaterfallHandler`, which has one
handler. Credentials, CORS and `Wac-Allow` headers, which nothing of the server acts on;
logging, TAP output, the text of bodies, argument parsing, the guess of MIME types.
`from_iter` of `MemoryMapStorage`. An inner storage of `WrappedExpiringStorage` that
fails. Serialisation errors of values. Poisoned locks. The implementations of the
`ResourceStore` traits for `LdpStore`, which do not build.

## 6. Plan

Done, in this order: paths and store, server, service, lifecycle, their proofs;
key-value storage, JSON file, expiring storage, their proofs; accounts and
cookies, their proofs; pods, client credentials, WebID links, their proofs; the
integration tests over the server; the library types and their proofs; the
proofs about restarts.

Next:

1. The decorators over the LDP store, once `server-core` implements the traits again.
2. What `entries` of storages that share a source should return, once the trait says it.
