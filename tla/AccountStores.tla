---------------------------- MODULE AccountStores ---------------------------
(* The two stores of identity/src/account.rs: BaseAccountStore, whose rows   *)
(* are pruned when they stay without a login method, and BaseCookieStore,    *)
(* whose cookies expire.  Each is a map behind a RwLock of its own; they     *)
(* share the clock.                                                          *)
(*                                                                           *)
(* A call takes its instants outside of the locks, and locks again for each  *)
(* of its parts, so that time passes and others work in between.             *)
EXTENDS Integers, FiniteSets, Tables

CONSTANTS
  Account,     \* the UUIDs create draws
  Cookie,      \* the UUIDs generate draws
  Value,       \* the values of the one setting
  Expiry,      \* how long an account lives without a login method
  Ttl,         \* how long a cookie lives
  MaxTime,     \* bound: the last instant of the clock
  MaxLogins    \* bound: the login methods of an account

ASSUME TimeAssumption == Expiry \in Nat /\ Ttl \in Nat /\ MaxTime \in Nat
ASSUME UuidAssumption == Account \cap Cookie = {}
ASSUME NoAccountAssumption == None \notin Account

VARIABLES
  now,       \* the clock
  accounts,  \* BaseAccountStore.inner
  cookies,   \* BaseCookieStore.inner
  stage,     \* where the call of a client stands
  asked,     \* the call
  at,        \* the instant it has taken last
  result,    \* the account get answers, None otherwise
  begun,     \* history: when the call was made
  born,      \* history: the instant each UUID drawn so far was given
  linked,    \* history: the accounts that have had a login method
  deleted    \* history: the accounts and cookies a delete has removed

stores == <<accounts, cookies>>
callers == <<stage, asked, at, result, begun>>
lifetimes == <<born, linked, deleted>>
accountVars == <<now, stores, callers, lifetimes>>

Time == 0..MaxTime

AccountCall ==
  [op : {"create"}]
    \cup [op : {"get_setting", "increment", "decrement", "delete", "generate"},
          id : Account]
    \cup [op : {"update_setting"}, id : Account, value : Value]
    \cup [op : {"get", "refresh", "remove"}, id : Cookie]

\* The calls that take an instant before they lock.
Timed == {"create", "get_setting", "generate", "get", "refresh"}

Row(t) == [logins |-> 0, setting |-> None, created_at |-> t]

\* Instant::duration_since, zero for an instant of the future.
DurationSince(t, earlier) == IF t >= earlier THEN t - earlier ELSE 0

\* Mutant of Idle: the row's age alone decides.
IdleByAge(row, t) == DurationSince(t, row.created_at) >= Expiry

\* Mutant of Idle: the boundary of the expiry is missed.
IdleAfterExpiry(row, t) ==
  row.logins = 0 /\ DurationSince(t, row.created_at) > Expiry

\* prune_expired removes the row at the instant t.
Idle(row, t) == row.logins = 0 /\ DurationSince(t, row.created_at) >= Expiry

\* Mutant of Live: the cookie lives through its last instant.
LiveToTheEnd(cookie, t) == cookie.expires_at >= t

Live(cookie, t) == cookie.expires_at > t

AccountInit ==
  /\ now = 0
  /\ accounts = NoRows
  /\ cookies = NoRows
  /\ stage = [c \in Client |-> "idle"]
  /\ asked = [c \in Client |-> None]
  /\ at = [c \in Client |-> 0]
  /\ result = [c \in Client |-> None]
  /\ begun = [c \in Client |-> 0]
  /\ born = NoRows
  /\ linked = {} /\ deleted = {}

Tick ==
  /\ now < MaxTime
  /\ now' = now + 1
  /\ UNCHANGED <<stores, callers, lifetimes>>

\* Bound: a UUID is left for what a call creates, and a login method to count.
Outstanding(op) ==
  Cardinality({c \in Client : stage[c] \notin {"idle", "done"} /\ asked[c].op = op})

WithinBudget(x) ==
  /\ x.op = "create" =>
       Outstanding("create") < Cardinality(Account \ DOMAIN born)
  /\ x.op = "generate" =>
       Outstanding("generate") < Cardinality(Cookie \ DOMAIN born)
  /\ x.op = "increment" /\ x.id \in DOMAIN accounts =>
       accounts[x.id].logins + Outstanding("increment") < MaxLogins

\* A call names what it has been given.
Begin(c) ==
  /\ stage[c] = "idle"
  /\ \E x \in AccountCall :
       /\ x.op # "create" => x.id \in DOMAIN born
       /\ WithinBudget(x)
       /\ asked' = [asked EXCEPT ![c] = x]
       /\ stage' = [stage EXCEPT ![c] = IF x.op \in Timed THEN "clock" ELSE "apply"]
  /\ begun' = [begun EXCEPT ![c] = now]
  /\ UNCHANGED <<now, stores, at, result, lifetimes>>

\* Instant::now(), for the prune or for the call itself.
Clock(c) ==
  /\ stage[c] = "clock"
  /\ at' = [at EXCEPT ![c] = now]
  /\ stage' = [stage EXCEPT ![c] = IF asked[c].op \in {"get", "refresh"}
                             THEN "apply" ELSE "prune"]
  /\ UNCHANGED <<now, stores, asked, result, begun, lifetimes>>

AfterPrune(c) ==
  stage' = [stage EXCEPT ![c] = IF asked[c].op = "get_setting" THEN "apply" ELSE "stamp"]

\* prune_expired, of create and get_setting.
PruneAccounts(c) ==
  /\ stage[c] = "prune" /\ asked[c].op \in {"create", "get_setting"}
  /\ accounts' = Restrict(accounts,
                          {x \in DOMAIN accounts : ~Idle(accounts[x], at[c])})
  /\ AfterPrune(c)
  /\ UNCHANGED <<now, cookies, asked, at, result, begun, lifetimes>>

\* Mutant of PruneCookies: the condition of retain read the other way round.
PruneCookiesKeepsDead(c) ==
  /\ stage[c] = "prune" /\ asked[c].op = "generate"
  /\ cookies' = Restrict(cookies,
                         {x \in DOMAIN cookies : ~Live(cookies[x], at[c])})
  /\ AfterPrune(c)
  /\ UNCHANGED <<now, accounts, asked, at, result, begun, lifetimes>>

\* prune, of generate.
PruneCookies(c) ==
  /\ stage[c] = "prune" /\ asked[c].op = "generate"
  /\ cookies' = Restrict(cookies,
                         {x \in DOMAIN cookies : Live(cookies[x], at[c])})
  /\ AfterPrune(c)
  /\ UNCHANGED <<now, accounts, asked, at, result, begun, lifetimes>>

\* Instant::now() of the new row or cookie.
Stamp(c) ==
  /\ stage[c] = "stamp"
  /\ at' = [at EXCEPT ![c] = now]
  /\ stage' = [stage EXCEPT ![c] = "apply"]
  /\ UNCHANGED <<now, stores, asked, result, begun, lifetimes>>

\* The critical section of c's call of op, which then has its answer.
Applies(c, op) ==
  /\ stage[c] = "apply" /\ asked[c].op = op
  /\ stage' = [stage EXCEPT ![c] = "done"]
  /\ UNCHANGED <<now, asked, at, begun>>

-----------------------------------------------------------------------------
(* BaseAccountStore.                                                         *)

Create(c) ==
  /\ Applies(c, "create")
  /\ \E x \in Account \ DOMAIN born :
       /\ accounts' = Put(accounts, x, Row(at[c]))
       /\ born' = Put(born, x, at[c])
  /\ UNCHANGED <<cookies, result, linked, deleted>>

GetSetting(c) ==
  /\ Applies(c, "get_setting")
  /\ UNCHANGED <<stores, result, lifetimes>>

\* An account that is not there is an error and no change.
UpdateSetting(c) ==
  /\ Applies(c, "update_setting")
  /\ accounts' = IF asked[c].id \in DOMAIN accounts
                 THEN [accounts EXCEPT ![asked[c].id].setting = asked[c].value]
                 ELSE accounts
  /\ UNCHANGED <<cookies, result, lifetimes>>

Increment(c) ==
  /\ Applies(c, "increment")
  /\ IF asked[c].id \in DOMAIN accounts
     THEN /\ accounts' = [accounts EXCEPT ![asked[c].id].logins = @ + 1]
          /\ linked' = linked \cup {asked[c].id}
     ELSE UNCHANGED <<accounts, linked>>
  /\ UNCHANGED <<cookies, result, born, deleted>>

\* Mutants of Decrement: no guard; a guard against underflow only.
DecrementUnguarded(c) ==
  /\ Applies(c, "decrement")
  /\ accounts' = IF asked[c].id \in DOMAIN accounts
                 THEN [accounts EXCEPT ![asked[c].id].logins = @ - 1]
                 ELSE accounts
  /\ UNCHANGED <<cookies, result, lifetimes>>

DecrementToZero(c) ==
  /\ Applies(c, "decrement")
  /\ accounts' = IF asked[c].id \in DOMAIN accounts /\ accounts[asked[c].id].logins > 0
                 THEN [accounts EXCEPT ![asked[c].id].logins = @ - 1]
                 ELSE accounts
  /\ UNCHANGED <<cookies, result, lifetimes>>

Decrement(c) ==
  /\ Applies(c, "decrement")
  /\ accounts' = IF asked[c].id \in DOMAIN accounts /\ accounts[asked[c].id].logins > 1
                 THEN [accounts EXCEPT ![asked[c].id].logins = @ - 1]
                 ELSE accounts
  /\ UNCHANGED <<cookies, result, lifetimes>>

Delete(c) ==
  /\ Applies(c, "delete")
  /\ accounts' = Drop(accounts, asked[c].id)
  /\ deleted' = deleted \cup ({asked[c].id} \cap DOMAIN accounts)
  /\ UNCHANGED <<cookies, result, born, linked>>

-----------------------------------------------------------------------------
(* BaseCookieStore.                                                          *)

Generate(c) ==
  /\ Applies(c, "generate")
  /\ \E x \in Cookie \ DOMAIN born :
       /\ cookies' = Put(cookies, x, [account_id |-> asked[c].id,
                                      expires_at |-> at[c] + Ttl])
       /\ born' = Put(born, x, at[c])
  /\ UNCHANGED <<accounts, result, linked, deleted>>

\* The cookie of c's call was live at the instant the call has taken.
Valid(c) ==
  asked[c].id \in DOMAIN cookies /\ Live(cookies[asked[c].id], at[c])

Get(c) ==
  /\ Applies(c, "get")
  /\ result' = [result EXCEPT ![c] = IF Valid(c)
                                     THEN cookies[asked[c].id].account_id ELSE None]
  /\ UNCHANGED <<stores, lifetimes>>

Refresh(c) ==
  /\ Applies(c, "refresh")
  /\ cookies' = IF Valid(c)
                THEN [cookies EXCEPT ![asked[c].id].expires_at = at[c] + Ttl]
                ELSE cookies
  /\ UNCHANGED <<accounts, result, lifetimes>>

Remove(c) ==
  /\ Applies(c, "remove")
  /\ cookies' = Drop(cookies, asked[c].id)
  /\ deleted' = deleted \cup ({asked[c].id} \cap DOMAIN cookies)
  /\ UNCHANGED <<accounts, result, born, linked>>

-----------------------------------------------------------------------------
\* The caller has its answer.
End(c) ==
  /\ stage[c] = "done"
  /\ stage' = [stage EXCEPT ![c] = "idle"]
  /\ asked' = [asked EXCEPT ![c] = None]
  /\ at' = [at EXCEPT ![c] = 0]
  /\ result' = [result EXCEPT ![c] = None]
  /\ begun' = [begun EXCEPT ![c] = 0]
  /\ UNCHANGED <<now, stores, lifetimes>>

AccountStep(c) ==
  \/ Begin(c) \/ Clock(c) \/ Stamp(c) \/ End(c)
  \/ PruneAccounts(c) \/ Create(c) \/ GetSetting(c) \/ UpdateSetting(c)
  \/ Increment(c) \/ Decrement(c) \/ Delete(c)
  \/ PruneCookies(c) \/ Generate(c) \/ Get(c) \/ Refresh(c) \/ Remove(c)

AccountNext == Tick \/ \E c \in Client : AccountStep(c)

AccountSpec == AccountInit /\ [][AccountNext]_accountVars

-----------------------------------------------------------------------------
(* Properties.                                                               *)

AccountRow == [logins : Nat, setting : Value \cup {None},
               created_at : Time]

CookieEntry == [account_id : Account, expires_at : Nat]

\* The variables have the shapes the code gives them.
AccountTypeOK ==
  /\ now \in Time
  /\ DOMAIN accounts \subseteq Account
  /\ \A x \in DOMAIN accounts : accounts[x] \in AccountRow
  /\ DOMAIN cookies \subseteq Cookie
  /\ \A k \in DOMAIN cookies : cookies[k] \in CookieEntry
  /\ stage \in [Client -> {"idle", "clock", "prune", "stamp", "apply", "done"}]
  /\ asked \in [Client -> AccountCall \cup {None}]
  /\ at \in [Client -> Time] /\ begun \in [Client -> Time]
  /\ result \in [Client -> Account \cup {None}]
  /\ DOMAIN born \subseteq Account \cup Cookie
  /\ \A x \in DOMAIN born : born[x] \in Time
  /\ linked \subseteq Account /\ deleted \subseteq DOMAIN born

\* "Accounts with linked_logins_count == 0 after expiry are garbage-collected"
\* (account.rs:70-71), and no others: an account that create has stored stays,
\* unless somebody deletes it, or it passes its whole expiry and has never had
\* a login method.
KeptUnlessIdle ==
  \A x \in DOMAIN born \cap Account :
    \/ x \in DOMAIN accounts \cup deleted
    \/ x \notin linked /\ now >= born[x] + Expiry

\* The other half of that sentence, as far as it is so: the prune of a create or
\* get_setting leaves no account that has never had a login method and whose
\* expiry was over when the call was made, whatever other calls have done to it
\* (one that is counted a login method after its expiry is saved).
CollectedByNextPrune ==
  [][\A c \in Client :
       stage[c] = "prune" /\ stage'[c] # "prune" /\ asked[c].op # "generate" =>
         \A x \in DOMAIN accounts' \ linked : begun[c] < born[x] + Expiry]_accountVars

\* "An account needs at least 1 login method" (account.rs:104-106): once it has
\* one, no series of increments and decrements leaves it without.
NeverWithoutLogin ==
  \A x \in linked \cap DOMAIN accounts : accounts[x].logins >= 1

\* A cookie that nobody deletes lives for its TTL, whatever refreshes are late
\* and however prunes fall between them.
CookieLivesForTtl ==
  \A k \in DOMAIN born \cap Cookie :
    \/ k \in deleted \/ now >= born[k] + Ttl
    \/ k \in DOMAIN cookies /\ cookies[k].expires_at > now

\* "or None if the cookie is unknown or has expired" (account.rs:191-192): get
\* answers with an account only if the cookie had not expired when it was asked.
ServedInTime ==
  [][\A c \in Client :
       result'[c] # result[c] /\ result'[c] # None =>
         cookies[asked[c].id].expires_at > begun[c]]_accountVars
=============================================================================
