------------------------ MODULE AccountStoresProofs -------------------------
(* Proofs about AccountStores, for any callers, ids, expiry and TTL.         *)
EXTENDS AccountStores, TLAPS

-----------------------------------------------------------------------------
(* The inductive invariant.                                                  *)

\* What a call holds at each of its stages: it names an id that was drawn, and
\* the instant of a get or refresh lies between the call and now.
StageInv(c) ==
  /\ stage[c] # "idle" => asked[c] \in AccountCall
  /\ stage[c] # "idle" /\ asked[c].op # "create" => asked[c].id \in DOMAIN born
  /\ begun[c] <= now /\ at[c] <= now
  /\ stage[c] = "prune" => begun[c] <= at[c]
  /\ stage[c] = "apply" /\ asked[c].op \in {"get", "refresh"} =>
       begun[c] <= at[c] /\ born[asked[c].id] <= at[c]

BornInv == \A x \in DOMAIN born : born[x] <= now

TypeInv == AccountTypeOK /\ BornInv /\ \A c \in Client : StageInv(c)

\* A row tells when its account was born and whether it was ever linked.
RowInv ==
  /\ DOMAIN accounts \cup linked \subseteq DOMAIN born
  /\ \A x \in DOMAIN accounts :
       /\ accounts[x].created_at = born[x]
       /\ x \in linked <=> accounts[x].logins >= 1

\* A cookie that is there expires no earlier than its TTL; one that is not has
\* been deleted or has had its TTL.
CookieInv ==
  /\ \A k \in DOMAIN cookies :
       k \in DOMAIN born /\ cookies[k].expires_at >= born[k] + Ttl
  /\ \A k \in DOMAIN born \cap Cookie :
       k \in DOMAIN cookies \cup deleted \/ now >= born[k] + Ttl

AccountsInv == RowInv /\ KeptUnlessIdle

-----------------------------------------------------------------------------
(* Types.                                                                    *)

LEMMA CallFields ==
  ASSUME NEW x \in AccountCall
  PROVE  /\ x.op \in {"get_setting", "increment", "decrement", "delete",
                      "generate", "update_setting"} => x.id \in Account
         /\ x.op \in {"get", "refresh", "remove"} => x.id \in Cookie
         /\ x.op = "update_setting" => x.value \in Value
BY DEF AccountCall

LEMMA TypeInit == AccountInit => TypeInv
BY TimeAssumption DEF AccountInit, NoRows, TypeInv, AccountTypeOK, BornInv, StageInv, Time

LEMMA TypeNext == TypeInv /\ [AccountNext]_accountVars => TypeInv'
<1> SUFFICES ASSUME TypeInv, [AccountNext]_accountVars PROVE TypeInv'
  OBVIOUS
<1> USE DEF TypeInv
<1>0. now \in Nat /\ Ttl \in Nat /\ now \in Time
  BY TimeAssumption DEF AccountTypeOK, Time
<1>1. CASE Tick
  <2>1. now' = now + 1 /\ now' \in Time
    BY <1>0, <1>1, TimeAssumption DEF Tick, Time
  <2>2. AccountTypeOK'
    BY <1>1, <2>1 DEF Tick, AccountTypeOK, stores, callers, lifetimes
  <2>3. BornInv'
    BY <1>0, <1>1, <2>1 DEF Tick, AccountTypeOK, BornInv, Time, lifetimes
  <2>4. ASSUME NEW c \in Client PROVE StageInv(c)'
    <3>1. begun[c] \in Nat /\ at[c] \in Nat
      BY DEF AccountTypeOK, Time
    <3> QED BY <1>0, <1>1, <2>1, <3>1 DEF Tick, StageInv, callers, lifetimes
  <2> QED BY <2>2, <2>3, <2>4
<1>2. ASSUME NEW c \in Client, Begin(c) PROVE TypeInv'
  <2>1. AccountTypeOK' /\ BornInv'
    BY <1>0, <1>2 DEF Begin, AccountTypeOK, BornInv, stores, lifetimes
  <2>2. ASSUME NEW d \in Client PROVE StageInv(d)'
    BY <1>0, <1>2, <2>2 DEF Begin, AccountTypeOK, StageInv, Timed, stores, lifetimes, Time
  <2> QED BY <2>1, <2>2
<1>3. ASSUME NEW c \in Client, Clock(c) PROVE TypeInv'
  <2>1. AccountTypeOK' /\ BornInv'
    BY <1>0, <1>3 DEF Clock, AccountTypeOK, BornInv, stores, lifetimes
  <2>2. ASSUME NEW d \in Client PROVE StageInv(d)'
    BY <1>0, <1>3, <2>2 DEF Clock, AccountTypeOK, StageInv, BornInv, stores, lifetimes, Time
  <2> QED BY <2>1, <2>2
<1>4. ASSUME NEW c \in Client, Stamp(c) PROVE TypeInv'
  <2>1. AccountTypeOK' /\ BornInv'
    BY <1>0, <1>4 DEF Stamp, AccountTypeOK, BornInv, stores, lifetimes
  <2>2. ASSUME NEW d \in Client PROVE StageInv(d)'
    BY <1>0, <1>4, <2>2 DEF Stamp, AccountTypeOK, StageInv, BornInv, stores, lifetimes, Time
  <2> QED BY <2>1, <2>2
<1>5. ASSUME NEW c \in Client, End(c) PROVE TypeInv'
  <2>1. AccountTypeOK' /\ BornInv'
    BY <1>0, <1>5, TimeAssumption DEF End, AccountTypeOK, BornInv, stores, lifetimes, Time
  <2>2. ASSUME NEW d \in Client PROVE StageInv(d)'
    BY <1>0, <1>5, <2>2 DEF End, AccountTypeOK, StageInv, stores, lifetimes, Time
  <2> QED BY <2>1, <2>2
<1>6. ASSUME NEW c \in Client, PruneAccounts(c) PROVE TypeInv'
  <2>1. AccountTypeOK' /\ BornInv'
    BY <1>6 DEF PruneAccounts, AfterPrune, Restrict, AccountTypeOK, BornInv, lifetimes
  <2>2. ASSUME NEW d \in Client PROVE StageInv(d)'
    BY <1>6, <2>2 DEF PruneAccounts, AfterPrune, AccountTypeOK, StageInv, lifetimes
  <2> QED BY <2>1, <2>2
<1>7. ASSUME NEW c \in Client, PruneCookies(c) PROVE TypeInv'
  <2>1. AccountTypeOK' /\ BornInv'
    BY <1>7 DEF PruneCookies, AfterPrune, Restrict, AccountTypeOK, BornInv, lifetimes
  <2>2. ASSUME NEW d \in Client PROVE StageInv(d)'
    BY <1>7, <2>2 DEF PruneCookies, AfterPrune, AccountTypeOK, StageInv, lifetimes
  <2> QED BY <2>1, <2>2
<1>8. ASSUME NEW c \in Client, NEW op, Applies(c, op),
             DOMAIN born \subseteq DOMAIN born',
             \A x \in DOMAIN born : born'[x] = born[x]
      PROVE  \A d \in Client : StageInv(d)'
  <2> SUFFICES ASSUME NEW d \in Client PROVE StageInv(d)'
    OBVIOUS
  <2> QED BY <1>8 DEF Applies, AccountTypeOK, StageInv
<1>9. ASSUME NEW c \in Client, Create(c) PROVE TypeInv'
  <2>1. PICK x \in Account \ DOMAIN born :
          accounts' = Put(accounts, x, Row(at[c])) /\ born' = Put(born, x, at[c])
    BY <1>9 DEF Create
  <2>2. Row(at[c]) \in AccountRow /\ at[c] \in Time /\ at[c] <= now
    BY DEF Row, AccountRow, AccountTypeOK, StageInv
  <2>3. AccountTypeOK'
    BY <1>9, <2>1, <2>2 DEF Create, Applies, Put, AccountTypeOK
  <2>4. BornInv'
    BY <1>9, <2>1, <2>2 DEF Create, Applies, Put, AccountTypeOK, BornInv
  <2>5. DOMAIN born \subseteq DOMAIN born' /\ \A y \in DOMAIN born : born'[y] = born[y]
    BY <2>1 DEF Put
  <2> QED BY <1>8, <1>9, <2>3, <2>4, <2>5 DEF Create
<1>10. ASSUME NEW c \in Client, GetSetting(c) PROVE TypeInv'
  BY <1>8, <1>10 DEF GetSetting, Applies, AccountTypeOK, BornInv, stores, lifetimes
<1>11. ASSUME NEW c \in Client, UpdateSetting(c) PROVE TypeInv'
  <2>1. asked[c].value \in Value
    BY <1>11, CallFields DEF UpdateSetting, Applies, StageInv
  <2>2. AccountTypeOK'
    BY <1>11, <2>1 DEF UpdateSetting, Applies, AccountTypeOK, AccountRow, lifetimes
  <2> QED BY <1>8, <1>11, <2>2 DEF UpdateSetting, Applies, BornInv, lifetimes
<1>12. ASSUME NEW c \in Client, Increment(c) PROVE TypeInv'
  <2>1. AccountTypeOK'
    BY <1>12 DEF Increment, Applies, AccountTypeOK, AccountRow
  <2> QED BY <1>8, <1>12, <2>1 DEF Increment, Applies, BornInv
<1>13. ASSUME NEW c \in Client, Decrement(c) PROVE TypeInv'
  <2>1. AccountTypeOK'
    BY <1>13 DEF Decrement, Applies, AccountTypeOK, AccountRow, lifetimes
  <2> QED BY <1>8, <1>13, <2>1 DEF Decrement, Applies, BornInv, lifetimes
<1>14. ASSUME NEW c \in Client, Delete(c) PROVE TypeInv'
  <2>1. AccountTypeOK'
    BY <1>14 DEF Delete, Applies, Drop, Restrict, AccountTypeOK, StageInv
  <2> QED BY <1>8, <1>14, <2>1 DEF Delete, Applies, BornInv
<1>15. ASSUME NEW c \in Client, Generate(c) PROVE TypeInv'
  <2>1. PICK x \in Cookie \ DOMAIN born :
          /\ cookies' = Put(cookies, x, [account_id |-> asked[c].id,
                                         expires_at |-> at[c] + Ttl])
          /\ born' = Put(born, x, at[c])
    BY <1>15 DEF Generate
  <2>2. at[c] \in Time /\ at[c] \in Nat /\ at[c] <= now /\ at[c] + Ttl \in Nat
    BY <1>0 DEF AccountTypeOK, StageInv, Time
  <2>3. asked[c].id \in Account
    BY <1>15, CallFields DEF Generate, Applies, StageInv
  <2>4. AccountTypeOK'
    BY <1>15, <2>1, <2>2, <2>3 DEF Generate, Applies, Put, AccountTypeOK, CookieEntry
  <2>5. BornInv'
    BY <1>15, <2>1, <2>2 DEF Generate, Applies, Put, AccountTypeOK, BornInv
  <2>6. DOMAIN born \subseteq DOMAIN born' /\ \A y \in DOMAIN born : born'[y] = born[y]
    BY <2>1 DEF Put
  <2> QED BY <1>8, <1>15, <2>4, <2>5, <2>6 DEF Generate
<1>16. ASSUME NEW c \in Client, Get(c) PROVE TypeInv'
  <2>1. AccountTypeOK'
    BY <1>16 DEF Get, Applies, Valid, AccountTypeOK, CookieEntry, stores, lifetimes
  <2> QED BY <1>8, <1>16, <2>1 DEF Get, Applies, BornInv, lifetimes
<1>17. ASSUME NEW c \in Client, Refresh(c) PROVE TypeInv'
  <2>1. at[c] + Ttl \in Nat
    BY <1>0 DEF AccountTypeOK, Time
  <2>2. AccountTypeOK'
    BY <1>17, <2>1 DEF Refresh, Applies, AccountTypeOK, CookieEntry, lifetimes
  <2> QED BY <1>8, <1>17, <2>2 DEF Refresh, Applies, BornInv, lifetimes
<1>18. ASSUME NEW c \in Client, Remove(c) PROVE TypeInv'
  <2>1. AccountTypeOK'
    BY <1>18 DEF Remove, Applies, Drop, Restrict, AccountTypeOK, StageInv
  <2> QED BY <1>8, <1>18, <2>1 DEF Remove, Applies, BornInv
<1>19. CASE UNCHANGED accountVars
  BY <1>19 DEF accountVars, stores, callers, lifetimes, AccountTypeOK, BornInv, StageInv
<1> QED
  BY <1>1, <1>2, <1>3, <1>4, <1>5, <1>6, <1>7, <1>9, <1>10, <1>11, <1>12,
     <1>13, <1>14, <1>15, <1>16, <1>17, <1>18, <1>19 DEF AccountNext, AccountStep

\* The maps, the calls and the histories of the two stores keep their types
\* (AccountTypeOK), for any callers and ids.
THEOREM TypeCorrect == AccountSpec => []AccountTypeOK
<1>1. TypeInv => AccountTypeOK
  BY DEF TypeInv
<1> QED BY <1>1, TypeInit, TypeNext, PTL DEF AccountSpec

-----------------------------------------------------------------------------
(* Accounts.                                                                 *)

LEMMA AccountsInit == AccountInit => AccountsInv
BY DEF AccountInit, NoRows, AccountsInv, RowInv, KeptUnlessIdle

\* A row that a prune of the past removes is idle for its expiry by now.
LEMMA IdleByNow ==
  ASSUME TypeInv, RowInv, NEW x \in DOMAIN accounts, NEW c \in Client,
         Idle(accounts[x], at[c])
  PROVE  x \notin linked /\ now >= born[x] + Expiry
<1>1. /\ at[c] \in Nat /\ now \in Nat /\ Expiry \in Nat /\ at[c] <= now
      /\ x \in DOMAIN born /\ born[x] \in Nat /\ born[x] <= now
  BY TimeAssumption DEF TypeInv, AccountTypeOK, BornInv, StageInv, RowInv, Time
<1>2. accounts[x].created_at = born[x] /\ accounts[x].logins = 0
  BY DEF RowInv, Idle
<1>3. DurationSince(at[c], born[x]) >= Expiry
  BY <1>2 DEF Idle
<1>4. now >= born[x] + Expiry
  BY <1>1, <1>3 DEF DurationSince
<1> QED BY <1>2, <1>4 DEF RowInv

LEMMA AccountsNext == TypeInv /\ AccountsInv /\ [AccountNext]_accountVars => AccountsInv'
<1> SUFFICES ASSUME TypeInv, AccountsInv, [AccountNext]_accountVars PROVE AccountsInv'
  OBVIOUS
<1> USE DEF AccountsInv
<1>0. /\ now \in Nat /\ Expiry \in Nat
      /\ \A x \in DOMAIN born : born[x] \in Nat
  BY TimeAssumption DEF TypeInv, AccountTypeOK, Time
<1>1. CASE Tick
  BY <1>0, <1>1 DEF Tick, RowInv, KeptUnlessIdle, stores, lifetimes
<1>2. ASSUME NEW c \in Client, PruneAccounts(c) PROVE AccountsInv'
  <2>1. RowInv'
    BY <1>2 DEF PruneAccounts, Restrict, RowInv, lifetimes
  <2>2. KeptUnlessIdle'
    BY <1>2, IdleByNow DEF PruneAccounts, Restrict, KeptUnlessIdle, lifetimes
  <2> QED BY <2>1, <2>2
<1>3. ASSUME NEW c \in Client, Create(c) PROVE AccountsInv'
  <2>1. PICK x \in Account \ DOMAIN born :
          accounts' = Put(accounts, x, Row(at[c])) /\ born' = Put(born, x, at[c])
    BY <1>3 DEF Create
  <2>2. RowInv'
    BY <1>3, <2>1 DEF Create, Put, Row, RowInv
  <2>3. KeptUnlessIdle'
    BY <1>3, <2>1 DEF Create, Applies, Put, KeptUnlessIdle
  <2> QED BY <2>2, <2>3
<1>4. ASSUME NEW c \in Client, UpdateSetting(c) PROVE AccountsInv'
  BY <1>4 DEF UpdateSetting, Applies, RowInv, KeptUnlessIdle, TypeInv, AccountTypeOK, AccountRow, lifetimes
<1>5. ASSUME NEW c \in Client, Increment(c) PROVE AccountsInv'
  BY <1>5 DEF Increment, Applies, RowInv, KeptUnlessIdle, TypeInv, AccountTypeOK, AccountRow
<1>6. ASSUME NEW c \in Client, Decrement(c) PROVE AccountsInv'
  BY <1>6 DEF Decrement, Applies, RowInv, KeptUnlessIdle, TypeInv, AccountTypeOK, AccountRow, lifetimes
<1>7. ASSUME NEW c \in Client, Delete(c) PROVE AccountsInv'
  BY <1>7 DEF Delete, Applies, Drop, Restrict, RowInv, KeptUnlessIdle
<1>8. ASSUME NEW c \in Client, Generate(c) PROVE AccountsInv'
  <2>1. PICK x \in Cookie \ DOMAIN born : born' = Put(born, x, at[c])
    BY <1>8 DEF Generate
  <2>2. RowInv' /\ KeptUnlessIdle'
    BY <1>8, <2>1, UuidAssumption
       DEF Generate, Applies, Put, RowInv, KeptUnlessIdle, TypeInv, AccountTypeOK
  <2> QED BY <2>2
<1>9. ASSUME NEW c \in Client, Remove(c) PROVE AccountsInv'
  BY <1>9 DEF Remove, Applies, RowInv, KeptUnlessIdle
<1>10. ASSUME NEW c \in Client,
              \/ Begin(c) \/ Clock(c) \/ Stamp(c) \/ End(c) \/ GetSetting(c)
              \/ PruneCookies(c) \/ Get(c) \/ Refresh(c)
       PROVE  AccountsInv'
  <2>1. UNCHANGED <<now, accounts, lifetimes>>
    BY <1>10 DEF Begin, Clock, Stamp, End, GetSetting, PruneCookies, Get,
                 Refresh, Applies, stores
  <2> QED BY <2>1 DEF RowInv, KeptUnlessIdle, lifetimes
<1>11. CASE UNCHANGED accountVars
  BY <1>11 DEF accountVars, stores, lifetimes, RowInv, KeptUnlessIdle
<1> QED
  BY <1>1, <1>2, <1>3, <1>4, <1>5, <1>6, <1>7, <1>8, <1>9, <1>10, <1>11
     DEF AccountNext, AccountStep

LEMMA LinkedStay == TypeInv /\ AccountsInv => NeverWithoutLogin
BY DEF AccountsInv, RowInv, NeverWithoutLogin

\* create's account stays until it is deleted or has been without a login method
\* for its whole expiry (KeptUnlessIdle), however the prunes of other calls, with
\* instants of the past, fall between the counting of its login methods.
THEOREM AccountsAreKept == AccountSpec => []KeptUnlessIdle
<1>1. AccountsInv => KeptUnlessIdle
  BY DEF AccountsInv
<1> QED BY <1>1, TypeInit, TypeNext, AccountsInit, AccountsNext, PTL DEF AccountSpec

\* A row that a prune spares is linked, or was within its expiry when the call
\* was made.
LEMMA SparedIsInUse ==
  ASSUME TypeInv, RowInv, NEW c \in Client,
         NEW x \in DOMAIN accounts \ linked, ~Idle(accounts[x], at[c]),
         begun[c] <= at[c]
  PROVE  begun[c] < born[x] + Expiry
<1>1. /\ at[c] \in Nat /\ begun[c] \in Nat /\ Expiry \in Nat
      /\ x \in DOMAIN born /\ born[x] \in Nat
  BY TimeAssumption DEF TypeInv, AccountTypeOK, RowInv, Time
<1>2. accounts[x].created_at = born[x] /\ accounts[x].logins = 0
  BY DEF RowInv, TypeInv, AccountTypeOK, AccountRow
<1>3. DurationSince(at[c], born[x]) < Expiry
  BY <1>1, <1>2 DEF Idle, DurationSince
<1> QED BY <1>1, <1>3 DEF DurationSince

\* Accounts that have been idle for their expiry when a call is made do not
\* survive the prune of that call (CollectedByNextPrune).
THEOREM IdleAccountsGo == AccountSpec => CollectedByNextPrune
<1> DEFINE Step_ ==
  \A c \in Client :
    stage[c] = "prune" /\ stage'[c] # "prune" /\ asked[c].op # "generate" =>
      \A x \in DOMAIN accounts' \ linked : begun[c] < born[x] + Expiry
<1>1. TypeInv /\ AccountsInv /\ [AccountNext]_accountVars => Step_
  <2> SUFFICES ASSUME TypeInv, AccountsInv, [AccountNext]_accountVars, NEW c \in Client,
                      stage[c] = "prune", stage'[c] # "prune", asked[c].op # "generate",
                      NEW x \in DOMAIN accounts' \ linked
               PROVE  begun[c] < born[x] + Expiry
    OBVIOUS
  <2>1. PruneAccounts(c)
    BY DEF AccountNext, AccountStep, Tick, callers, accountVars, Begin, Clock, Stamp, End,
           PruneAccounts, PruneCookies, Applies, Create, GetSetting, UpdateSetting,
           Increment, Decrement, Delete, Generate, Get, Refresh, Remove,
           TypeInv, AccountTypeOK, AfterPrune
  <2>2. x \in DOMAIN accounts \ linked /\ ~Idle(accounts[x], at[c])
    BY <2>1 DEF PruneAccounts, Restrict
  <2>3. begun[c] <= at[c]
    BY DEF TypeInv, StageInv
  <2> QED BY <2>2, <2>3, SparedIsInUse DEF AccountsInv
<1>2. TypeInv /\ AccountsInv /\ [AccountNext]_accountVars => [Step_]_accountVars
  BY <1>1
<1>3. [][Step_]_accountVars => CollectedByNextPrune
  BY DEF CollectedByNextPrune
<1> HIDE DEF Step_
<1> QED BY <1>2, <1>3, TypeInit, TypeNext, AccountsInit, AccountsNext, PTL DEF AccountSpec

\* An account that has had a login method keeps one (NeverWithoutLogin).
THEOREM LoginsNeverRunOut == AccountSpec => []NeverWithoutLogin
BY TypeInit, TypeNext, AccountsInit, AccountsNext, LinkedStay, PTL DEF AccountSpec

-----------------------------------------------------------------------------
(* Cookies.                                                                  *)

LEMMA CookieInit == AccountInit => CookieInv
BY DEF AccountInit, NoRows, CookieInv

LEMMA CookieNext == TypeInv /\ CookieInv /\ [AccountNext]_accountVars => CookieInv'
<1> SUFFICES ASSUME TypeInv, CookieInv, [AccountNext]_accountVars PROVE CookieInv'
  OBVIOUS
<1>0. /\ now \in Nat /\ Ttl \in Nat
      /\ \A x \in DOMAIN born : born[x] \in Nat
      /\ \A c \in Client : at[c] \in Nat /\ at[c] <= now
      /\ \A k \in DOMAIN cookies : cookies[k].expires_at \in Nat
  BY TimeAssumption DEF TypeInv, AccountTypeOK, StageInv, Time, CookieEntry
<1>1. CASE Tick
  BY <1>0, <1>1 DEF Tick, CookieInv, stores, lifetimes
<1>2. ASSUME NEW c \in Client, PruneCookies(c) PROVE CookieInv'
  <2>1. ASSUME NEW k \in DOMAIN cookies, ~Live(cookies[k], at[c])
        PROVE  now >= born[k] + Ttl
    BY <1>0, <2>1 DEF Live, CookieInv
  <2> QED BY <1>2, <2>1 DEF PruneCookies, Restrict, CookieInv, lifetimes
<1>3. ASSUME NEW c \in Client, Generate(c) PROVE CookieInv'
  <2>1. PICK x \in Cookie \ DOMAIN born :
          /\ cookies' = Put(cookies, x, [account_id |-> asked[c].id,
                                         expires_at |-> at[c] + Ttl])
          /\ born' = Put(born, x, at[c])
    BY <1>3 DEF Generate
  <2> QED BY <1>0, <1>3, <2>1 DEF Generate, Applies, Put, CookieInv
<1>4. ASSUME NEW c \in Client, Refresh(c) PROVE CookieInv'
  <2>1. asked[c].id \in DOMAIN born /\ born[asked[c].id] <= at[c]
    BY <1>4 DEF Refresh, Applies, TypeInv, StageInv
  <2>2. at[c] + Ttl >= born[asked[c].id] + Ttl
    BY <1>0, <2>1
  <2>3. ASSUME NEW k \in DOMAIN cookies, Valid(c)
        PROVE  cookies'[k].expires_at >= born[k] + Ttl
    BY <1>0, <1>4, <2>2, <2>3 DEF Refresh, CookieInv, TypeInv, AccountTypeOK, CookieEntry
  <2>4. DOMAIN cookies' = DOMAIN cookies
    BY <1>4 DEF Refresh
  <2> QED BY <1>4, <2>3, <2>4 DEF Refresh, Applies, CookieInv, lifetimes
<1>5. ASSUME NEW c \in Client, Remove(c) PROVE CookieInv'
  BY <1>5 DEF Remove, Applies, Drop, Restrict, CookieInv
<1>6. ASSUME NEW c \in Client, Create(c) PROVE CookieInv'
  <2>1. PICK x \in Account \ DOMAIN born : born' = Put(born, x, at[c])
    BY <1>6 DEF Create
  <2> QED BY <1>0, <1>6, <2>1, UuidAssumption DEF Create, Applies, Put, CookieInv
<1>7. ASSUME NEW c \in Client, Delete(c) \/ Increment(c) PROVE CookieInv'
  BY <1>7 DEF Delete, Increment, Applies, CookieInv
<1>8. ASSUME NEW c \in Client,
             \/ Begin(c) \/ Clock(c) \/ Stamp(c) \/ End(c) \/ GetSetting(c)
             \/ PruneAccounts(c) \/ UpdateSetting(c) \/ Decrement(c) \/ Get(c)
      PROVE  CookieInv'
  <2>1. UNCHANGED <<now, cookies, lifetimes>>
    BY <1>8 DEF Begin, Clock, Stamp, End, GetSetting, PruneAccounts,
                UpdateSetting, Decrement, Get, Applies, stores
  <2> QED BY <2>1 DEF CookieInv, lifetimes
<1>9. CASE UNCHANGED accountVars
  BY <1>9 DEF accountVars, stores, lifetimes, CookieInv
<1> QED
  BY <1>1, <1>2, <1>3, <1>4, <1>5, <1>6, <1>7, <1>8, <1>9 DEF AccountNext, AccountStep

LEMMA CookiesLive == TypeInv /\ CookieInv => CookieLivesForTtl
<1> SUFFICES ASSUME TypeInv, CookieInv,
                    NEW k \in DOMAIN born \cap Cookie,
                    k \notin deleted, ~(now >= born[k] + Ttl)
             PROVE  k \in DOMAIN cookies /\ cookies[k].expires_at > now
  BY DEF CookieLivesForTtl
<1>1. k \in DOMAIN cookies /\ cookies[k].expires_at >= born[k] + Ttl
  BY DEF CookieInv
<1>2. now \in Nat /\ Ttl \in Nat /\ born[k] \in Nat /\ cookies[k].expires_at \in Nat
  BY <1>1, TimeAssumption DEF TypeInv, AccountTypeOK, Time, CookieEntry
<1> QED BY <1>1, <1>2

\* A cookie that nobody deletes is there and live until its TTL has passed since
\* generate (CookieLivesForTtl): a refresh that comes late to the lock may take
\* back what another has added, but not what generate gave.
THEOREM CookiesLiveForTtl == AccountSpec => []CookieLivesForTtl
BY TypeInit, TypeNext, CookieInit, CookieNext, CookiesLive, PTL DEF AccountSpec

LEMMA ServedStep == TypeInv /\ [AccountNext]_accountVars =>
  [\A c \in Client :
     result'[c] # result[c] /\ result'[c] # None =>
       cookies[asked[c].id].expires_at > begun[c]]_accountVars
<1> SUFFICES ASSUME TypeInv, [AccountNext]_accountVars, NEW c \in Client,
                    result'[c] # result[c], result'[c] # None
             PROVE  cookies[asked[c].id].expires_at > begun[c]
  BY DEF accountVars
<1>1. PICK d \in Client : Get(d) \/ End(d)
  BY DEF AccountNext, AccountStep, Tick, Begin, Clock, Stamp, PruneAccounts, Create,
         GetSetting, UpdateSetting, Increment, Decrement, Delete, PruneCookies,
         Generate, Refresh, Remove, accountVars, callers
<1>2. Get(c)
  BY <1>1 DEF Get, End, TypeInv, AccountTypeOK
<1>3. Valid(c) /\ begun[c] <= at[c]
  BY <1>2 DEF Get, Applies, TypeInv, AccountTypeOK, StageInv
<1>4. /\ begun[c] \in Nat /\ at[c] \in Nat
      /\ asked[c].id \in DOMAIN cookies => cookies[asked[c].id].expires_at \in Nat
  BY TimeAssumption DEF TypeInv, AccountTypeOK, Time, CookieEntry
<1> QED BY <1>3, <1>4 DEF Valid, Live

\* get never answers for a cookie that had expired when it was asked
\* (ServedInTime).
THEOREM CookiesAreServedInTime == AccountSpec => ServedInTime
BY TypeInit, TypeNext, ServedStep, PTL DEF AccountSpec, ServedInTime
=============================================================================
