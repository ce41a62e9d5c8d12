------------------------------ MODULE MCIdentity ----------------------------
(* The five stores of the identity crate for TLC.  They share nothing but    *)
(* the clock and their callers, so one of them works and the others rest;    *)
(* cookies are asked for by the one account there is then.                   *)
EXTENDS AccountStores, IdentityStores, TLC

VARIABLE part  \* the store that is called

AccountOps ==
  {"create", "get_setting", "update_setting", "increment", "decrement", "delete"}
CookieOps == {"create", "generate", "get", "refresh", "remove"}
PodOps == {"create_pod", "update_owner", "remove_owner"}
TokenOps == {"create_token", "delete_token", "find_by_label"}
LinkOps == {"create_link", "delete_link"}

Only(ops, calls) == \A c \in Client : calls[c] # None => calls[c].op \in ops

IdentityInit ==
  /\ part \in {"accounts", "cookies", "pods", "tokens", "links"}
  /\ AccountInit /\ Init

IdentityNext ==
  /\ UNCHANGED part
  /\ \/ /\ part = "accounts" /\ AccountNext /\ Only(AccountOps, asked')
        /\ UNCHANGED vars
     \/ /\ part = "cookies" /\ AccountNext /\ Only(CookieOps, asked')
        /\ Cardinality(DOMAIN born' \cap Account) <= 1
        /\ UNCHANGED vars
     \/ /\ part = "pods" /\ Next /\ Only(PodOps, call')
        /\ UNCHANGED accountVars
     \/ /\ part = "tokens" /\ Next /\ Only(TokenOps, call')
        /\ UNCHANGED accountVars
     \/ /\ part = "links" /\ Next /\ Only(LinkOps, call')
        /\ UNCHANGED accountVars

IdentitySpec == IdentityInit /\ [][IdentityNext]_<<part, vars, accountVars>>

Symmetry ==
  Permutations(Client) \cup Permutations(Account) \cup Permutations(OwnerId)
=============================================================================
