-------------------------------- MODULE Tables ------------------------------
(* Tables of rows by id: the HashMaps behind the locks of the identity crate *)
(* (account.rs, pod.rs, client_credentials.rs, webid.rs).                    *)
EXTENDS Functions

CONSTANTS
  Client,  \* the tasks that share the stores
  None     \* no call, no value, no row, no result

NoRows == [x \in {} |-> 0]

\* HashMap::insert and HashMap::remove.
Put(m, k, v) == [x \in DOMAIN m \cup {k} |-> IF x = k THEN v ELSE m[x]]
Drop(m, k) == Restrict(m, DOMAIN m \ {k})
=============================================================================
