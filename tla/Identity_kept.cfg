CONSTANTS
  Client = {c1, c2}
  Account = {a1, a2}
  Cookie = {k1, k2}
  Value = {v1}
  Expiry = 1
  Ttl = 2
  MaxTime = 3
  MaxLogins = 2
  AccountId = {i1}
  Url = {b1}
  WebId = {w1, w2}
  Pod = {p1}
  OwnerId = {o1, o2, o3}
  Token = {t1, t2, t3}
  Label = {l1, l2}
  Link = {n1, n2}
  None = None
SPECIFICATION IdentitySpec
INVARIANTS AccountTypeOK KeptUnlessIdle CookieLivesForTtl TypeOK OneRowPerOwner AcknowledgedStays
PROPERTIES CollectedByNextPrune ServedInTime FoundByLabel
SYMMETRY Symmetry
