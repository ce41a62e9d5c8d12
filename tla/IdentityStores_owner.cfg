CONSTANTS
  Client = {c1, c2}
  AccountId = {a1}
  Url = {b1}
  WebId = {w1}
  Pod = {p1}
  OwnerId = {o1, o2}
  Token = {t1}
  Label = {l1}
  Link = {k1}
  None = None
SPECIFICATION Spec
PROPERTY RemovedOwnerIsGone
