SPECIFICATION Spec
CONSTANTS
  claude = claude
  u1 = u1
  c1 = c1
  t1 = t1
  t2 = t2
  t3 = t3
  r1 = r1
  r2 = r2
  Client = {claude}
  User = {u1}
  Code = {c1}
  Token = {t1, t2, t3}
  Request = {r1, r2}
  Nil = Nil
  NoRole = NoRole
  GrantRequests <- MCOneGrant
  RefreshRequests <- MCOneRefresh
  UserRoles <- MCFinanceOnly
SYMMETRY Symmetry
INVARIANTS
  TypeOK
  SingleUse
  SpentBeforeIssued
  OneLivePair
