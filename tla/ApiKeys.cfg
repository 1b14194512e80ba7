SPECIFICATION Spec
CONSTANTS
  hub = hub
  k1 = k1
  k2 = k2
  r1 = r1
  r2 = r2
  u1 = u1
  Key = {hub, k1, k2}
  Legacy = {hub}
  NoKey = NoKey
  Owner = {u1}
  OtherLabel = OtherLabel
  Request = {r1, r2}
  NoRequest = NoRequest
  SELF_KEY_MAX_OUTSTANDING = 1
  LegacyScopes <- MCLegacyScopes
  RequestedScopes <- MCRequestedScopes
SYMMETRY Symmetry
INVARIANTS
  TypeOK
  LineageCoversScopes
  RevocationReachesDescendants
  OutstandingCap
  NoLockCycle
PROPERTIES
  RevocationTakesTree
