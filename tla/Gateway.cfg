SPECIFICATION GatewaySpec
CONSTANTS
  key = key
  r1 = r1
  r2 = r2
  r3 = r3
  i1 = i1
  i2 = i2
  ApiKey = {i1, i2}
  OAuthToken = {}
  Keyless = Keyless
  RATE_LIMIT_TRIGGER_PER_DAY = 2
  GLOBAL_DAILY_LLM_CAP = 3
  MAX_CALLS = 5
  Bucket = {key}
  Request = {r1, r2, r3}
  LIMIT = 2
  MaxWindow = 2
  KEEP = 1
  MAX_COUNT = 3
  Nil = Nil
SYMMETRY Symmetry
INVARIANTS
  TypeOK
  NoLostIncrement
  RefusedOnlyWhenSpent
  CountersHold
PROPERTIES
  ImplementsQuota
