SPECIFICATION Spec
CONSTANTS
  Id = {i1, i2, i3}
  ApiKey = {i1, i2}
  OAuthToken = {i1, i3}
  Keyless = Keyless
  Request = {r1}
  Nil = Nil
  RATE_LIMIT_TRIGGER_PER_DAY = 2
  GLOBAL_DAILY_LLM_CAP = 3
  MAX_CALLS = 5
INVARIANTS
  NeverUnavailable
