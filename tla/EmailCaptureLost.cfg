SPECIFICATION Spec
CONSTANTS
  Message = {m1, m2}
  Request = {r1, r2}
  Nil = Nil
  MAX_CAPTURED = 3
  FAULTS = 3
INVARIANTS
  ProcessedIsCaptured
CHECK_DEADLOCK FALSE
