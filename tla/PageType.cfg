SPECIFICATION Spec
CONSTANTS
  Nil = Nil
  Keep = Keep
  Document = {d1, d2}
  Slug = {s1, team}
  Request = {r1, r2}
  RESERVED = {team}
  PATCHES = 3
INVARIANTS
  PagePreviewable
CHECK_DEADLOCK FALSE
