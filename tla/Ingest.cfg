SPECIFICATION Spec
CONSTANTS
  s1 = s1
  s2 = s2
  s3 = s3
  r1 = r1
  r2 = r2
  Student = {s1, s2, s3}
  MESSAGES = 7
  Workbook <- Weeks
  Request = {r1, r2}
  Nil = Nil
  FAILURES = 2
  UPLOADS = 5
SYMMETRY Symmetry
INVARIANTS
  TypeOK
  LandsOnce
  RosterIsLastReport
  OneCurrentLedger
PROPERTIES
  GuardHolds
