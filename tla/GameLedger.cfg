SPECIFICATION FairSpec
CONSTANTS
  r1 = r1
  r2 = r2
  Request = {r1, r2}
  Nil = Nil
  Submission <- Submissions
  Engine <- Games
  MaxDay = 1
  MAX_ATTEMPTS = 3
INVARIANTS
  TypeOK
  DailyLimits
  OneBoard
PROPERTIES
  FinishedIsFinal
  SubmitsEnd
