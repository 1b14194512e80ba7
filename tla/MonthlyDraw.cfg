SPECIFICATION Spec
CONSTANTS
  c1 = c1
  c2 = c2
  Closer = {c1, c2}
  N = 2
  MaxMonth = 1
  MAX_PLAYS = 3
SYMMETRY Symmetry
INVARIANTS
  TypeOK
  WinnerIsTop
PROPERTIES
  ClosedIsFinal
