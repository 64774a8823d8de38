SPECIFICATION Spec
CONSTANTS
  o1 = o1
  o2 = o2
  r1 = r1
  r2 = r2
  s1 = s1
  s2 = s2
  s3 = s3
  Opener = {o1, o2}
  Replica = {r1, r2}
  At <- MCAt
  Session = {s1, s2, s3}
  Budget = 1
SYMMETRY MCSymmetry
INVARIANTS
  BudgetBound
CHECK_DEADLOCK FALSE
