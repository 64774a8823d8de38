SPECIFICATION Spec
CONSTANTS
  r1 = r1
  r2 = r2
  s1 = s1
  s2 = s2
  Req = {r1, r2}
  Session = {s1, s2}
SYMMETRY MCSymmetry
CONSTRAINT MCSecondEmbeds
INVARIANTS
  Settled
  
  ChargedWasServed
  OneSource
PROPERTIES
  ImplementsLedger
  ImplementsLease
CHECK_DEADLOCK FALSE
