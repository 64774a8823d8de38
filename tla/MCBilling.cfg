SPECIFICATION Spec
CONSTANTS
  h1 = h1
  h2 = h2
  a1 = a1
  Sweeper = Sweeper
  Hold = {h1, h2}
  Amount = {1, 2}
  Numeric <- MCNumeric
  Credit = 2
  Grant = 1
  Admin = {}
  MaxSync = 0
  MaxCrash = 0
SYMMETRY MCSymmetry
INVARIANTS
  ChargeExact
  HoldsExact
PROPERTIES
  HoldCovered
  ImplementsLedger
