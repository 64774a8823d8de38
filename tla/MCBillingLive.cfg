SPECIFICATION LiveSpec
CONSTANTS
  h1 = h1
  h2 = h2
  a1 = a1
  Sweeper = Sweeper
  Hold = {h1}
  Amount = {1}
  Numeric <- MCNumeric
  Credit = 1
  Grant = 1
  Admin = {a1}
  MaxSync = 1
  MaxCrash = 1
INVARIANT StakingExact
PROPERTIES
  AbandonedVoided
  SweptReleased
