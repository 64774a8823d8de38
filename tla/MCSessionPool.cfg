SPECIFICATION PoolSpec
CONSTANTS
  r1 = r1
  r2 = r2
  s1 = s1
  s2 = s2
  m1 = m1
  pA = pA
  pB = pB
  Warmer = Warmer
  NoProvider = NoProvider
  Req = {r1, r2}
  Session = {s1, s2}
  Model = {m1}
  Provider = {pA, pB}
  ModelOf <- MCModelOf
  ProviderOf <- MCProviderOf
  SoftCap <- MCSoftCap
SYMMETRY MCSymmetry
CONSTRAINT MCOneTask
INVARIANTS
  SlotAccounting
PROPERTY ImplementsLease
