SPECIFICATION Spec
CONSTANTS
  r1 = r1
  s1 = s1
  s2 = s2
  m1 = m1
  m2 = m2
  pA = pA
  pB = pB
  Warmer = Warmer
  NoProvider = NoProvider
  Req = {r1}
  Session = {s1, s2}
  Model = {m1}
  Provider = {pA, pB}
  ModelOf <- MCModelOf
  ProviderOf <- MCProviderOf
  SoftCap <- MCSoftCap
  Preferred = {m1}
  MaxCrash = 0
CONSTRAINT MCQuiet
INVARIANTS
  OvershootBound
