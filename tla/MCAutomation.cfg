SPECIFICATION LiveSpec
CONSTANTS
  r1 = r1
  s1 = s1
  s2 = s2
  m1 = m1
  m2 = m2
  pA = pA
  pB = pB
  Warmer = Warmer
  NoProvider = NoProvider
  Req = {r1}
  Session = {s1}
  Model = {m1}
  Provider = {pA, pB}
  ModelOf <- MCModelOf
  ProviderOf <- MCProviderOf
  SoftCap <- MCNoCap
  Preferred = {}
  MaxCrash = 1
INVARIANTS
  MeterOnlyClosed
  MeteredIsCounted
  DoubleMeterBound
PROPERTIES
  
  OpenRowsRetire
  ClosingResolves
