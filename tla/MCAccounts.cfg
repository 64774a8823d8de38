SPECIFICATION FairSpec
CONSTANTS
  u1 = u1
  u2 = u2
  k1 = k1
  c1 = c1
  j1 = j1
  j2 = j2
  r1 = r1
  r2 = r2
  User = {u1, u2}
  NoUser = NoUser
  Key = {k1}
  Caller = {c1}
  Jwt = {j1, j2}
  Replica = {r1}
  At <- MCAt
  MaxFails = 1
PROPERTIES
  RevokedEnds
  
  TombstoneFinal
