SPECIFICATION FairSpec
CONSTANTS
  u1 = u1
  u2 = u2
  w1 = w1
  n2 = n2
  s1 = s1
  s2 = s2
  q1 = q1
  User = {u1, u2}
  NoUser = NoUser
  Wallet = {w1}
  Staked = {w1}
  Nonce = {n2}
  NonceUser <- MCNonceUser
  Req = {q1}
  Syncer = {s1, s2}
  Asked = {s2}
  MaxFails = 1

  
  
  
PROPERTIES
  AllowanceEnds
