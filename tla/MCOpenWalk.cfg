SPECIFICATION FairSpec
CONSTANTS
  o1 = o1
  o2 = o2
  r1 = r1
  b1 = b1
  b2 = b2
  b3 = b3
  p1 = p1
  p2 = p2
  NoProvider = NoProvider
  s1 = s1
  Opener = {o1, o2}
  Replica = {r1}
  At <- MCAt
  Bid = {b1, b2, b3}
  Provider = {p1, p2}
  BidProvider <- MCBidProvider
  Price <- MCPrice
  Session = {s1}
  MaxAttempts = 3
INVARIANTS
  
  
  NoPingPong
PROPERTIES
  OpenEnds
