SPECIFICATION FairSpec
CONSTANTS
  q1 = q1
  q2 = q2
  r1 = r1
  Req = {q1, q2}
  Replica = {r1}
  At <- MCAt
  Rpm = 1
  Tpm = 1
  MaxTok = 1
  FailClosed = FALSE
INVARIANTS
  WindowBound
PROPERTIES
  CountsAgain
