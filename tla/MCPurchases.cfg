SPECIFICATION FairSpec
CONSTANTS
  e1 = e1
  e2 = e2
  e3 = e3
  p1 = p1
  p2 = p2
  h1 = h1
  h2 = h2
  Event = {e1, e2, e3}
  Payment = {p1, p2}
  PaymentOf <- MCPaymentOf
  Senders <- MCSenders
  NoEvent = NoEvent
  Handler = {h1, h2}
  MaxFails = 1
INVARIANTS
  LossBound
  
  AnsweredIsPosted
PROPERTIES
  EventuallyAnswered
CHECK_DEADLOCK FALSE
