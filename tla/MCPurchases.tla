---------------------------- MODULE MCPurchases ----------------------------
(* Two events of one payment and one of another, two handlers at a time.   *)
EXTENDS Purchases, TLC

CONSTANTS e1, e2, e3, p1, p2, h1, h2

MCPaymentOf == e1 :> p1 @@ e2 :> p1 @@ e3 :> p2
MCSenders == {
  e1 :> "checkout" @@ e2 :> "invoice" @@ e3 :> "adjust",
  e1 :> "charge" @@ e2 :> "charge" @@ e3 :> "link"}
=============================================================================
