----------------------------- MODULE MCOpenWalk -----------------------------
(* Two opens on one replica over three bids, two of them of one provider.  *)
EXTENDS OpenWalk, TLC

CONSTANTS o1, o2, r1, b1, b2, b3, p1, p2, s1

MCAt == o1 :> r1 @@ o2 :> r1
MCBidProvider == b1 :> p1 @@ b2 :> p2 @@ b3 :> p1
MCPrice == b1 :> 1 @@ b2 :> 2 @@ b3 :> 3
=============================================================================
