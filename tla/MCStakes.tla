------------------------------ MODULE MCStakes ------------------------------
(* Two users and one staked wallet, linked, unlinked and linked again while*)
(* two replicas sync.                                                      *)
EXTENDS Stakes, TLC

CONSTANTS u1, u2, w1, n2, s1, s2, q1

MCNonceUser == n2 :> u2
=============================================================================
