-------------------------- MODULE MCPremiumBudget --------------------------
(* Two opens on two replicas, three sessions, a budget of one.             *)
EXTENDS PremiumBudget, TLC

CONSTANTS o1, o2, r1, r2, s1, s2, s3

MCAt == o1 :> r1 @@ o2 :> r2
MCSymmetry == Permutations(Session)
=============================================================================
