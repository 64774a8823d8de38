------------------------------ MODULE MCBilling ------------------------------
(* Two requests of one account, one sweeper, at most one administrator.    *)
EXTENDS Billing, TLC

CONSTANTS h1, h2, a1

MCNumeric == -8..8
MCSymmetry == Permutations(Hold)
=============================================================================
