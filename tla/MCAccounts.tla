----------------------------- MODULE MCAccounts -----------------------------
(* A key in use on one replica while the account is managed on another.    *)
EXTENDS Accounts

CONSTANTS u1, u2, k1, c1, j1, j2, r1, r2

MCAt == [x \in Caller \cup Jwt |-> IF x = j1 /\ r2 \in Replica THEN r2 ELSE r1]
=============================================================================
