----------------------------- MODULE MCRateLimit -----------------------------
(* Two requests at a time with one key; one of a window passes the script. *)
EXTENDS RateLimit, TLC

CONSTANTS q1, q2, r1

MCAt == q1 :> r1 @@ q2 :> r1
=============================================================================
