----------------------------- MODULE HoldLedger -----------------------------
(***************************************************************************)
(* What the usage ledger promises of the status of its entries, with no    *)
(* amounts, no balance and no request: a hold is inserted once and never   *)
(* becomes pending again; it is settled by one charge or one void; and     *)
(* only the sweep of stale holds, which marks what it writes, can set an   *)
(* entry aside that was settled -- one that was still pending when the     *)
(* sweep chose it.  A hold the sweep has voided may be charged after all.  *)
(***************************************************************************)
CONSTANT Hold             \* the entries

VARIABLES status,         \* the status of each entry
          stale,          \* the entries the sweep has chosen and not written
          expired         \* the entries it has written

ledger == <<status, stale, expired>>

Init ==
  /\ status = [h \in Hold |-> "absent"]
  /\ stale = {} /\ expired = {}

Insert(h) ==
  /\ status[h] = "absent"
  /\ status' = [status EXCEPT ![h] = "pending"]
  /\ UNCHANGED <<stale, expired>>

Charge(h) ==
  /\ status[h] = "pending" \/ (status[h] = "voided" /\ h \in expired)
  /\ status' = [status EXCEPT ![h] = "posted"]
  /\ UNCHANGED <<stale, expired>>

Void(h) ==
  /\ status[h] = "pending"
  /\ status' = [status EXCEPT ![h] = "voided"]
  /\ UNCHANGED <<stale, expired>>

(* The sweep chooses among the pending entries and may drop a choice; then *)
(* it writes what it has chosen, whatever has become of it.                *)
Choose(S) ==
  /\ \A h \in S \ stale : status[h] = "pending"
  /\ stale' = S
  /\ UNCHANGED <<status, expired>>

Expire(S) ==
  /\ S \subseteq stale
  /\ status' = [h \in Hold |-> IF h \in S THEN "voided" ELSE status[h]]
  /\ expired' = expired \cup S
  /\ stale' = stale \ S

Next ==
  \/ \E h \in Hold : Insert(h) \/ Charge(h) \/ Void(h)
  \/ \E S \in SUBSET Hold : Choose(S) \/ Expire(S)

Spec == Init /\ [][Next]_ledger
=============================================================================
