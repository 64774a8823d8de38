---------------------------- MODULE SessionLease ----------------------------
(***************************************************************************)
(* What the session pool promises its callers, with no database, no wallet *)
(* and no automation: a paid provider session is leased to one request at  *)
(* a time, a lease that was lost is never granted to somebody else, and    *)
(* nothing is leased from a session once it is retired.  A session may be  *)
(* retired while it is leased: that does not end the lease.                *)
(***************************************************************************)
CONSTANTS Req,        \* the requests
          Session     \* the sessions

VARIABLES holders,    \* holders[s]: the requests that hold a lease on s
          wedged,     \* the sessions whose lease was lost with its holder
          retired     \* the sessions that accept no new lease

lvars == <<holders, wedged, retired>>

Init ==
  /\ holders = [s \in Session |-> {}]
  /\ wedged = {}
  /\ retired = {}

Acquire(r, s) ==
  /\ holders[s] = {}
  /\ s \notin wedged \cup retired
  /\ holders' = [holders EXCEPT ![s] = {r}]
  /\ UNCHANGED <<wedged, retired>>

Return(r, s) ==
  /\ r \in holders[s]
  /\ holders' = [holders EXCEPT ![s] = {}]
  /\ UNCHANGED <<wedged, retired>>

(* A holder disappears without returning its leases, some of them or all.  *)
Lose(r, S) ==
  /\ \A s \in S : r \in holders[s]
  /\ holders' = [s \in Session |-> holders[s] \ (IF s \in S THEN {r} ELSE {})]
  /\ wedged' = wedged \cup S
  /\ UNCHANGED retired

Retire(S) ==
  /\ retired' = retired \cup S
  /\ UNCHANGED <<holders, wedged>>

Next ==
  \/ \E r \in Req, s \in Session : Acquire(r, s) \/ Return(r, s)
  \/ \E r \in Req, S \in SUBSET Session : Lose(r, S)
  \/ \E S \in SUBSET Session : Retire(S)

Spec == Init /\ [][Next]_lvars
=============================================================================
