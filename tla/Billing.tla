------------------------------- MODULE Billing -------------------------------
(***************************************************************************)
(* The usage ledger of one account (services/billing_service.py over       *)
(* crud/credits.py): the hold a request takes before it is served, its     *)
(* finalization or void, the sweeper that voids stale holds and reconciles *)
(* the balance, the administrator's reconcile, the daily staking sync, and *)
(* the Redis copy of the balance that finalization reads.                  *)
(*                                                                         *)
(* A balance column is changed by SQL deltas, each on behalf of one ledger *)
(* entry, or is overwritten by a sum over entries.  It is kept here as the *)
(* map of what each entry has contributed to it: the column is the total.  *)
(* All amounts are debits, so the code's negative amounts are positive.    *)
(*                                                                         *)
(* Postgres runs the transactions READ COMMITTED.  A step that holds a row *)
(* lock across an await is split in two and the lock is a guard on others. *)
(***************************************************************************)
EXTENDS Integers, FiniteSets, Functions

CONSTANTS Hold,        \* ledger entries, each of one request (uuid4)
          Amount,      \* the costs a request can be estimated at, or have
          Numeric,     \* the values a NUMERIC(20,8) column can take
          Credit,      \* paid credit bought by the account
          Grant,       \* the staking allowance of a day
          Sweeper,     \* hold_reconciliation_loop of the elected replica
          Admin,       \* concurrent POST /billing/admin/.../reconcile
          MaxSync,     \* bound: daily staking syncs
          MaxCrash     \* bound: reconciles cut off

Reconciler == {Sweeper} \cup Admin

ASSUME BillingAssumption ==
  /\ IsFiniteSet(Hold)
  /\ Sweeper \notin Admin
  /\ Amount \subseteq Nat /\ Amount \subseteq Numeric
  /\ Numeric \subseteq Int /\ 0 \in Numeric
  /\ Credit \in Nat /\ Grant \in Nat /\ MaxSync \in Nat /\ MaxCrash \in Nat

VARIABLES
  status,      \* credits_ledger.status, "absent" before the insert
  paid, stak,  \* -amount_paid and -amount_staking of the entry
  expired,     \* the entries with failure_code "hold_expired"
  held,        \* what each entry contributes to -paid_pending_holds
  charged,     \* what each entry contributes to -paid_posted_balance
  drawn,       \* what each entry contributes to -staking_available
  daily,       \* staking_daily_amount, the base of staking_available
  staker,      \* is_staker
  overage,     \* allow_overage
  cache,       \* the cached balance, {} on a miss
  reading,     \* a balance read from the database on its way to the cache
  req,         \* where the request of each hold stands
  plan,        \* the split it has computed
  aged,        \* entries older than HOLD_MAX_PENDING_SECONDS
  at,          \* where each reconciler stands
  stale,       \* the ids the sweeper selected
  snap,        \* the pending holds each reconciler summed
  due,         \* history: swept, and its release not yet written
  missed,      \* history: written last from a sum older than the entry
  reset,       \* history: entries that existed at a staking sync
  syncs, crashes

ledgerVars  == <<status, paid, stak, expired>>
balanceVars == <<held, charged, drawn, daily, staker, overage>>
cacheVars   == <<cache, reading>>
reqVars     == <<req, plan, aged>>
recVars     == <<at, stale, snap, due, missed, crashes>>
syncVars    == <<reset, syncs>>
vars == <<ledgerVars, balanceVars, cacheVars, reqVars, recVars, syncVars>>

Status == {"absent", "pending", "posted", "voided"}
ReqPC  == {"new", "holding", "held", "finalizing", "voiding", "done"}
RecPC  == {"idle", "selected", "voided", "summed"}
None   == [h \in Hold |-> 0]
NoPlan == [paid |-> 0, stak |-> 0]

(* Type invariant.  An amount may be negative: a split against an          *)
(* overdrawn allowance credits staking and charges paid the more.          *)
TypeOK ==
  /\ status \in [Hold -> Status]
  /\ paid \in [Hold -> Int] /\ stak \in [Hold -> Int]
  /\ expired \in SUBSET Hold
  /\ held \in [Hold -> Int] /\ charged \in [Hold -> Int] /\ drawn \in [Hold -> Int]
  /\ daily \in Nat /\ staker \in BOOLEAN /\ overage \in BOOLEAN
  /\ req \in [Hold -> ReqPC]
  /\ plan \in [Hold -> [paid : Int, stak : Int]]
  /\ aged \in SUBSET Hold
  /\ at \in [Reconciler -> RecPC]
  /\ stale \in SUBSET Hold
  /\ snap \in [Reconciler -> [Hold -> Int]]
  /\ due \in SUBSET Hold /\ missed \in SUBSET Hold /\ reset \in SUBSET Hold
  /\ syncs \in Nat /\ crashes \in Nat

Init ==
  /\ status = [h \in Hold |-> "absent"]
  /\ paid = None /\ stak = None /\ expired = {}
  /\ held = None /\ charged = None /\ drawn = None
  /\ daily \in {0, Grant} /\ staker \in BOOLEAN /\ overage \in BOOLEAN
  /\ cache = {} /\ reading = {}
  /\ req = [h \in Hold |-> "new"]
  /\ plan = [h \in Hold |-> NoPlan]
  /\ aged = {}
  /\ at = [k \in Reconciler |-> "idle"] /\ stale = {}
  /\ snap = [k \in Reconciler |-> None]
  /\ due = {} /\ missed = {} /\ reset = {}
  /\ syncs = 0 /\ crashes = 0

------------------------------------------------------------------------------
(* The balance row, and how a cost is split over its two buckets.          *)

PaidAvailable    == Credit - SumFunction(charged) - SumFunction(held)
StakingAvailable == daily - SumFunction(drawn)
Row == [staking |-> StakingAvailable, overage |-> overage,
        staking_on |-> staker \/ daily > 0]

(* _compute_spending_split: what a hold is checked against, and the parts  *)
(* of a cost, with the staking the hold has reserved given back.  Only the *)
(* columns the split reads are kept of a cached row.                       *)
Least(a, b) == IF a <= b THEN a ELSE b
Effective ==
  IF ~(staker \/ daily > 0) THEN PaidAvailable
  ELSE IF overage THEN PaidAvailable + StakingAvailable
  ELSE StakingAvailable
StakingPart(row, cost, reserved) ==
  IF row.staking_on THEN Least(cost, row.staking + reserved) ELSE 0
PaidPart(row, cost, part) ==
  IF row.staking_on /\ ~row.overage THEN 0 ELSE cost - part

(* What the ledger says is pending of an entry.                            *)
Pending(h) == IF status[h] = "pending" THEN paid[h] ELSE 0

(* SELECT ... FOR UPDATE on the balance row, held until the commit.        *)
RowFree_NoLock == TRUE
RowFree == \A h \in Hold : req[h] # "holding"

(* SELECT ... FOR UPDATE on the ledger entry by finalize_usage.            *)
EntryFree(h) == req[h] # "finalizing"

------------------------------------------------------------------------------
(* A request: create_usage_hold.                                           *)

(* Lock the balance row and check that the estimate is covered.  Where it  *)
(* is not, the request ends here: nothing was written.                     *)
HoldLock(h, est) ==
  /\ req[h] = "new" /\ RowFree
  /\ IF Effective >= est
       THEN \E part \in Numeric :
              /\ part = StakingPart(Row, est, 0)
              /\ plan' = [plan EXCEPT ![h] =
                            [paid |-> PaidPart(Row, est, part), stak |-> part]]
              /\ req' = [req EXCEPT ![h] = "holding"]
       ELSE /\ req' = [req EXCEPT ![h] = "done"]
            /\ UNCHANGED plan
  /\ UNCHANGED <<ledgerVars, balanceVars, cacheVars, aged, recVars, syncVars>>

(* Insert the entry, add the deltas, commit, drop the cached balance.  The *)
(* request may be cancelled or fail just after the commit: then nobody is  *)
(* left to settle the hold.                                                *)
HoldCommit(h, next) ==
  /\ req[h] = "holding" /\ next \in {"held", "done"}
  /\ status' = [status EXCEPT ![h] = "pending"]
  /\ paid' = [paid EXCEPT ![h] = plan[h].paid]
  /\ stak' = [stak EXCEPT ![h] = plan[h].stak]
  /\ held' = [held EXCEPT ![h] = @ + plan[h].paid]
  /\ drawn' = [drawn EXCEPT ![h] = @ + plan[h].stak]
  /\ cache' = {}
  /\ req' = [req EXCEPT ![h] = next]
  /\ plan' = [plan EXCEPT ![h] = NoPlan]
  /\ UNCHANGED <<expired, charged, daily, staker, overage, reading,
                 aged, recVars, syncVars>>

(* A transaction is rolled back, or the request's process is gone.         *)
RequestDies(h) ==
  /\ req[h] \notin {"new", "done"}
  /\ req' = [req EXCEPT ![h] = "done"]
  /\ plan' = [plan EXCEPT ![h] = NoPlan]
  /\ UNCHANGED <<ledgerVars, balanceVars, cacheVars, aged, recVars, syncVars>>

------------------------------------------------------------------------------
(* finalize_usage.                                                         *)

(* The balance finalize_usage splits against: the cached one if there is   *)
(* one, else the row as it is, which it also sends to the cache: before or *)
(* after another reader that is about to do so.                            *)
ReadBalance(row) ==
  \/ row \in cache /\ UNCHANGED reading
  \/ cache = {} /\ row = Row /\ reading' \in {reading, {Row}}

(* Lock the entry, compute the split.  A voided entry is not refused.      *)
FinalizeLock(h, cost) ==
  /\ req[h] = "held"
  /\ \E row \in cache \cup {Row}, part \in Numeric :
       /\ ReadBalance(row)
       /\ part = StakingPart(row, cost, stak[h])
       /\ plan' = [plan EXCEPT ![h] =
                     [paid |-> PaidPart(row, cost, part), stak |-> part]]
  /\ req' = [req EXCEPT ![h] = "finalizing"]
  /\ UNCHANGED <<ledgerVars, balanceVars, cache, aged, recVars, syncVars>>

(* Post the charge and move the balance: release the paid hold, debit the  *)
(* posted balance, exchange the staking part.  A cancelled non-streaming   *)
(* request still calls void_usage after the commit.                        *)
FinalizeCommit_NoReserved(h, next) ==
  /\ req[h] = "finalizing" /\ RowFree /\ next \in {"voiding", "done"}
  /\ status' = [status EXCEPT ![h] = "posted"]
  /\ paid' = [paid EXCEPT ![h] = plan[h].paid]
  /\ stak' = [stak EXCEPT ![h] = plan[h].stak]
  /\ held' = [held EXCEPT ![h] = @ - paid[h]]
  /\ charged' = [charged EXCEPT ![h] = @ + plan[h].paid]
  /\ drawn' = [drawn EXCEPT ![h] = @ + plan[h].stak]
  /\ cache' = {}
  /\ req' = [req EXCEPT ![h] = next]
  /\ plan' = [plan EXCEPT ![h] = NoPlan]
  /\ UNCHANGED <<expired, daily, staker, overage, reading, aged,
                 recVars, syncVars>>

FinalizeCommit(h, next) ==
  /\ req[h] = "finalizing" /\ RowFree /\ next \in {"voiding", "done"}
  /\ status' = [status EXCEPT ![h] = "posted"]
  /\ paid' = [paid EXCEPT ![h] = plan[h].paid]
  /\ stak' = [stak EXCEPT ![h] = plan[h].stak]
  /\ held' = [held EXCEPT ![h] = @ - paid[h]]
  /\ charged' = [charged EXCEPT ![h] = @ + plan[h].paid]
  /\ drawn' = [drawn EXCEPT ![h] = @ + plan[h].stak - stak[h]]
  /\ cache' = {}
  /\ req' = [req EXCEPT ![h] = next]
  /\ plan' = [plan EXCEPT ![h] = NoPlan]
  /\ UNCHANGED <<expired, daily, staker, overage, reading, aged,
                 recVars, syncVars>>

(* The finalization is rolled back; a cancelled request goes on to void.   *)
FinalizeFails(h) ==
  /\ req[h] = "finalizing"
  /\ req' = [req EXCEPT ![h] = "voiding"]
  /\ plan' = [plan EXCEPT ![h] = NoPlan]
  /\ UNCHANGED <<ledgerVars, balanceVars, cacheVars, aged, recVars, syncVars>>

------------------------------------------------------------------------------
(* void_usage.                                                             *)

(* The request failed before it produced anything billable.                *)
Fail(h) ==
  /\ req[h] = "held"
  /\ req' = [req EXCEPT ![h] = "voiding"]
  /\ UNCHANGED <<ledgerVars, balanceVars, cacheVars, plan, aged, recVars, syncVars>>

(* One transaction: lock the entry, release both parts of a pending hold.  *)
Void_Posted(h) ==
  /\ req[h] = "voiding" /\ RowFree
  /\ status' = [status EXCEPT ![h] = "voided"]
  /\ paid' = [paid EXCEPT ![h] = 0] /\ stak' = [stak EXCEPT ![h] = 0]
  /\ held' = [held EXCEPT ![h] = @ - paid[h]]
  /\ drawn' = [drawn EXCEPT ![h] = @ - stak[h]]
  /\ cache' = {}
  /\ req' = [req EXCEPT ![h] = "done"]
  /\ UNCHANGED <<expired, charged, daily, staker, overage, reading,
                 plan, aged, recVars, syncVars>>

Void(h) ==
  /\ req[h] = "voiding" /\ status[h] = "pending" /\ RowFree
  /\ status' = [status EXCEPT ![h] = "voided"]
  /\ paid' = [paid EXCEPT ![h] = 0] /\ stak' = [stak EXCEPT ![h] = 0]
  /\ held' = [held EXCEPT ![h] = @ - paid[h]]
  /\ drawn' = [drawn EXCEPT ![h] = @ - stak[h]]
  /\ cache' = {}
  /\ req' = [req EXCEPT ![h] = "done"]
  /\ UNCHANGED <<expired, charged, daily, staker, overage, reading,
                 plan, aged, recVars, syncVars>>

(* The entry is voided already, or posted and refused.                     *)
VoidRefused(h) ==
  /\ req[h] = "voiding" /\ status[h] # "pending"
  /\ req' = [req EXCEPT ![h] = "done"]
  /\ UNCHANGED <<ledgerVars, balanceVars, cacheVars, plan, aged, recVars, syncVars>>

------------------------------------------------------------------------------
(* Stale holds and reconciliation.                                         *)

(* created_at of a pending entry falls behind the cutoff.                  *)
Age(h) ==
  /\ status[h] = "pending" /\ h \notin aged
  /\ aged' = aged \cup {h}
  /\ UNCHANGED <<ledgerVars, balanceVars, cacheVars, req, plan, recVars, syncVars>>

(* void_stale_holds: select the ids of pending holds older than the cutoff.*)
SweepSelect_Young ==
  /\ at[Sweeper] = "idle"
  /\ stale' = {h \in Hold \ aged : status[h] = "pending"}
  /\ stale' # {}
  /\ at' = [at EXCEPT ![Sweeper] = "selected"]
  /\ UNCHANGED <<ledgerVars, balanceVars, cacheVars, reqVars,
                 snap, due, missed, crashes, syncVars>>

SweepSelect ==
  /\ at[Sweeper] = "idle"
  /\ stale' = {h \in aged : status[h] = "pending"}
  /\ stale' # {}
  /\ at' = [at EXCEPT ![Sweeper] = "selected"]
  /\ UNCHANGED <<ledgerVars, balanceVars, cacheVars, reqVars,
                 snap, due, missed, crashes, syncVars>>

(* The bulk UPDATE waits for locked entries, then writes every selected    *)
(* id, whatever has become of it.  The balance is not touched.             *)
SweepVoid_NoReconcile ==
  /\ at[Sweeper] = "selected" /\ \A h \in stale : EntryFree(h)
  /\ status' = [h \in Hold |-> IF h \in stale THEN "voided" ELSE status[h]]
  /\ paid' = [h \in Hold |-> IF h \in stale THEN 0 ELSE paid[h]]
  /\ stak' = [h \in Hold |-> IF h \in stale THEN 0 ELSE stak[h]]
  /\ expired' = expired \cup stale
  /\ due' = due \cup stale
  /\ stale' = {}
  /\ at' = [at EXCEPT ![Sweeper] = "idle"]
  /\ UNCHANGED <<balanceVars, cacheVars, reqVars, snap, missed, crashes, syncVars>>

SweepVoid ==
  /\ at[Sweeper] = "selected" /\ \A h \in stale : EntryFree(h)
  /\ status' = [h \in Hold |-> IF h \in stale THEN "voided" ELSE status[h]]
  /\ paid' = [h \in Hold |-> IF h \in stale THEN 0 ELSE paid[h]]
  /\ stak' = [h \in Hold |-> IF h \in stale THEN 0 ELSE stak[h]]
  /\ expired' = expired \cup stale
  /\ due' = due \cup stale
  /\ stale' = {}
  /\ at' = [at EXCEPT ![Sweeper] = "voided"]
  /\ UNCHANGED <<balanceVars, cacheVars, reqVars, snap, missed, crashes, syncVars>>

(* reconcile_all_balances: sum the pending holds, without a lock ...       *)
SumHolds(k) ==
  /\ at[k] = IF k = Sweeper THEN "voided" ELSE "idle"
  /\ snap' = [snap EXCEPT ![k] = [h \in Hold |-> Pending(h)]]
  /\ at' = [at EXCEPT ![k] = "summed"]
  /\ UNCHANGED <<ledgerVars, balanceVars, cacheVars, reqVars,
                 stale, due, missed, crashes, syncVars>>

(* ... then lock the balance row and write the sum if it differs.          *)
WriteHolds(k) ==
  /\ at[k] = "summed" /\ RowFree
  /\ held' = snap[k]
  /\ cache' = IF SumFunction(held) # SumFunction(snap[k]) THEN {} ELSE cache
  /\ at' = [at EXCEPT ![k] = "idle"]
  /\ missed' = {h \in Hold : snap[k][h] # Pending(h)}
  /\ due' = due \cap missed'
  /\ snap' = [snap EXCEPT ![k] = None]
  /\ UNCHANGED <<ledgerVars, charged, drawn, daily, staker, overage, reading,
                 reqVars, stale, crashes, syncVars>>

(* The reconciler raises, or its process dies, between two of its steps.   *)
ReconcilerDies(k) ==
  /\ at[k] # "idle" /\ crashes < MaxCrash
  /\ at' = [at EXCEPT ![k] = "idle"]
  /\ stale' = IF k = Sweeper THEN {} ELSE stale
  /\ snap' = [snap EXCEPT ![k] = None]
  /\ crashes' = crashes + 1
  /\ UNCHANGED <<ledgerVars, balanceVars, cacheVars, reqVars,
                 due, missed, syncVars>>

------------------------------------------------------------------------------
(* The rest of the account.                                                *)

(* run_daily_sync: the allowance is set, not added to.                     *)
StakingSync ==
  /\ syncs < MaxSync /\ RowFree
  /\ \E amount \in {0, Grant} : daily' = amount /\ staker' = (amount > 0)
  /\ drawn' = None
  /\ cache' = {}
  /\ reset' = {h \in Hold : status[h] # "absent"}
  /\ syncs' = syncs + 1
  /\ UNCHANGED <<ledgerVars, held, charged, overage, reading, reqVars, recVars>>

(* set_allow_overage                                                       *)
SetOverage ==
  /\ RowFree
  /\ overage' = ~overage
  /\ cache' = {}
  /\ UNCHANGED <<ledgerVars, held, charged, drawn, daily, staker, reading,
                 reqVars, recVars, syncVars>>

(* get_or_create_balance by any other reader: a miss reads the row, and    *)
(* caches it in a later step; the 30 s of a cached balance run out.        *)
ReadMiss ==
  /\ cache = {}
  /\ reading' = {Row}
  /\ UNCHANGED <<ledgerVars, balanceVars, cache, reqVars, recVars, syncVars>>

CacheSet ==
  /\ reading # {}
  /\ cache' = reading /\ reading' = {}
  /\ UNCHANGED <<ledgerVars, balanceVars, reqVars, recVars, syncVars>>

CacheExpire ==
  /\ cache # {}
  /\ cache' = {}
  /\ UNCHANGED <<ledgerVars, balanceVars, reading, reqVars, recVars, syncVars>>

------------------------------------------------------------------------------
Settle(h) ==
  \/ \E next \in {"held", "done"} : HoldCommit(h, next)
  \/ \E next \in {"voiding", "done"} : FinalizeCommit(h, next)
  \/ FinalizeFails(h) \/ Void(h) \/ VoidRefused(h) \/ RequestDies(h)

RequestNext(h) ==
  \/ \E c \in Amount : HoldLock(h, c) \/ FinalizeLock(h, c)
  \/ Fail(h)
  \/ Settle(h)

SweepNext == SweepSelect \/ SweepVoid \/ SumHolds(Sweeper) \/ WriteHolds(Sweeper)

Next ==
  \/ \E h \in Hold : RequestNext(h) \/ Age(h)
  \/ SweepNext
  \/ \E k \in Admin : SumHolds(k) \/ WriteHolds(k)
  \/ \E k \in Reconciler : ReconcilerDies(k)
  \/ StakingSync \/ SetOverage
  \/ ReadMiss \/ CacheSet \/ CacheExpire

Spec == Init /\ [][Next]_vars

(* Time passes, the elected replica keeps sweeping, and a transaction that *)
(* has started ends, by commit or rollback.  No request has to settle.     *)
Fairness ==
  /\ WF_vars(SweepNext)
  /\ \A h \in Hold : WF_vars(Age(h)) /\ WF_vars(Settle(h))

LiveSpec == Spec /\ Fairness

------------------------------------------------------------------------------
(* Properties.                                                             *)

(* The posted balance is debited by the entries that are posted charges    *)
(* and by no other, once each, at the amount the ledger shows, whichever   *)
(* of finalize, void, cancellation and sweep meet on the entry.  The one   *)
(* exception is a charge the sweep has turned into a voided hold.          *)
ChargeExact ==
  \A h \in Hold :
    IF status[h] = "posted" THEN charged[h] = paid[h]
    ELSE charged[h] # 0 => status[h] = "voided" /\ h \in expired

(* paid_pending_holds is what the ledger says is pending: no interleaving  *)
(* of holds, settlements and cancellations leaks or releases a hold twice. *)
(* The exceptions are the two windows of reconciliation: between the bulk  *)
(* void and the write, and entries that changed between the sum and it.    *)
HoldsExact == \A h \in Hold \ (due \cup missed) : held[h] = Pending(h)

(* An entry that is not voided draws its staking part from the allowance   *)
(* of the day, a voided one draws nothing, unless the sweep voided it or   *)
(* the daily sync came after it was created.                               *)
StakingExact ==
  \A h \in Hold \ (expired \cup reset) : drawn[h] = stak[h]

(* A hold is covered when it is committed: requests of the same account on *)
(* any replica cannot reserve the same credit, although the check and the  *)
(* write are two statements.                                               *)
HoldCovered ==
  [][\A h \in Hold :
       status[h] = "absent" /\ status'[h] = "pending" => Effective' >= 0]_vars

(* The ledger keeps its promise to the requests: an entry is settled once, *)
(* except that the sweep writes what it chose, and a swept hold may still  *)
(* be charged, whichever of finalize, void and sweep come between.         *)
Ledger == INSTANCE HoldLedger
ImplementsLedger == Ledger!Spec

(* A hold whose request is gone does not stay pending for ever.            *)
AbandonedVoided ==
  \A h \in Hold :
    status[h] = "pending" /\ req[h] = "done" ~> status[h] # "pending"

(* The paid credit of a swept hold comes back, unless a reconcile is cut   *)
(* off in between: the next sweep looks at pending entries only.           *)
SweptReleased == \A h \in Hold : h \in due ~> h \notin due \/ crashes > 0

------------------------------------------------------------------------------
(* What comments of the code say, and the code does not keep.              *)

(* reconcile_balance: "Reconcile the cached balance against the ledger     *)
(* (source of truth)": what it writes is what the ledger says.             *)
ReconcileExact ==
  [][\A k \in Reconciler :
       WriteHolds(k) =>
         SumFunction(held') = SumFunction([h \in Hold |-> Pending(h)])]_vars

(* reconcile_all_balances: "Full reconciliation of paid_pending_holds AND  *)
(* staking_available pending holds": a reconciled account gives no staking *)
(* to voided entries.                                                      *)
StakingReconciled ==
  [][\A k \in Reconciler :
       WriteHolds(k) =>
         \A h \in Hold : status[h] = "voided" => drawn[h] <= 0]_vars

(* void_usage: "Cannot void a posted entry".                               *)
PostedIsFinal ==
  [][\A h \in Hold : status[h] = "posted" => status'[h] = "posted"]_vars

(* run_daily_sync: "Reset staking_available to daily_amount (doesn't       *)
(* accumulate)": there is never more than one day's allowance.             *)
StakingNoRollover == StakingAvailable <= daily

------------------------------------------------------------------------------
(* The inductive invariant behind the theorems of Billing_proofs.          *)

(* Until its entry is inserted a request has touched no bucket and is in   *)
(* no sum; until it finalizes it is charged nothing; a voided entry shows  *)
(* no amounts.                                                             *)
EntryInv ==
  \A h \in Hold :
    /\ req[h] \in {"new", "holding"} => status[h] = "absent"
    /\ req[h] \in {"held", "finalizing"} => status[h] \in {"pending", "voided"}
    /\ status[h] = "absent" =>
         /\ paid[h] = 0 /\ stak[h] = 0 /\ held[h] = 0 /\ drawn[h] = 0
         /\ h \notin aged \cup stale
         /\ \A k \in Reconciler : snap[k][h] = 0
    /\ status[h] = "voided" => paid[h] = 0 /\ stak[h] = 0
    /\ req[h] \in {"new", "holding", "held", "finalizing"} => charged[h] = 0

(* What a split takes out of the amount it was checked against.            *)
Demand(h) ==
  IF ~(staker \/ daily > 0) THEN plan[h].paid
  ELSE IF overage THEN plan[h].paid + plan[h].stak
  ELSE plan[h].stak

(* The balance row has one holder at most, and what it is about to reserve *)
(* is still there.                                                         *)
CoverInv ==
  \A h \in Hold : req[h] = "holding" =>
    /\ \A i \in Hold : req[i] = "holding" => i = h
    /\ Effective >= Demand(h)

(* While its request has not settled it, only the sweep has voided a hold. *)
SweptInv ==
  \A h \in Hold :
    req[h] \in {"held", "finalizing"} /\ status[h] = "voided" => h \in expired

IInv == TypeOK /\ EntryInv /\ ChargeExact /\ HoldsExact /\ StakingExact
=============================================================================
