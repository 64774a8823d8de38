----------------------------- MODULE SessionPool -----------------------------
(***************************************************************************)
(* The request path of services/session_routing_service.py: the rows of    *)
(* table routed_sessions, the paid sessions on chain behind them, the      *)
(* requests that claim, open, invalidate and release them (route_request,  *)
(* _claim_idle_session, _open_session_for_model, invalidate_session,       *)
(* release_session), and the background task that closes an invalidated    *)
(* session and meters its daylock.  Every await is a step boundary; every  *)
(* database transaction and every proxy-router call is one step.           *)
(*                                                                         *)
(* A session id is a name the chain hands out.  Its model and provider are *)
(* fixed when it is opened, so they are constant functions of the id.      *)
(***************************************************************************)
EXTENDS Naturals, FiniteSets

CONSTANTS Req,          \* concurrent chat requests, on any replica
          Warmer,       \* the automation cycle, when it opens a session
          Session,      \* the ids the chain can hand out
          Model,        \* model ids
          Provider,     \* provider addresses
          NoProvider,   \* provider_address IS NULL: the status read failed
          ModelOf,      \* ModelOf[s]: the model session s is opened for
          ProviderOf,   \* ProviderOf[s]: provider_address of the row of s
          SoftCap       \* SoftCap[m]: OPEN soft cap of model m, 0 disables it

Proc == Req \cup {Warmer}

ASSUME PoolAssumption ==
  /\ IsFiniteSet(Req)
  /\ Warmer \notin Req
  /\ NoProvider \notin Provider
  /\ ModelOf \in [Session -> Model]
  /\ ProviderOf \in [Session -> Provider \cup {NoProvider}]
  /\ SoftCap \in [Model -> Nat]

VARIABLES
  state,     \* routed_sessions.state, "absent" before the row is inserted
  active,    \* routed_sessions.active_requests
  past,      \* the rows whose expires_at lies in the past
  metered,   \* the rows with a committed daylock_mor > 0
  spent,     \* how often the daylock of s was added to the premium counter
  chain,     \* on chain: "none", "open", "closed" by the gateway, "ended"
  pc,        \* where each request, or the automation's open, stands
  want,      \* the model asked for, {} when idle
  omit,      \* the providers failover excludes
  retried,   \* the requests that used up their single retry
  opened,    \* the session open on chain whose row is not inserted yet
  slot,      \* the assignments the request's code will release
  bg,        \* _close_invalidated_session tasks
  lost       \* history: sessions whose assignment no code will release

rowVars  == <<state, active, past, metered>>
procVars == <<pc, want, omit, retried, opened, slot>>
poolVars == <<state, active, past, metered, spent, chain,
              pc, want, omit, retried, opened, slot, bg, lost>>

RowState   == {"absent", "OPEN", "CLOSING", "CLOSED", "FAILED", "EXPIRED"}
ChainState == {"none", "open", "closed", "ended"}
PC         == {"idle", "claiming", "gating", "opening", "inserting",
               "using", "leaving"}
TaskPC     == {"none", "close", "load", "loadTx", "meter", "meterTx", "commit"}

(* Type invariant.  active_requests is an Integer column; that it never    *)
(* exceeds 1 is what claim (WHERE active_requests = 0) and insert ensure.  *)
TypeOK ==
  /\ state \in [Session -> RowState]
  /\ active \in [Session -> {0, 1}]
  /\ past \in SUBSET Session
  /\ metered \in SUBSET Session
  /\ spent \in [Session -> Nat]
  /\ chain \in [Session -> ChainState]
  /\ pc \in [Proc -> PC]
  /\ want \in [Proc -> SUBSET Model]
  /\ omit \in [Proc -> SUBSET Provider]
  /\ retried \in SUBSET Req
  /\ opened \in [Proc -> SUBSET Session]
  /\ slot \in [Req -> SUBSET Session]
  /\ bg \in [Session -> TaskPC]
  /\ lost \in SUBSET Session

PoolInit ==
  /\ state = [s \in Session |-> "absent"]
  /\ active = [s \in Session |-> 0]
  /\ past = {}
  /\ metered = {}
  /\ spent = [s \in Session |-> 0]
  /\ chain = [s \in Session |-> "none"]
  /\ pc = [p \in Proc |-> "idle"]
  /\ want = [p \in Proc |-> {}]
  /\ omit = [p \in Proc |-> {}]
  /\ retried = {}
  /\ opened = [p \in Proc |-> {}]
  /\ slot = [r \in Req |-> {}]
  /\ bg = [s \in Session |-> "none"]
  /\ lost = {}

------------------------------------------------------------------------------
(* The chain and the clock.                                                *)

(* expires_at of a row passes.                                             *)
Expire(s) ==
  /\ state[s] # "absent" /\ s \notin past
  /\ past' = past \cup {s}
  /\ UNCHANGED <<state, active, metered, spent, chain, bg, lost, procVars>>

(* The proxy-router's own SessionExpiryHandler closes a session at its     *)
(* on-chain endsAt, which need not agree with expires_at of the row.       *)
ChainExpiry(s) ==
  /\ chain[s] = "open"
  /\ chain' = [chain EXCEPT ![s] = "ended"]
  /\ UNCHANGED <<rowVars, spent, bg, lost, procVars>>

(* One closeSession call.  tx: the answer carries a close transaction.     *)
(* The call may close the session and lose the answer, fail, or find the   *)
(* session closed already, which it reports as success without a tx.       *)
CloseCall(s, tx) ==
  \/ chain[s] = "open" /\ chain' = [chain EXCEPT ![s] = "closed"]
  \/ ~tx /\ UNCHANGED chain

(* _record_daylock_on_close invents no daylock before the close is shown   *)
(* by a transaction or by ClosedAt in the status.                          *)
Confirmed_Always(s, tx) == TRUE
Confirmed(s, tx) == tx \/ chain[s] \in {"closed", "ended"}

------------------------------------------------------------------------------
(* Requests.                                                               *)

(* The WHERE clause of the claim: idle, OPEN, not expired, right model,    *)
(* provider not excluded (a NULL provider stays claimable).                *)
Claimable_Shared(s, m, om) ==
  /\ state[s] = "OPEN" /\ s \notin past
  /\ ModelOf[s] = m /\ ProviderOf[s] \notin om

Claimable_Expired(s, m, om) ==
  /\ state[s] = "OPEN" /\ active[s] = 0
  /\ ModelOf[s] = m /\ ProviderOf[s] \notin om

Claimable(s, m, om) ==
  /\ state[s] = "OPEN" /\ active[s] = 0 /\ s \notin past
  /\ ModelOf[s] = m /\ ProviderOf[s] \notin om

(* A request enters route_request for model m.                             *)
Start(r, m) ==
  /\ pc[r] = "idle"
  /\ pc' = [pc EXCEPT ![r] = "claiming"]
  /\ want' = [want EXCEPT ![r] = {m}]
  /\ UNCHANGED <<rowVars, spent, chain, omit, retried, opened, slot, bg, lost>>

(* _claim_idle_session: one UPDATE ... FOR UPDATE SKIP LOCKED.             *)
Claim(r, s) ==
  /\ pc[r] = "claiming"
  /\ \E m \in want[r] : Claimable(s, m, omit[r])
  /\ active' = [active EXCEPT ![s] = @ + 1]
  /\ slot' = [slot EXCEPT ![r] = @ \cup {s}]
  /\ pc' = [pc EXCEPT ![r] = "using"]
  /\ UNCHANGED <<state, past, metered, spent, chain,
                 want, omit, retried, opened, bg, lost>>

(* The claim returned no id: go on to open a paid session.                 *)
NoIdle(r) ==
  /\ pc[r] = "claiming"
  /\ \A s \in Session, m \in want[r] : ~Claimable(s, m, omit[r])
  /\ pc' = [pc EXCEPT ![r] = "gating"]
  /\ UNCHANGED <<rowVars, spent, chain, want, omit, retried, opened, slot,
                 bg, lost>>

(* route_request fails before it holds anything: the model is unknown, the *)
(* allowlist or the price gate refuses it, or the claim raises.            *)
RouteFails(r) ==
  /\ pc[r] = "claiming"
  /\ pc' = [pc EXCEPT ![r] = "leaving"]
  /\ UNCHANGED <<rowVars, spent, chain, want, omit, retried, opened, slot,
                 bg, lost>>

------------------------------------------------------------------------------
(* Opening a session: requests, and the automation as process Warmer.      *)

OpenRows(m) == {s \in Session : state[s] = "OPEN" /\ ModelOf[s] = m}

(* _ensure_soft_cap_allows_open                                            *)
BelowSoftCap_OffByOne(m) == SoftCap[m] = 0 \/ Cardinality(OpenRows(m)) <= SoftCap[m]
BelowSoftCap(m) == SoftCap[m] = 0 \/ Cardinality(OpenRows(m)) < SoftCap[m]

PassGates(p) ==
  /\ pc[p] = "gating"
  /\ \A m \in want[p] : BelowSoftCap(m)
  /\ pc' = [pc EXCEPT ![p] = "opening"]
  /\ UNCHANGED <<rowVars, spent, chain, want, omit, retried, opened, slot,
                 bg, lost>>

(* A gate raises: the soft cap, or one of those that read balances, prices *)
(* and budgets (low water, price, premium budget, no bid under the fuse),  *)
(* whose verdict the pool cannot foresee.                                  *)
Refuse(p) ==
  /\ pc[p] = "gating"
  /\ pc' = [pc EXCEPT ![p] = "leaving"]
  /\ UNCHANGED <<rowVars, spent, chain, want, omit, retried, opened, slot,
                 bg, lost>>

Opens(p, s) ==
  /\ pc[p] = "opening"
  /\ chain[s] = "none" /\ ModelOf[s] \in want[p] /\ ProviderOf[s] \notin omit[p]
  /\ chain' = [chain EXCEPT ![s] = "open"]

(* openSessionByBid answers with the session id.                           *)
OpenOnChain(p, s) ==
  /\ Opens(p, s)
  /\ opened' = [opened EXCEPT ![p] = {s}]
  /\ pc' = [pc EXCEPT ![p] = "inserting"]
  /\ UNCHANGED <<rowVars, spent, want, omit, retried, slot, bg, lost>>

(* The open lands and its answer is lost: the proxy client repeats the     *)
(* POST, or the bid walk goes on to the next provider.                     *)
OpenLost(p, s) ==
  /\ Opens(p, s)
  /\ UNCHANGED <<rowVars, spent, procVars, bg, lost>>

(* The bid walk gives up.                                                  *)
OpenFails(p) ==
  /\ pc[p] = "opening"
  /\ pc' = [pc EXCEPT ![p] = "leaving"]
  /\ UNCHANGED <<rowVars, spent, chain, want, omit, retried, opened, slot,
                 bg, lost>>

(* A request's row is born assigned, a pre-warmed one idle.                *)
InitialActive(p) == IF p = Warmer THEN 0 ELSE 1

InsertRow(p, s) ==
  /\ pc[p] = "inserting" /\ s \in opened[p]
  /\ state' = [state EXCEPT ![s] = "OPEN"]
  /\ active' = [active EXCEPT ![s] = InitialActive(p)]
  /\ opened' = [opened EXCEPT ![p] = {}]
  /\ slot' = [r \in Req |-> IF r = p THEN slot[r] \cup {s} ELSE slot[r]]
  /\ pc' = [pc EXCEPT ![p] = IF p = Warmer THEN "leaving" ELSE "using"]
  /\ UNCHANGED <<past, metered, spent, chain, want, omit, retried, bg, lost>>

(* The insert raises: the session stays open on chain without a row.       *)
InsertFails(p) ==
  /\ pc[p] = "inserting"
  /\ opened' = [opened EXCEPT ![p] = {}]
  /\ pc' = [pc EXCEPT ![p] = "leaving"]
  /\ UNCHANGED <<rowVars, spent, chain, want, omit, retried, slot, bg, lost>>

------------------------------------------------------------------------------
(* Invalidation, and the background close it starts.                       *)

(* The request abandons the session it was using and routes once more.     *)
Reroute(r, om) ==
  /\ pc' = [pc EXCEPT ![r] = "claiming"]
  /\ omit' = [omit EXCEPT ![r] = om]
  /\ retried' = retried \cup {r}
  /\ UNCHANGED <<want, opened, slot>>

(* invalidate_session, as failover (FAILED, provider excluded) or as       *)
(* renewal (EXPIRED).  Only the call that moves the row out of OPEN starts *)
(* the background close.                                                   *)
Invalidate(r, s, to) ==
  /\ pc[r] = "using" /\ r \notin retried /\ s \in slot[r]
  /\ IF state[s] = "OPEN"
       THEN /\ state' = [state EXCEPT ![s] = to]
            /\ bg' = [bg EXCEPT ![s] = "close"]
       ELSE UNCHANGED <<state, bg>>
  /\ Reroute(r, IF to = "FAILED" THEN {ProviderOf[s]} \ {NoProvider} ELSE {})
  /\ UNCHANGED <<active, past, metered, spent, chain, lost>>

(* The UPDATE raises: invalidate_session swallows it and routing goes on   *)
(* with the row still OPEN.                                                *)
InvalidateFails(r, s, to) ==
  /\ pc[r] = "using" /\ r \notin retried /\ s \in slot[r]
  /\ Reroute(r, IF to = "FAILED" THEN {ProviderOf[s]} \ {NoProvider} ELSE {})
  /\ UNCHANGED <<rowVars, spent, chain, bg, lost>>

BgClose(s, tx) ==
  /\ bg[s] = "close"
  /\ CloseCall(s, tx)
  /\ bg' = [bg EXCEPT ![s] = IF tx THEN "loadTx" ELSE "load"]
  /\ UNCHANGED <<rowVars, spent, procVars, lost>>

(* Load the row; _record_daylock_on_close returns at once if it is metered.*)
BgLoad(s) ==
  /\ bg[s] \in {"load", "loadTx"}
  /\ bg' = [bg EXCEPT ![s] = IF s \in metered THEN "none"
                             ELSE IF @ = "loadTx" THEN "meterTx" ELSE "meter"]
  /\ UNCHANGED <<rowVars, spent, chain, procVars, lost>>

(* The daylock is added to the premium counter (Redis, or the replica's    *)
(* own when Redis fails), before the commit.                               *)
BgMeter_ReceiptOnly(s) ==
  /\ bg[s] \in {"meter", "meterTx"}
  /\ Confirmed(s, bg[s] = "meterTx")
  /\ spent' = IF bg[s] = "meterTx" THEN [spent EXCEPT ![s] = @ + 1] ELSE spent
  /\ bg' = [bg EXCEPT ![s] = "commit"]
  /\ UNCHANGED <<rowVars, chain, procVars, lost>>

BgMeter(s) ==
  /\ bg[s] \in {"meter", "meterTx"}
  /\ Confirmed(s, bg[s] = "meterTx")
  /\ spent' = [spent EXCEPT ![s] = @ + 1]
  /\ bg' = [bg EXCEPT ![s] = "commit"]
  /\ UNCHANGED <<rowVars, chain, procVars, lost>>

(* No close is confirmed, or the status could not be read.                 *)
BgSkip(s) ==
  /\ bg[s] = "meter"
  /\ bg' = [bg EXCEPT ![s] = "none"]
  /\ UNCHANGED <<rowVars, spent, chain, procVars, lost>>

BgCommit(s) ==
  /\ bg[s] = "commit"
  /\ metered' = metered \cup {s}
  /\ bg' = [bg EXCEPT ![s] = "none"]
  /\ UNCHANGED <<state, active, past, spent, chain, procVars, lost>>

(* The task dies with its process, or its commit fails.                    *)
BgDies(s) ==
  /\ bg[s] # "none"
  /\ bg' = [bg EXCEPT ![s] = "none"]
  /\ UNCHANGED <<rowVars, spent, chain, procVars, lost>>

------------------------------------------------------------------------------
(* Releasing.                                                              *)

(* The request is over: completed, failed or cancelled.                    *)
Finish(r) ==
  /\ pc[r] = "using"
  /\ pc' = [pc EXCEPT ![r] = "leaving"]
  /\ UNCHANGED <<rowVars, spent, chain, want, omit, retried, opened, slot,
                 bg, lost>>

(* release_session: decrement where active_requests > 0.                   *)
Release_Retired(r, s) ==
  /\ pc[r] = "leaving" /\ s \in slot[r]
  /\ active' = IF active[s] > 0 /\ state[s] = "OPEN"
                 THEN [active EXCEPT ![s] = @ - 1] ELSE active
  /\ slot' = [slot EXCEPT ![r] = @ \ {s}]
  /\ UNCHANGED <<state, past, metered, spent, chain,
                 pc, want, omit, retried, opened, bg, lost>>

Release(r, s) ==
  /\ pc[r] = "leaving" /\ s \in slot[r]
  /\ active' = IF active[s] > 0 THEN [active EXCEPT ![s] = @ - 1] ELSE active
  /\ slot' = [slot EXCEPT ![r] = @ \ {s}]
  /\ UNCHANGED <<state, past, metered, spent, chain,
                 pc, want, omit, retried, opened, bg, lost>>

(* The UPDATE raises: release_session logs the error and returns.          *)
ReleaseFails(r, s) ==
  /\ pc[r] = "leaving" /\ s \in slot[r]
  /\ slot' = [slot EXCEPT ![r] = @ \ {s}]
  /\ lost' = lost \cup {s}
  /\ UNCHANGED <<rowVars, spent, chain, pc, want, omit, retried, opened, bg>>

Reset(p) ==
  /\ pc' = [pc EXCEPT ![p] = "idle"]
  /\ want' = [want EXCEPT ![p] = {}]
  /\ omit' = [omit EXCEPT ![p] = {}]
  /\ retried' = retried \ {p}
  /\ opened' = [opened EXCEPT ![p] = {}]

Depart(r) ==
  /\ pc[r] = "leaving" /\ slot[r] = {}
  /\ Reset(r)
  /\ UNCHANGED <<rowVars, spent, chain, slot, bg, lost>>

(* The request disappears and nobody runs its cleanup: its process dies,   *)
(* it is cancelled inside route_request after the claim or the insert, or  *)
(* its StreamingResponse is never iterated.                                *)
Vanish(r) ==
  /\ pc[r] # "idle"
  /\ Reset(r)
  /\ lost' = lost \cup slot[r]
  /\ slot' = [slot EXCEPT ![r] = {}]
  /\ UNCHANGED <<rowVars, spent, chain, bg>>

------------------------------------------------------------------------------
RequestNext(r) ==
  \/ \E m \in Model : Start(r, m)
  \/ \E s \in Session : Claim(r, s) \/ Release(r, s) \/ ReleaseFails(r, s)
  \/ NoIdle(r) \/ RouteFails(r) \/ Finish(r) \/ Depart(r) \/ Vanish(r)
  \/ \E s \in Session, to \in {"FAILED", "EXPIRED"} :
       Invalidate(r, s, to) \/ InvalidateFails(r, s, to)

OpenNext(p) ==
  \/ PassGates(p) \/ Refuse(p) \/ OpenFails(p) \/ InsertFails(p)
  \/ \E s \in Session : OpenOnChain(p, s) \/ OpenLost(p, s) \/ InsertRow(p, s)

TaskNext(s) ==
  \/ \E tx \in BOOLEAN : BgClose(s, tx)
  \/ BgLoad(s) \/ BgMeter(s) \/ BgSkip(s) \/ BgCommit(s) \/ BgDies(s)

PoolNext ==
  \/ \E r \in Req : RequestNext(r) \/ OpenNext(r)
  \/ \E s \in Session : TaskNext(s) \/ Expire(s) \/ ChainExpiry(s)

(* The pool while no replica wins the automation's leader lock.            *)
PoolSpec == PoolInit /\ [][PoolNext]_poolVars

------------------------------------------------------------------------------
(* Properties.                                                             *)

(* Slot accounting: active_requests of a row counts the requests that will *)
(* release it, plus the assignment nobody will release any more; no path   *)
(* through claim, open, invalidate, retry and release loses or repeats one.*)
SlotAccounting ==
  \A s \in Session :
    active[s] = Cardinality({r \in Req : s \in slot[r]})
                  + (IF s \in lost THEN 1 ELSE 0)

(* "Soft by design": racing openers may overshoot the soft cap of a model, *)
(* but by no more than the openers that can pass the gate together.        *)
InFlight(m) == {p \in Proc : m \in want[p] /\ pc[p] \in {"opening", "inserting"}}
OvershootBound ==
  \A m \in Model :
    SoftCap[m] > 0 =>
      Cardinality(OpenRows(m)) + Cardinality(InFlight(m))
        < SoftCap[m] + Cardinality(Proc)

(* No daylock is charged to the premium counter for a session that is      *)
(* still open on chain, whichever closer meters it and whatever its call   *)
(* answered.                                                               *)
MeterOnlyClosed ==
  \A s \in Session : spent[s] > 0 => chain[s] \in {"closed", "ended"}

(* The premium budget is never under-counted by the row: a row that shows  *)
(* a daylock has been added to the counter, so skipping it later is safe.  *)
MeteredIsCounted == \A s \in metered : spent[s] > 0

(* The rows implement leases: exclusive, never granted again once lost,    *)
(* never granted on a session that is invalidated, closing or expired.     *)
Retired == past \cup {s \in Session : state[s] \notin {"absent", "OPEN"}}
Lease == INSTANCE SessionLease WITH
           holders <- [s \in Session |-> {r \in Req : s \in slot[r]}],
           wedged  <- lost,
           retired <- Retired
ImplementsLease == Lease!Spec
=============================================================================
