------------------------------ MODULE OpenWalk ------------------------------
(***************************************************************************)
(* Opening a paid session (_open_session_for_model): the lane gates, the   *)
(* frozen list of healthy bids, the walk over it with its omit set and the *)
(* replica's provider cool-off, and _run_onchain, which lets operations    *)
(* run freely until a nonce conflict and then sends them through the       *)
(* replica's wallet lock.  One model; what the session is used for is      *)
(* SessionPool's, what the premium gate reads is PremiumBudget's.          *)
(***************************************************************************)
EXTENDS Naturals, FiniteSets

CONSTANTS
  Opener,       \* requests and automation cycles that open a session
  Replica, At,  \* At[o]: the replica that runs o
  Bid,          \* the rated bids of the model
  Provider, NoProvider,
  BidProvider,  \* BidProvider[b]: its provider, NoProvider when unnamed
  Price,        \* Price[b]: its rank by price
  Session,      \* the ids the chain can hand out
  MaxAttempts   \* SESSION_OPEN_BID_WALK_MAX_ATTEMPTS

ASSUME WalkAssumption ==
  /\ At \in [Opener -> Replica]
  /\ NoProvider \notin Provider
  /\ BidProvider \in [Bid -> Provider \cup {NoProvider}]
  /\ Price \in [Bid -> Nat]
  /\ \A b, c \in Bid : Price[b] = Price[c] => b = c
  /\ MaxAttempts \in Nat \ {0}

VARIABLES
  pc,        \* where each open stands
  rest,      \* rest[o]: the candidates the walk has not reached
  tried,     \* tried[o]: the bids this open has called
  omitted,   \* omitted[o]: providers this open will not call (again)
  cool,      \* cool[r]: providers on cool-off at replica r
  throttled, \* replicas inside the throttle window
  lock,      \* lock[r]: who holds the wallet lock of r
  onchain,   \* sessions open on chain
  got,       \* got[o]: the session answered to o, its row not inserted
  rows,      \* sessions with a row
  orphans    \* history: paid sessions nobody will record

walkVars == <<rest, tried, omitted>>
paidVars == <<onchain, got, rows, orphans>>
vars == <<pc, walkVars, cool, throttled, lock, paidVars>>

PC == {"idle", "gates", "listing", "walking", "direct", "settling",
       "waiting", "locked", "inserting"}

TypeOK ==
  /\ pc \in [Opener -> PC]
  /\ rest \in [Opener -> SUBSET Bid]
  /\ tried \in [Opener -> SUBSET Bid]
  /\ omitted \in [Opener -> SUBSET Provider]
  /\ cool \in [Replica -> SUBSET Provider]
  /\ throttled \in SUBSET Replica
  /\ lock \in [Replica -> SUBSET Opener]
  /\ onchain \in SUBSET Session
  /\ got \in [Opener -> SUBSET Session]
  /\ rows \in SUBSET Session
  /\ orphans \in SUBSET Session

Init ==
  /\ pc = [o \in Opener |-> "idle"]
  /\ rest = [o \in Opener |-> {}]
  /\ tried = [o \in Opener |-> {}]
  /\ omitted = [o \in Opener |-> {}]
  /\ cool = [r \in Replica |-> {}]
  /\ throttled = {}
  /\ lock = [r \in Replica |-> {}]
  /\ onchain = {} /\ rows = {} /\ orphans = {}
  /\ got = [o \in Opener |-> {}]

Goto(o, l) == pc' = [pc EXCEPT ![o] = l]
Named(b) == {BidProvider[b]} \ {NoProvider}

(* The open is over, however it ended.                                     *)
Reset(o) ==
  /\ Goto(o, "idle")
  /\ rest' = [rest EXCEPT ![o] = {}]
  /\ tried' = [tried EXCEPT ![o] = {}]
  /\ omitted' = [omitted EXCEPT ![o] = {}]

(* async with self._wallet_lock: left by a return and by any exception.    *)
Unlock_OnSuccess(o, ok) ==
  lock' = IF ok THEN [lock EXCEPT ![At[o]] = @ \ {o}] ELSE lock
Unlock(o, ok) == lock' = [lock EXCEPT ![At[o]] = @ \ {o}]

------------------------------------------------------------------------------
(* Gates and candidates.                                                   *)

(* om: the provider chat failover wants avoided.                           *)
Start(o, om) ==
  /\ pc[o] = "idle"
  /\ Goto(o, "gates")
  /\ omitted' = [omitted EXCEPT ![o] = om]
  /\ UNCHANGED <<rest, tried, cool, throttled, lock, paidVars>>

PassGates(o) ==
  /\ pc[o] = "gates"
  /\ Goto(o, "listing")
  /\ UNCHANGED <<walkVars, cool, throttled, lock, paidVars>>

(* Allowlist, soft cap, low water (a cached balance), price, budget.       *)
Refused(o) ==
  /\ pc[o] = "gates"
  /\ Reset(o)
  /\ UNCHANGED <<cool, throttled, lock, paidVars>>

(* Rated, healthy on active.mor.org, not of the omitted provider and under *)
(* the stake fuse: B is frozen for this open.                              *)
List(o, B) ==
  /\ pc[o] = "listing" /\ B # {}
  /\ \A b \in B : Named(b) \cap omitted[o] = {}
  /\ rest' = [rest EXCEPT ![o] = B]
  /\ Goto(o, "walking")
  /\ UNCHANGED <<tried, omitted, cool, throttled, lock, paidVars>>

(* No bid, no healthy bid, or none under the fuse.                         *)
NoBids(o) ==
  /\ pc[o] = "listing"
  /\ Reset(o)
  /\ UNCHANGED <<cool, throttled, lock, paidVars>>

------------------------------------------------------------------------------
(* The walk.                                                               *)

Open_ForgetsOmitted(o, b) == Named(b) \cap cool[At[o]] = {}
Open(o, b) == Named(b) \cap (omitted[o] \cup cool[At[o]]) = {}

(* The cheapest candidate left that is neither omitted nor cooling.        *)
NextBid(o, b) ==
  /\ b \in rest[o] /\ Open(o, b)
  /\ \A c \in rest[o] : Open(o, c) => Price[b] <= Price[c]

(* openSessionByBid through _run_onchain: at once, or by way of the lock.  *)
Call(o, b) ==
  /\ pc[o] = "walking"
  /\ Cardinality(tried[o]) < MaxAttempts
  /\ NextBid(o, b)
  /\ tried' = [tried EXCEPT ![o] = @ \cup {b}]
  /\ rest' = [rest EXCEPT ![o] = {c \in @ : Price[c] > Price[b]}]
  /\ Goto(o, IF At[o] \in throttled THEN "waiting" ELSE "direct")
  /\ UNCHANGED <<omitted, cool, throttled, lock, paidVars>>

(* The list is exhausted, all of it cools off, or the attempts are spent.  *)
GiveUp(o) ==
  /\ pc[o] = "walking"
  /\ \/ Cardinality(tried[o]) >= MaxAttempts
     \/ \A b \in rest[o] : ~Open(o, b)
  /\ Reset(o)
  /\ UNCHANGED <<cool, throttled, lock, paidVars>>

Acquire_NoLock(o) ==
  /\ pc[o] = "waiting"
  /\ lock' = [lock EXCEPT ![At[o]] = @ \cup {o}]
  /\ Goto(o, "locked")
  /\ UNCHANGED <<walkVars, cool, throttled, paidVars>>
Acquire(o) ==
  /\ pc[o] = "waiting" /\ lock[At[o]] = {}
  /\ lock' = [lock EXCEPT ![At[o]] = {o}]
  /\ Goto(o, "locked")
  /\ UNCHANGED <<walkVars, cool, throttled, paidVars>>

InCall(o) == pc[o] \in {"direct", "locked"}

(* The chain opened s and the answer says so.                              *)
Answered(o, s) ==
  /\ InCall(o) /\ s \notin onchain
  /\ onchain' = onchain \cup {s}
  /\ got' = [got EXCEPT ![o] = {s}]
  /\ Goto(o, "inserting")
  /\ Unlock(o, TRUE)
  /\ UNCHANGED <<walkVars, cool, throttled, rows, orphans>>

(* The chain opened s, the answer is lost, and _execute_request repeats    *)
(* the POST: a second session.                                             *)
AnswerLost(o, s) ==
  /\ InCall(o) /\ s \notin onchain
  /\ onchain' = onchain \cup {s}
  /\ orphans' = orphans \cup {s}
  /\ UNCHANGED <<pc, walkVars, cool, throttled, lock, got, rows>>

(* An error the patterns of _is_open_bid_walk_retryable match: this        *)
(* provider is done for this open, and cools off for the replica's others. *)
Impaired(o) ==
  /\ InCall(o)
  /\ \E b \in tried[o] :
       /\ \A c \in tried[o] : Price[c] <= Price[b]
       /\ omitted' = [omitted EXCEPT ![o] = @ \cup Named(b)]
       /\ cool' = [cool EXCEPT ![At[o]] = @ \cup Named(b)]
  /\ Goto(o, "walking")
  /\ Unlock(o, FALSE)
  /\ UNCHANGED <<rest, tried, throttled, paidVars>>

(* Any other error ends the open; so does a second nonce conflict.         *)
Fatal(o) ==
  /\ InCall(o)
  /\ Reset(o)
  /\ Unlock(o, FALSE)
  /\ UNCHANGED <<cool, throttled, paidVars>>

(* The answer carries no session id: nobody knows what was opened.         *)
NoSessionId(o, s) ==
  /\ InCall(o) /\ s \notin onchain
  /\ onchain' = onchain \cup {s}
  /\ orphans' = orphans \cup {s}
  /\ Reset(o)
  /\ Unlock(o, FALSE)
  /\ UNCHANGED <<cool, throttled, got, rows>>

(* The wallet has no nonce lock in the C-Node: an operation of this replica*)
(* or of another collided.  One retry, serialised, after a short sleep.    *)
NonceConflict(o) ==
  /\ pc[o] = "direct"
  /\ throttled' = throttled \cup {At[o]}
  /\ Goto(o, "settling")
  /\ UNCHANGED <<walkVars, cool, lock, paidVars>>

Settle(o) ==
  /\ pc[o] = "settling"
  /\ Goto(o, "waiting")
  /\ UNCHANGED <<walkVars, cool, throttled, lock, paidVars>>

------------------------------------------------------------------------------
(* The row.                                                                *)

(* The status read in between is best effort and never blocks the insert.  *)
Insert(o) ==
  /\ pc[o] = "inserting"
  /\ rows' = rows \cup got[o]
  /\ got' = [got EXCEPT ![o] = {}]
  /\ Reset(o)
  /\ UNCHANGED <<cool, throttled, lock, onchain, orphans>>

InsertFails_WalkOn(o) ==
  /\ pc[o] = "inserting"
  /\ Goto(o, "walking")
  /\ got' = [got EXCEPT ![o] = {}]
  /\ UNCHANGED <<walkVars, cool, throttled, lock, onchain, rows, orphans>>
InsertFails(o) ==
  /\ pc[o] = "inserting"
  /\ orphans' = orphans \cup got[o]
  /\ got' = [got EXCEPT ![o] = {}]
  /\ Reset(o)
  /\ UNCHANGED <<cool, throttled, lock, onchain, rows>>

(* The opener is cancelled: the client left, or the process stops.         *)
Cancel(o) ==
  /\ pc[o] # "idle"
  /\ orphans' = orphans \cup got[o]
  /\ got' = [got EXCEPT ![o] = {}]
  /\ Reset(o)
  /\ Unlock(o, FALSE)
  /\ UNCHANGED <<cool, throttled, onchain, rows>>

(* Cool-off and throttle windows end by the clock.                         *)
CoolOffEnds(r, p) ==
  /\ p \in cool[r]
  /\ cool' = [cool EXCEPT ![r] = @ \ {p}]
  /\ UNCHANGED <<pc, walkVars, throttled, lock, paidVars>>

ThrottleEnds(r) ==
  /\ r \in throttled
  /\ throttled' = throttled \ {r}
  /\ UNCHANGED <<pc, walkVars, cool, lock, paidVars>>

(* Steps the code takes by itself; a call ends by answer, error or timeout.*)
CallReturns(o) ==
  \/ \E s \in Session : Answered(o, s) \/ NoSessionId(o, s)
  \/ Impaired(o) \/ Fatal(o) \/ NonceConflict(o)

OpenerStep(o) ==
  \/ PassGates(o) \/ Refused(o) \/ NoBids(o)
  \/ \E B \in SUBSET Bid : List(o, B)
  \/ \E b \in Bid : Call(o, b)
  \/ GiveUp(o) \/ CallReturns(o) \/ Settle(o) \/ Insert(o) \/ InsertFails(o)

Next ==
  \/ \E o \in Opener :
       \/ \E p \in Provider : Start(o, {p})
       \/ Start(o, {})
       \/ OpenerStep(o) \/ Acquire(o) \/ Cancel(o)
       \/ \E s \in Session : AnswerLost(o, s)
  \/ \E r \in Replica : ThrottleEnds(r) \/ \E p \in Provider : CoolOffEnds(r, p)

Spec == Init /\ [][Next]_vars

(* Coroutines run, calls time out; asyncio.Lock wakes waiters in order, so *)
(* an opener that waits for it again and again gets it.                    *)
Fairness ==
  \A o \in Opener : WF_vars(OpenerStep(o)) /\ SF_vars(Acquire(o))
FairSpec == Spec /\ Fairness

------------------------------------------------------------------------------
(* Properties.                                                             *)

(* No ping-pong: within one open no provider is called twice, whatever     *)
(* cools off or recovers meanwhile, and no more than MaxAttempts are.      *)
NoPingPong ==
  \A o \in Opener :
    /\ \A b, c \in tried[o] : b # c => Named(b) \cap Named(c) = {}
    /\ Cardinality(tried[o]) <= MaxAttempts

(* An opener does not start a call to a provider that another opener of    *)
(* its replica has just found impaired.                                    *)
CoolOffHeld ==
  [][\A o \in Opener : \A b \in tried'[o] \ tried[o] :
       Named(b) \cap cool[At[o]] = {}]_vars

(* Once serialised, the operations of a replica run one at a time; only    *)
(* operations let through before, or another replica's, overlap with them. *)
SerialAlone ==
  \A o, q \in Opener :
    pc[o] = "locked" /\ pc[q] = "locked" /\ At[o] = At[q] => o = q

(* Every paid session has a row, or an opener about to insert it, unless   *)
(* its answer was lost, had no id, or its insert failed or was cut off.    *)
PaidIsKnown ==
  \A s \in onchain : s \in rows \cup orphans \/ \E o \in Opener : s \in got[o]

(* Every open ends: no exception leaves the wallet lock taken.             *)
OpenEnds == \A o \in Opener : pc[o] # "idle" ~> pc[o] = "idle"

(* Together with the types these are inductive.                            *)
LockOwned ==
  \A o \in Opener, r \in Replica :
    o \in lock[r] <=> pc[o] = "locked" /\ At[o] = r
GotHeld == \A o \in Opener : pc[o] # "inserting" => got[o] = {}

(* What is tried is cheaper than what is left, and all of it but the call  *)
(* under way is omitted.                                                   *)
WalkOrder ==
  \A o \in Opener :
    /\ pc[o] \in {"idle", "gates", "listing"} => tried[o] = {}
    /\ \A b \in tried[o], c \in rest[o] : Price[b] < Price[c]
    /\ \A b, c \in tried[o] : Price[b] < Price[c] => Named(b) \subseteq omitted[o]
    /\ pc[o] = "walking" => \A b \in tried[o] : Named(b) \subseteq omitted[o]
    /\ IsFiniteSet(tried[o])

IInv ==
  /\ TypeOK /\ LockOwned /\ GotHeld /\ SerialAlone /\ PaidIsKnown
  /\ WalkOrder /\ NoPingPong
=============================================================================
