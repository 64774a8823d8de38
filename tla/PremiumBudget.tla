---------------------------- MODULE PremiumBudget ----------------------------
(***************************************************************************)
(* The daily premium budget (_ensure_premium_budget_allows_open): an open  *)
(* reads the day's daylock counter, then sums the stake of the rows that   *)
(* are OPEN or CLOSING, and goes on when the two are below the budget.     *)
(* Meanwhile closers move sessions from the rows to the counter, in Redis  *)
(* or, while Redis is down, in a dictionary of their own replica.          *)
(*                                                                         *)
(* Stakes and daylocks are counted in units of the largest stake the fuse  *)
(* allows: a session weighs one unit, or none after a close that daylocked *)
(* nothing.  One UTC day, one premium model.                               *)
(***************************************************************************)
EXTENDS Naturals, FiniteSets

CONSTANTS
  Opener, Replica, At,  \* At[o]: the replica that runs o
  Session,
  Budget                \* SESSION_PREMIUM_DAILY_BUDGET_MOR, in units

ASSUME BudgetAssumption ==
  /\ At \in [Opener -> Replica] /\ Budget \in Nat \ {0}
  /\ IsFiniteSet(Opener) /\ IsFiniteSet(Session)

VARIABLES
  pc,       \* where each open stands
  counted,  \* counted[o]: the sessions in the counter o has just read
  flight,   \* flight[o]: the session o opened and has not inserted
  row,      \* routed_sessions.state; "gone" for CLOSED, FAILED, EXPIRED
  blank,    \* rows whose stake_mor is NULL: the status read failed
  stray,    \* paid sessions that never got a row
  metered,  \* rows with daylock_mor
  free,     \* sessions whose stake came back: daylock 0
  redis, redisUp,  \* the shared counter, and whether it answers
  local,    \* local[r]: _premium_daylock_local of replica r
  unseen    \* history: sessions a passing gate could not have seen

rowVars == <<row, blank, stray>>
meterVars == <<metered, free, redis, local>>
vars == <<pc, counted, flight, rowVars, meterVars, redisUp, unseen>>

TypeOK ==
  /\ pc \in [Opener -> {"idle", "reading", "summing", "cleared"}]
  /\ counted \in [Opener -> SUBSET Session]
  /\ flight \in [Opener -> SUBSET Session]
  /\ row \in [Session -> {"absent", "OPEN", "CLOSING", "gone"}]
  /\ blank \in SUBSET Session /\ stray \in SUBSET Session
  /\ metered \in SUBSET Session /\ free \in SUBSET Session
  /\ redis \in SUBSET Session /\ redisUp \in BOOLEAN
  /\ local \in [Replica -> SUBSET Session]
  /\ unseen \in SUBSET Session

Init ==
  /\ pc = [o \in Opener |-> "idle"]
  /\ counted = [o \in Opener |-> {}]
  /\ flight = [o \in Opener |-> {}]
  /\ row = [s \in Session |-> "absent"]
  /\ blank = {} /\ stray = {} /\ metered = {} /\ free = {}
  /\ redis = {} /\ redisUp = TRUE
  /\ local = [r \in Replica |-> {}]
  /\ unseen = {}

InFlight == UNION {flight[o] : o \in Opener}
Paid == {s \in Session : row[s] # "absent"} \cup InFlight \cup stray

(* What the wallet has at stake today.                                     *)
Exposed == Paid \ free

------------------------------------------------------------------------------
(* The gate.                                                               *)

Goto(o, l) == pc' = [pc EXCEPT ![o] = l]

Start(o) ==
  /\ pc[o] = "idle"
  /\ Goto(o, "reading")
  /\ UNCHANGED <<counted, flight, rowVars, meterVars, redisUp, unseen>>

(* _get_premium_daylock_spent                                              *)
ReadSpent(o) ==
  /\ pc[o] = "reading"
  /\ counted' = [counted EXCEPT ![o] = IF redisUp THEN redis ELSE local[At[o]]]
  /\ Goto(o, "summing")
  /\ UNCHANGED <<flight, rowVars, meterVars, redisUp, unseen>>

(* _sum_premium_open_stake_mor: 0 when the query fails.                    *)
Held_OpenOnly == {s \in Session : row[s] = "OPEN"} \ blank
Held == {s \in Session : row[s] \in {"OPEN", "CLOSING"}} \ blank
Sum(ok) == IF ok THEN Cardinality(Held) ELSE 0

Refused(o) ==
  /\ pc[o] = "summing"
  /\ \E ok \in BOOLEAN : Cardinality(counted[o]) + Sum(ok) >= Budget
  /\ Goto(o, "idle")
  /\ counted' = [counted EXCEPT ![o] = {}]
  /\ UNCHANGED <<flight, rowVars, meterVars, redisUp, unseen>>

(* No sum of the two reads can show these: without a row, without a stake, *)
(* retired before they were metered, metered elsewhere or between the two  *)
(* reads, or everything when the query fails.                              *)
Unseen(o, ok) ==
  {s \in Exposed \ (counted[o] \cup InFlight) :
     ~ok \/ row[s] \in {"absent", "gone"} \/ s \in blank}

Cleared(o, ok) ==
  /\ pc[o] = "summing"
  /\ Cardinality(counted[o]) + Sum(ok) < Budget
  /\ unseen' = unseen \cup Unseen(o, ok)
  /\ Goto(o, "cleared")
  /\ counted' = [counted EXCEPT ![o] = {}]
  /\ UNCHANGED <<flight, rowVars, meterVars, redisUp>>

------------------------------------------------------------------------------
(* The open and its row.                                                   *)

Opened(o, s) ==
  /\ pc[o] = "cleared" /\ flight[o] = {} /\ s \notin Paid
  /\ flight' = [flight EXCEPT ![o] = {s}]
  /\ UNCHANGED <<pc, counted, rowVars, meterVars, redisUp, unseen>>

(* A lost answer, a missing id, a failed insert, a cancelled request.      *)
Strays(o) ==
  /\ pc[o] = "cleared"
  /\ stray' = stray \cup flight[o]
  /\ flight' = [flight EXCEPT ![o] = {}]
  /\ Goto(o, "idle")
  /\ UNCHANGED <<counted, row, blank, meterVars, redisUp, unseen>>

Insert(o, s, known) ==
  /\ s \in flight[o]
  /\ row' = [row EXCEPT ![s] = "OPEN"]
  /\ blank' = IF known THEN blank ELSE blank \cup {s}
  /\ flight' = [flight EXCEPT ![o] = {}]
  /\ Goto(o, "idle")
  /\ UNCHANGED <<counted, stray, meterVars, redisUp, unseen>>

------------------------------------------------------------------------------
(* Closing and metering.                                                   *)

(* _close_session marks the row CLOSING.                                   *)
BeginClose(s) ==
  /\ row[s] = "OPEN"
  /\ row' = [row EXCEPT ![s] = "CLOSING"]
  /\ UNCHANGED <<pc, counted, flight, blank, stray, meterVars, redisUp, unseen>>

(* CLOSED after the meter, FAILED by an error, without one.  An invalidated*)
(* or expired row leaves the sum at once, and is metered later.            *)
Retire(s) ==
  /\ row[s] \in {"OPEN", "CLOSING"}
  /\ row' = [row EXCEPT ![s] = "gone"]
  /\ UNCHANGED <<pc, counted, flight, blank, stray, meterVars, redisUp, unseen>>

(* What a close locks, in units: the receipt, or a share of the stake by   *)
(* the time left of it; nothing when the stake came back.                  *)
Daylock == {0, 1}

(* _record_daylock_on_close for the daylock d, then                        *)
(* _add_premium_daylock_spent: always in the dictionary of replica r, and  *)
(* in Redis when it answers.                                               *)
Meter(r, s, d) ==
  /\ row[s] \in {"CLOSING", "gone"} /\ s \notin metered
  /\ metered' = metered \cup {s}
  /\ IF d = 0
       THEN free' = free \cup {s} /\ UNCHANGED <<redis, local>>
       ELSE /\ local' = [local EXCEPT ![r] = @ \cup {s}]
            /\ redis' = IF redisUp THEN redis \cup {s} ELSE redis
            /\ UNCHANGED free
  /\ UNCHANGED <<pc, counted, flight, rowVars, redisUp, unseen>>

RedisToggles ==
  /\ redisUp' = ~redisUp
  /\ UNCHANGED <<pc, counted, flight, rowVars, meterVars, unseen>>

Next ==
  \/ \E o \in Opener :
       \/ Start(o) \/ ReadSpent(o) \/ Refused(o) \/ Strays(o)
       \/ \E ok \in BOOLEAN : Cleared(o, ok)
       \/ \E s \in Session : Opened(o, s)
       \/ \E s \in Session, known \in BOOLEAN : Insert(o, s, known)
  \/ \E s \in Session :
       \/ BeginClose(s) \/ Retire(s)
       \/ \E r \in Replica, d \in Daylock : Meter(r, s, d)
  \/ RedisToggles

Spec == Init /\ [][Next]_vars

------------------------------------------------------------------------------
(* Properties.                                                             *)

(* The budget is overshot by the opens that were cleared together, one     *)
(* each, and by what a gate cannot see; by nothing else.                   *)
BudgetBound ==
  Cardinality(Exposed) < Budget + Cardinality(Opener) + Cardinality(unseen)

(* Together with the types these are inductive: an open that is cleared    *)
(* has at most one session in flight, and what the gates can see leaves    *)
(* room for one session of every open that is cleared.                     *)
Flights == \A o \in Opener :
  /\ flight[o] # {} => pc[o] = "cleared"
  /\ \A s, t \in flight[o] : s = t
Going == {o \in Opener : pc[o] = "cleared"}
Seen == Exposed \ (InFlight \cup unseen)
Margin == Cardinality(Seen) + Cardinality(Going) < Budget + Cardinality(Opener)
IInv == TypeOK /\ Flights /\ Margin

(* "Cannot meter - fail closed": no premium open is cleared on a counter   *)
(* that Redis did not answer.                                              *)
FailsClosed == [][\A o \in Opener :
  pc[o] = "reading" /\ pc'[o] = "summing" => redisUp]_vars
=============================================================================
