-------------------------- MODULE SessionAutomation --------------------------
(***************************************************************************)
(* The session pool together with the automation cycle of the replica that *)
(* holds the "session_automation" advisory lock (_run_automation_cycle):   *)
(* load every OPEN row, clean up the expired ones, then per model open or  *)
(* close one session.  The cycle works on the ORM objects it loaded first  *)
(* (expire_on_commit=False, and a later SELECT does not refresh them), so  *)
(* what it believes of a row may be old; what it writes are only the       *)
(* attributes it set, with WHERE id = and nothing else.                    *)
(***************************************************************************)
EXTENDS SessionPool

CONSTANTS Preferred,    \* SESSION_PREFERRED_MODELS
          MaxCrash      \* bound: how often a cycle may be cut off

ASSUME CycleAssumption == Preferred \subseteq Model /\ MaxCrash \in Nat

VARIABLES
  cyc,       \* where the cycle stands
  snap,      \* sessions_by_model: the rows loaded as OPEN
  busyObj,   \* the loaded objects with active_requests > 0
  metObj,    \* the objects with daylock_mor > 0 in memory
  expq,      \* expired sessions still to be closed by the cleanup
  dirty,     \* objects set EXPIRED in memory, not committed
  modq,      \* models still to be processed
  cur,       \* the session being closed
  crashes    \* cycles cut off so far

cycVars == <<cyc, snap, busyObj, metObj, expq, dirty, modq, cur, crashes>>
vars == <<poolVars, cycVars>>

CyclePC == {"sleep", "loaded", "cleaning", "expMeter", "expMeterTx", "models",
            "opening", "closing", "meter", "meterTx", "commit"}

CycleTypeOK ==
  /\ cyc \in CyclePC
  /\ snap \in SUBSET Session
  /\ busyObj \in SUBSET Session
  /\ metObj \in SUBSET Session
  /\ expq \in SUBSET Session
  /\ dirty \in SUBSET Session
  /\ modq \in SUBSET Model
  /\ cur \in SUBSET Session
  /\ crashes \in Nat

(* Type invariant of the pool and of the cycle.                            *)
AllTypeOK == TypeOK /\ CycleTypeOK

CycleInit ==
  /\ cyc = "sleep"
  /\ snap = {} /\ busyObj = {} /\ metObj = {} /\ expq = {}
  /\ dirty = {} /\ modq = {} /\ cur = {}
  /\ crashes = 0

Init == PoolInit /\ CycleInit

------------------------------------------------------------------------------
(* Loading and cleanup.                                                    *)

(* _get_sessions_by_model                                                  *)
CycleLoad ==
  /\ cyc = "sleep"
  /\ snap' = {s \in Session : state[s] = "OPEN"}
  /\ busyObj' = {s \in snap' : active[s] > 0}
  /\ metObj' = snap' \cap metered
  /\ cyc' = "loaded"
  /\ UNCHANGED <<poolVars, expq, dirty, modq, cur, crashes>>

(* _cleanup_expired_sessions: select the OPEN rows past expires_at,        *)
(* whatever their active_requests.                                         *)
CleanupSelect ==
  /\ cyc = "loaded"
  /\ expq' = {s \in past : state[s] = "OPEN"}
  /\ metObj' = metObj \cup ((expq' \ snap) \cap metered)
  /\ cyc' = "cleaning"
  /\ UNCHANGED <<poolVars, snap, busyObj, dirty, modq, cur, crashes>>

(* Set the object EXPIRED in memory, then await closeSession.              *)
CleanupClose(s, tx) ==
  /\ cyc = "cleaning" /\ s \in expq
  /\ CloseCall(s, tx)
  /\ expq' = expq \ {s}
  /\ dirty' = dirty \cup {s}
  /\ cur' = {s}
  /\ cyc' = IF tx THEN "expMeterTx" ELSE "expMeter"
  /\ UNCHANGED <<rowVars, spent, procVars, bg, lost,
                 snap, busyObj, metObj, modq, crashes>>

(* _record_daylock_on_close on a loaded object: skip when the object is    *)
(* metered, or when no close is confirmed or its status is unreadable.     *)
MeterObject_NoPrior(s, tx) ==
  \/ /\ Confirmed(s, tx)
     /\ spent' = [spent EXCEPT ![s] = @ + 1]
     /\ metObj' = metObj \cup {s}
  \/ /\ ~tx
     /\ UNCHANGED <<spent, metObj>>

MeterObject(s, tx) ==
  \/ /\ s \notin metObj
     /\ Confirmed(s, tx)
     /\ spent' = [spent EXCEPT ![s] = @ + 1]
     /\ metObj' = metObj \cup {s}
  \/ /\ s \in metObj \/ ~tx
     /\ UNCHANGED <<spent, metObj>>

CleanupMeter(s) ==
  /\ cyc \in {"expMeter", "expMeterTx"} /\ s \in cur
  /\ MeterObject(s, cyc = "expMeterTx")
  /\ cur' = {}
  /\ cyc' = "cleaning"
  /\ UNCHANGED <<rowVars, chain, procVars, bg, lost,
                 snap, busyObj, expq, dirty, modq, crashes>>

(* One commit at the end writes every EXPIRED state and daylock.           *)
CleanupCommit_NoState ==
  /\ cyc = "cleaning" /\ expq = {}
  /\ metered' = metered \cup (dirty \cap metObj)
  /\ dirty' = {}
  /\ modq' = {ModelOf[s] : s \in snap} \cup Preferred
  /\ cyc' = "models"
  /\ UNCHANGED <<state, active, past, spent, chain, procVars, bg, lost,
                 snap, busyObj, metObj, expq, cur, crashes>>

CleanupCommit ==
  /\ cyc = "cleaning" /\ expq = {}
  /\ state' = [s \in Session |-> IF s \in dirty THEN "EXPIRED" ELSE state[s]]
  /\ metered' = metered \cup (dirty \cap metObj)
  /\ dirty' = {}
  /\ modq' = {ModelOf[s] : s \in snap} \cup Preferred
  /\ cyc' = "models"
  /\ UNCHANGED <<active, past, spent, chain, procVars, bg, lost,
                 snap, busyObj, metObj, expq, cur, crashes>>

------------------------------------------------------------------------------
(* _process_model_sessions, on the objects of the load.                    *)

Loaded(m) == {s \in snap : ModelOf[s] = m}
IdleObjects(m) == Loaded(m) \ busyObj

(* Models with sessions come first, then preferred models without any.     *)
Turn(m) ==
  /\ cyc = "models" /\ m \in modq
  /\ Loaded(m) = {} => \A n \in modq : Loaded(n) = {}

(* A preferred model whose objects are all utilized, or that has none.     *)
ModelOpen(m) ==
  /\ Turn(m) /\ m \in Preferred /\ IdleObjects(m) = {}
  /\ pc' = [pc EXCEPT ![Warmer] = "gating"]
  /\ want' = [want EXCEPT ![Warmer] = {m}]
  /\ modq' = modq \ {m}
  /\ cyc' = "opening"
  /\ UNCHANGED <<rowVars, spent, chain, omit, retried, opened, slot, bg, lost,
                 snap, busyObj, metObj, expq, dirty, cur, crashes>>

(* The open returned or raised; an exception is logged.                    *)
ModelOpened ==
  /\ cyc = "opening" /\ pc[Warmer] = "leaving"
  /\ Reset(Warmer)
  /\ cyc' = "models"
  /\ UNCHANGED <<rowVars, spent, chain, slot, bg, lost,
                 snap, busyObj, metObj, expq, dirty, modq, cur, crashes>>

(* _close_session commits CLOSING for the most idle of the objects past    *)
(* the grace period (aged: any choice of those that are): every one of a   *)
(* plain model may go, a preferred model keeps one.                        *)
MayClose(m, aged) ==
  /\ aged \subseteq IdleObjects(m)
  /\ IF m \in Preferred THEN Cardinality(aged) > 1 ELSE aged # {}

CloseMark(m, s) ==
  /\ Turn(m)
  /\ \E aged \in SUBSET Loaded(m) : MayClose(m, aged) /\ s \in aged
  /\ state' = [state EXCEPT ![s] = "CLOSING"]
  /\ cur' = {s}
  /\ modq' = modq \ {m}
  /\ cyc' = "closing"
  /\ UNCHANGED <<active, past, metered, spent, chain, procVars, bg, lost,
                 snap, busyObj, metObj, expq, dirty, crashes>>

(* Nothing to do for the model: too few sessions idle for long enough.     *)
ModelSkip(m) ==
  /\ Turn(m)
  /\ m \in Preferred => IdleObjects(m) # {}
  /\ modq' = modq \ {m}
  /\ UNCHANGED <<poolVars, cyc, snap, busyObj, metObj, expq, dirty, cur, crashes>>

(* closeSession answers.                                                   *)
CloseOnChain(s, tx) ==
  /\ cyc = "closing" /\ s \in cur
  /\ CloseCall(s, tx)
  /\ cyc' = IF tx THEN "meterTx" ELSE "meter"
  /\ UNCHANGED <<rowVars, spent, procVars, bg, lost,
                 snap, busyObj, metObj, expq, dirty, modq, cur, crashes>>

(* closeSession raises, after the close landed or without it: FAILED.      *)
CloseFails_Unmarked(s) ==
  /\ cyc = "closing" /\ s \in cur
  /\ CloseCall(s, FALSE)
  /\ cur' = {}
  /\ cyc' = "models"
  /\ UNCHANGED <<rowVars, spent, procVars, bg, lost,
                 snap, busyObj, metObj, expq, dirty, modq, crashes>>

CloseFails(s) ==
  /\ cyc = "closing" /\ s \in cur
  /\ CloseCall(s, FALSE)
  /\ state' = [state EXCEPT ![s] = "FAILED"]
  /\ cur' = {}
  /\ cyc' = "models"
  /\ UNCHANGED <<active, past, metered, spent, procVars, bg, lost,
                 snap, busyObj, metObj, expq, dirty, modq, crashes>>

CloseMeter(s) ==
  /\ cyc \in {"meter", "meterTx"} /\ s \in cur
  /\ MeterObject(s, cyc = "meterTx")
  /\ cyc' = "commit"
  /\ UNCHANGED <<rowVars, chain, procVars, bg, lost,
                 snap, busyObj, expq, dirty, modq, cur, crashes>>

CloseCommit(s) ==
  /\ cyc = "commit" /\ s \in cur
  /\ state' = [state EXCEPT ![s] = "CLOSED"]
  /\ metered' = metered \cup ({s} \cap metObj)
  /\ cur' = {}
  /\ cyc' = "models"
  /\ UNCHANGED <<active, past, spent, chain, procVars, bg, lost,
                 snap, busyObj, metObj, expq, dirty, modq, crashes>>

Forget ==
  /\ snap' = {} /\ busyObj' = {} /\ metObj' = {} /\ expq' = {}
  /\ dirty' = {} /\ modq' = {} /\ cur' = {}
  /\ cyc' = "sleep"

CycleEnd ==
  /\ cyc = "models" /\ modq = {}
  /\ Forget
  /\ UNCHANGED <<poolVars, crashes>>

(* The cycle is cut off: its process dies, the task is cancelled at        *)
(* shutdown, or a commit raises.  The objects and what is not committed    *)
(* are gone; a session being opened is left without a row.                 *)
CycleCrash ==
  /\ cyc # "sleep" /\ crashes < MaxCrash
  /\ crashes' = crashes + 1
  /\ Forget
  /\ Reset(Warmer)
  /\ UNCHANGED <<rowVars, spent, chain, slot, bg, lost>>

------------------------------------------------------------------------------
CloseNext(s) ==
  \/ \E tx \in BOOLEAN : CleanupClose(s, tx) \/ CloseOnChain(s, tx)
  \/ CleanupMeter(s) \/ CloseFails(s) \/ CloseMeter(s) \/ CloseCommit(s)

CycleStep ==
  \/ CycleLoad \/ CleanupSelect \/ CleanupCommit \/ ModelOpened \/ CycleEnd
  \/ \E m \in Model : ModelOpen(m) \/ ModelSkip(m)
  \/ \E m \in Model, s \in Session : CloseMark(m, s)
  \/ \E s \in Session : CloseNext(s)

AutoOpen == OpenNext(Warmer) /\ UNCHANGED cycVars

Next ==
  \/ PoolNext /\ UNCHANGED cycVars
  \/ AutoOpen
  \/ CycleStep
  \/ CycleCrash

Spec == Init /\ [][Next]_vars

(* Time passes, the elected leader keeps running its cycles (each await on *)
(* the proxy-router has a timeout), and so do background tasks.  Nothing   *)
(* is assumed of the requests.                                             *)
Fairness ==
  /\ \A s \in Session : WF_vars(Expire(s) /\ UNCHANGED cycVars)
  /\ \A s \in Session : WF_vars(TaskNext(s) /\ UNCHANGED cycVars)
  /\ WF_vars(CycleStep \/ AutoOpen)

LiveSpec == Spec /\ Fairness

------------------------------------------------------------------------------
(* Properties.                                                             *)

(* No request is ever assigned a session the gateway has closed on chain:  *)
(* each of the three closers takes the row out of the claim's WHERE clause *)
(* before its closeSession, two by a committed state, the cleanup only     *)
(* because expires_at has passed while the row still reads OPEN.           *)
ClosedNeverAssigned ==
  [][\A r \in Req, s \in Session :
       s \in slot'[r] \ slot[r] => chain[s] # "closed"]_vars

(* A daylock is charged twice at most, by a background close and by the    *)
(* cycle racing it, and once more for every cycle cut off between the      *)
(* counter and the commit: the mark on the loaded object keeps a cycle     *)
(* that expires and then closes a session from charging it twice itself.   *)
DoubleMeterBound == \A s \in Session : spent[s] <= 2 + crashes

(* A row does not stay OPEN for ever, even one whose assignment was lost   *)
(* and which nobody can claim: the cleanup ignores active_requests.        *)
OpenRowsRetire ==
  \A s \in Session : state[s] = "OPEN" ~> state[s] # "OPEN"

(* A CLOSING row, whose stake the premium budget holds, reaches an end,    *)
(* unless a cycle is cut off: nothing ever looks at a CLOSING row again.   *)
ClosingResolves ==
  \A s \in Session :
    state[s] = "CLOSING" ~> state[s] \in {"CLOSED", "FAILED", "EXPIRED"} \/ crashes > 0

------------------------------------------------------------------------------
(* What comments of the code say, and the code does not keep.              *)

(* _close_session: "Safety check: don't close utilized sessions".          *)
NoUtilizedClose == \A s \in Session : state[s] = "CLOSING" => active[s] = 0

(* _record_daylock_on_close: "Idempotent: ... so Redis premium actual is   *)
(* not double-incremented on retry paths".                                 *)
MeteredOnce == \A s \in Session : spent[s] <= 1

(* _cleanup_expired_sessions: "Proxy SessionExpiryHandler may already have *)
(* closed it (or will).  Meter ... anyway so EXPIRED rows are not left     *)
(* with daylock_mor=0": the rows the cleanup commits carry a daylock.      *)
ExpiredRowsMetered ==
  [][cyc = "cleaning" /\ cyc' = "models" => dirty \subseteq metered']_vars

------------------------------------------------------------------------------
(* The inductive invariant behind the theorems of SessionAutomation_proofs.*)

(* An assignment is counted, exclusive and not lost; a counted slot is     *)
(* somebody's or lost; an id that was not inserted yet has one owner.      *)
SlotInv ==
  /\ \A r \in Req : \A s \in slot[r] :
       active[s] = 1 /\ state[s] # "absent" /\ s \notin lost
  /\ \A r, q \in Req, s \in Session : s \in slot[r] \cap slot[q] => r = q
  /\ \A s \in lost : active[s] = 1 /\ state[s] # "absent"
  /\ \A s \in Session :
       active[s] = 1 => s \in lost \/ \E r \in Req : s \in slot[r]

OpenInv ==
  /\ \A p \in Proc : \A s \in opened[p] : state[s] = "absent" /\ chain[s] # "none"
  /\ \A p, q \in Proc, s \in Session : s \in opened[p] \cap opened[q] => p = q
  /\ \A s \in Session : state[s] # "absent" => chain[s] # "none"

(* Whoever is about to close a session, or has closed it, has taken it out *)
(* of the claim's reach before.                                            *)
Unclaimable(s) == state[s] # "absent" /\ (state[s] # "OPEN" \/ s \in past)
CloseInv ==
  /\ \A s \in past \cup snap : state[s] # "absent"
  /\ expq \cup dirty \subseteq past
  /\ \A s \in Session : bg[s] # "none" => state[s] \notin {"absent", "OPEN"}
  /\ \A s \in cur : Unclaimable(s)
  /\ \A s, t \in cur : s = t
  /\ \A s \in Session : chain[s] = "closed" => Unclaimable(s)

(* A close transaction in hand means the session is closed; a daylock is   *)
(* added to the counter before any record of it.                           *)
OffChain(s) == chain[s] \in {"closed", "ended"}
MeterInv ==
  /\ \A s \in Session : spent[s] > 0 => OffChain(s)
  /\ \A s \in Session : bg[s] \in {"loadTx", "meterTx"} => OffChain(s)
  /\ cyc \in {"expMeterTx", "meterTx"} => \A s \in cur : OffChain(s)
  /\ \A s \in metered \cup metObj : spent[s] > 0
  /\ \A s \in Session : bg[s] = "commit" => spent[s] > 0

(* The charges of a daylock that can still come: one of the background     *)
(* close, which starts when the row leaves OPEN and at no other time, and  *)
(* one of the cycle, until the object in its memory carries the mark.      *)
Gone(s) == state[s] \notin {"absent", "OPEN"}
BgCharge(s) ==
  IF ~Gone(s) \/ bg[s] \in {"close", "load", "loadTx", "meter", "meterTx"} THEN 1 ELSE 0
CycleCharge(s) ==
  IF s \notin metObj /\ (~Gone(s) \/ s \in snap \cup expq \cup cur) THEN 1 ELSE 0

(* A row with a daylock is no longer OPEN, and no object is marked that is *)
(* not on its way out of OPEN: a cycle that ends as it should leaves       *)
(* nothing for the next one to charge again.                               *)
MarkInv ==
  /\ cyc = "sleep" => metObj = {}
  /\ cyc \notin {"cleaning", "expMeter", "expMeterTx"} => dirty = {}
  /\ cyc \in {"expMeter", "expMeterTx"} => cur \subseteq dirty
  /\ cyc \in {"closing", "meter", "meterTx", "commit"} => \A s \in cur : Gone(s)
  /\ \A s \in metered \cup (metObj \ dirty) : Gone(s)

ChargeInv ==
  \A s \in Session : spent[s] + BgCharge(s) + CycleCharge(s) <= 2 + crashes

(* A session that waits for its row is of the model its opener asked for,  *)
(* and only the turn of a model makes the automation an opener.            *)
CapInv ==
  /\ \A p \in Proc : opened[p] # {} => pc[p] = "inserting"
  /\ \A p \in Proc : \A s \in opened[p] : ModelOf[s] \in want[p]
  /\ cyc # "opening" => pc[Warmer] = "idle"
  /\ \A m \in Model : IsFiniteSet(OpenRows(m))

IInv ==
  AllTypeOK /\ SlotInv /\ OpenInv /\ CloseInv /\ MeterInv /\ MarkInv /\ ChargeInv
=============================================================================
