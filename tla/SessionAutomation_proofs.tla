----------------------- MODULE SessionAutomation_proofs -----------------------
(***************************************************************************)
(* Theorems about the session pool with its automation, for every set of   *)
(* requests, sessions, models and providers, every soft cap and every      *)
(* number of cut-off cycles.                                               *)
(***************************************************************************)
EXTENDS SessionAutomation, FiniteSetTheorems, TLAPS

USE DEF Proc, rowVars, procVars, poolVars, cycVars, vars

------------------------------------------------------------------------------
(* Types.                                                                  *)

LEMMA TypeInit == Init => AllTypeOK
  BY PoolAssumption DEF Init, PoolInit, CycleInit, AllTypeOK, TypeOK, CycleTypeOK,
     RowState, ChainState, PC, TaskPC, CyclePC

(* Requests keep the types of the pool.                                    *)
LEMMA RequestTypes ==
  ASSUME TypeOK, NEW r \in Req, RequestNext(r)
  PROVE  TypeOK'
<1> USE PoolAssumption DEF TypeOK, RowState, ChainState, PC, TaskPC
<1>1. ASSUME NEW m \in Model, Start(r, m) PROVE TypeOK'
  BY <1>1 DEF Start
<1>2. ASSUME NEW s \in Session, Claim(r, s) PROVE TypeOK'
  BY <1>2 DEF Claim, Claimable
<1>3. ASSUME NEW s \in Session, Release(r, s) PROVE TypeOK'
  BY <1>3 DEF Release
<1>4. ASSUME NEW s \in Session, ReleaseFails(r, s) PROVE TypeOK'
  BY <1>4 DEF ReleaseFails
<1>5. CASE NoIdle(r)      BY <1>5 DEF NoIdle
<1>6. CASE RouteFails(r)  BY <1>6 DEF RouteFails
<1>7. CASE Finish(r)      BY <1>7 DEF Finish
<1>8. CASE Depart(r)      BY <1>8 DEF Depart, Reset
<1>9. CASE Vanish(r)      BY <1>9 DEF Vanish, Reset
<1>10. ASSUME NEW s \in Session, NEW to \in {"FAILED", "EXPIRED"}, Invalidate(r, s, to)
       PROVE  TypeOK'
  BY <1>10 DEF Invalidate, Reroute
<1>11. ASSUME NEW s \in Session, NEW to \in {"FAILED", "EXPIRED"}, InvalidateFails(r, s, to)
       PROVE  TypeOK'
  BY <1>11 DEF InvalidateFails, Reroute
<1> QED BY <1>1, <1>2, <1>3, <1>4, <1>5, <1>6, <1>7, <1>8, <1>9, <1>10, <1>11
        DEF RequestNext

(* Opening a session keeps the types of the pool.                          *)
LEMMA OpenTypes ==
  ASSUME TypeOK, NEW p \in Proc, OpenNext(p)
  PROVE  TypeOK'
<1> USE PoolAssumption DEF TypeOK, RowState, ChainState, PC, TaskPC
<1>1. CASE PassGates(p)    BY <1>1 DEF PassGates
<1>2. CASE Refuse(p)       BY <1>2 DEF Refuse
<1>3. CASE OpenFails(p)    BY <1>3 DEF OpenFails
<1>4. CASE InsertFails(p)  BY <1>4 DEF InsertFails
<1>5. ASSUME NEW s \in Session, OpenOnChain(p, s) PROVE TypeOK'
  BY <1>5 DEF OpenOnChain, Opens
<1>6. ASSUME NEW s \in Session, OpenLost(p, s) PROVE TypeOK'
  BY <1>6 DEF OpenLost, Opens
<1>7. ASSUME NEW s \in Session, InsertRow(p, s) PROVE TypeOK'
  BY <1>7 DEF InsertRow, InitialActive
<1> QED BY <1>1, <1>2, <1>3, <1>4, <1>5, <1>6, <1>7 DEF OpenNext

(* Background tasks and the clock keep the types of the pool.              *)
LEMMA TaskTypes ==
  ASSUME TypeOK, NEW s \in Session, TaskNext(s) \/ Expire(s) \/ ChainExpiry(s)
  PROVE  TypeOK'
<1> USE DEF TypeOK, RowState, ChainState, PC, TaskPC
<1>1. ASSUME NEW tx \in BOOLEAN, BgClose(s, tx) PROVE TypeOK'
  BY <1>1 DEF BgClose, CloseCall
<1>2. CASE BgLoad(s)       BY <1>2 DEF BgLoad
<1>3. CASE BgMeter(s)      BY <1>3 DEF BgMeter
<1>4. CASE BgSkip(s)       BY <1>4 DEF BgSkip
<1>5. CASE BgCommit(s)     BY <1>5 DEF BgCommit
<1>6. CASE BgDies(s)       BY <1>6 DEF BgDies
<1>7. CASE Expire(s)       BY <1>7 DEF Expire
<1>8. CASE ChainExpiry(s)  BY <1>8 DEF ChainExpiry
<1> QED BY <1>1, <1>2, <1>3, <1>4, <1>5, <1>6, <1>7, <1>8 DEF TaskNext

(* The cycle keeps all types.                                              *)
LEMMA CycleTypes ==
  ASSUME AllTypeOK, CycleStep \/ CycleCrash
  PROVE  AllTypeOK'
<1> USE PoolAssumption, CycleAssumption
    DEF AllTypeOK, TypeOK, CycleTypeOK, RowState, ChainState, PC, TaskPC, CyclePC
<1>1. CASE CycleLoad       BY <1>1 DEF CycleLoad
<1>2. CASE CleanupSelect   BY <1>2 DEF CleanupSelect
<1>3. CASE CleanupCommit   BY <1>3 DEF CleanupCommit
<1>4. CASE ModelOpened     BY <1>4 DEF ModelOpened, Reset
<1>5. CASE CycleEnd        BY <1>5 DEF CycleEnd, Forget
<1>6. CASE CycleCrash      BY <1>6 DEF CycleCrash, Forget, Reset
<1>7. ASSUME NEW m \in Model, ModelOpen(m) PROVE AllTypeOK'
  BY <1>7 DEF ModelOpen
<1>8. ASSUME NEW m \in Model, ModelSkip(m) PROVE AllTypeOK'
  BY <1>8 DEF ModelSkip
<1>9. ASSUME NEW m \in Model, NEW s \in Session, CloseMark(m, s) PROVE AllTypeOK'
  BY <1>9 DEF CloseMark
<1>10. ASSUME NEW s \in Session, CloseNext(s) PROVE AllTypeOK'
  <2>1. ASSUME NEW tx \in BOOLEAN, CleanupClose(s, tx) PROVE AllTypeOK'
    BY <2>1 DEF CleanupClose, CloseCall
  <2>2. ASSUME NEW tx \in BOOLEAN, CloseOnChain(s, tx) PROVE AllTypeOK'
    BY <2>2 DEF CloseOnChain, CloseCall
  <2>3. CASE CleanupMeter(s)  BY <2>3 DEF CleanupMeter, MeterObject
  <2>4. CASE CloseFails(s)    BY <2>4 DEF CloseFails, CloseCall
  <2>5. CASE CloseMeter(s)    BY <2>5 DEF CloseMeter, MeterObject
  <2>6. CASE CloseCommit(s)   BY <2>6 DEF CloseCommit
  <2> QED BY <1>10, <2>1, <2>2, <2>3, <2>4, <2>5, <2>6 DEF CloseNext
<1> QED BY <1>1, <1>2, <1>3, <1>4, <1>5, <1>6, <1>7, <1>8, <1>9, <1>10 DEF CycleStep

LEMMA TypeStep == ASSUME AllTypeOK, [Next]_vars PROVE AllTypeOK'
<1>1. CASE PoolNext /\ UNCHANGED cycVars
  <2>1. TypeOK'
    BY <1>1, RequestTypes, OpenTypes, TaskTypes DEF PoolNext, AllTypeOK
  <2>2. CycleTypeOK'
    BY <1>1 DEF AllTypeOK, CycleTypeOK
  <2> QED BY <2>1, <2>2 DEF AllTypeOK
<1>2. CASE AutoOpen
  <2>1. TypeOK'
    BY <1>2, OpenTypes DEF AutoOpen, AllTypeOK
  <2>2. CycleTypeOK'
    BY <1>2 DEF AutoOpen, AllTypeOK, CycleTypeOK
  <2> QED BY <2>1, <2>2 DEF AllTypeOK
<1>3. CASE CycleStep \/ CycleCrash
  BY <1>3, CycleTypes
<1>4. CASE UNCHANGED vars
  BY <1>4 DEF AllTypeOK, TypeOK, CycleTypeOK
<1> QED BY <1>1, <1>2, <1>3, <1>4 DEF Next

(* Every variable of the pool and of the cycle keeps its type.             *)
THEOREM TypeCorrect == Spec => []AllTypeOK
  BY TypeInit, TypeStep, PTL DEF Spec

------------------------------------------------------------------------------
(* Slots and opens.                                                        *)

(* A step that keeps slots, counters and losses and removes no row.        *)
LEMMA SlotFrame ==
  ASSUME AllTypeOK, SlotInv, UNCHANGED <<active, slot, lost>>,
         \A s \in Session : state[s] # "absent" => state'[s] # "absent"
  PROVE  SlotInv'
  BY DEF SlotInv, AllTypeOK, TypeOK

(* A step that gives no process a new id, and inserts no row.              *)
LEMMA OpenFrame ==
  ASSUME AllTypeOK, OpenInv,
         \A p \in Proc : opened'[p] \subseteq opened[p],
         \A s \in Session : state'[s] = "absent" <=> state[s] = "absent",
         \A s \in Session : chain[s] # "none" => chain'[s] # "none"
  PROVE  OpenInv'
<1> USE DEF AllTypeOK, TypeOK
<1>1. \A p \in Proc : \A s \in opened'[p] : state'[s] = "absent" /\ chain'[s] # "none"
  BY DEF OpenInv
<1>2. \A p, q \in Proc, s \in Session : s \in opened'[p] \cap opened'[q] => p = q
  BY DEF OpenInv
<1>3. \A s \in Session : state'[s] # "absent" => chain'[s] # "none"
  BY DEF OpenInv
<1> QED BY <1>1, <1>2, <1>3 DEF OpenInv

LEMMA SlotInit == Init => SlotInv /\ OpenInv
  BY DEF Init, PoolInit, SlotInv, OpenInv

LEMMA RequestSlots ==
  ASSUME AllTypeOK, SlotInv, OpenInv, NEW r \in Req, RequestNext(r)
  PROVE  SlotInv' /\ OpenInv'
<1> USE DEF AllTypeOK, TypeOK
<1>1. ASSUME NEW m \in Model, Start(r, m) PROVE SlotInv' /\ OpenInv'
  BY <1>1, SlotFrame, OpenFrame DEF Start
<1>2. ASSUME NEW s \in Session, Claim(r, s) PROVE SlotInv' /\ OpenInv'
  <2>1. OpenInv'
    BY <1>2, OpenFrame DEF Claim
  <2>2. active[s] = 0 /\ state[s] # "absent"
    BY <1>2 DEF Claim, Claimable
  <2>3. s \notin lost /\ \A q \in Req : s \notin slot[q]
    BY <2>2 DEF SlotInv
  <2>4. /\ active' = [active EXCEPT ![s] = 1]
        /\ slot' = [slot EXCEPT ![r] = @ \cup {s}]
        /\ UNCHANGED <<state, lost>>
    BY <1>2, <2>2 DEF Claim
  <2>5. SlotInv'
    BY <2>2, <2>3, <2>4 DEF SlotInv
  <2> QED BY <2>1, <2>5
<1>3. ASSUME NEW s \in Session, Release(r, s) PROVE SlotInv' /\ OpenInv'
  <2>1. OpenInv'
    BY <1>3, OpenFrame DEF Release
  <2>2. active[s] = 1 /\ s \notin lost /\ \A q \in Req \ {r} : s \notin slot[q]
    BY <1>3 DEF Release, SlotInv
  <2>3. /\ active' = [active EXCEPT ![s] = 0]
        /\ slot' = [slot EXCEPT ![r] = @ \ {s}]
        /\ UNCHANGED <<state, lost>>
    BY <1>3, <2>2 DEF Release
  <2>4. SlotInv'
    BY <2>2, <2>3 DEF SlotInv
  <2> QED BY <2>1, <2>4
<1>4. ASSUME NEW s \in Session, ReleaseFails(r, s) PROVE SlotInv' /\ OpenInv'
  <2>1. OpenInv'
    BY <1>4, OpenFrame DEF ReleaseFails
  <2>2. SlotInv'
    BY <1>4 DEF ReleaseFails, SlotInv
  <2> QED BY <2>1, <2>2
<1>5. CASE NoIdle(r)
  BY <1>5, SlotFrame, OpenFrame DEF NoIdle
<1>6. CASE RouteFails(r)
  BY <1>6, SlotFrame, OpenFrame DEF RouteFails
<1>7. CASE Finish(r)
  BY <1>7, SlotFrame, OpenFrame DEF Finish
<1>8. CASE Depart(r)
  BY <1>8, SlotFrame, OpenFrame DEF Depart, Reset
<1>9. CASE Vanish(r)
  <2>1. OpenInv'
    BY <1>9, OpenFrame DEF Vanish, Reset
  <2>2. SlotInv'
    BY <1>9 DEF Vanish, SlotInv
  <2> QED BY <2>1, <2>2
<1>10. ASSUME NEW s \in Session, NEW to \in {"FAILED", "EXPIRED"}, Invalidate(r, s, to)
       PROVE  SlotInv' /\ OpenInv'
  <2>1. \A x \in Session : state'[x] = "absent" <=> state[x] = "absent"
    BY <1>10 DEF Invalidate
  <2> QED BY <1>10, <2>1, SlotFrame, OpenFrame DEF Invalidate, Reroute
<1>11. ASSUME NEW s \in Session, NEW to \in {"FAILED", "EXPIRED"}, InvalidateFails(r, s, to)
       PROVE  SlotInv' /\ OpenInv'
  BY <1>11, SlotFrame, OpenFrame DEF InvalidateFails, Reroute
<1> QED BY <1>1, <1>2, <1>3, <1>4, <1>5, <1>6, <1>7, <1>8, <1>9, <1>10, <1>11
        DEF RequestNext

LEMMA OpenSlots ==
  ASSUME AllTypeOK, SlotInv, OpenInv, NEW p \in Proc, OpenNext(p)
  PROVE  SlotInv' /\ OpenInv'
<1> USE DEF AllTypeOK, TypeOK
<1>1. CASE PassGates(p)
  BY <1>1, SlotFrame, OpenFrame DEF PassGates
<1>2. CASE Refuse(p)
  BY <1>2, SlotFrame, OpenFrame DEF Refuse
<1>3. CASE OpenFails(p)
  BY <1>3, SlotFrame, OpenFrame DEF OpenFails
<1>4. CASE InsertFails(p)
  BY <1>4, SlotFrame, OpenFrame DEF InsertFails
<1>5. ASSUME NEW s \in Session, OpenOnChain(p, s) PROVE SlotInv' /\ OpenInv'
  <2>1. SlotInv'
    BY <1>5, SlotFrame DEF OpenOnChain
  <2>2. state[s] = "absent" /\ \A q \in Proc : s \notin opened[q]
    BY <1>5 DEF OpenOnChain, Opens, OpenInv
  <2>3. /\ opened' = [opened EXCEPT ![p] = {s}]
        /\ chain' = [chain EXCEPT ![s] = "open"]
        /\ UNCHANGED state
    BY <1>5 DEF OpenOnChain, Opens
  <2>4. OpenInv'
    BY <2>2, <2>3 DEF OpenInv
  <2> QED BY <2>1, <2>4
<1>6. ASSUME NEW s \in Session, OpenLost(p, s) PROVE SlotInv' /\ OpenInv'
  BY <1>6, SlotFrame, OpenFrame DEF OpenLost, Opens
<1>7. ASSUME NEW s \in Session, InsertRow(p, s) PROVE SlotInv' /\ OpenInv'
  <2>1. /\ state[s] = "absent" /\ chain[s] # "none"
        /\ \A q \in Proc \ {p} : s \notin opened[q]
    BY <1>7 DEF InsertRow, OpenInv
  <2>2. s \notin lost /\ \A q \in Req : s \notin slot[q]
    BY <2>1 DEF SlotInv
  <2>3. /\ state' = [state EXCEPT ![s] = "OPEN"]
        /\ opened' = [opened EXCEPT ![p] = {}]
        /\ UNCHANGED <<chain, lost>>
    BY <1>7 DEF InsertRow
  <2>4. OpenInv'
    BY <2>1, <2>3 DEF OpenInv
  <2>5. active' = [active EXCEPT ![s] = InitialActive(p)] /\ UNCHANGED lost
    BY <1>7 DEF InsertRow
  <2>6. \A q \in Req : slot'[q] = (IF q = p THEN slot[q] \cup {s} ELSE slot[q])
    BY <1>7 DEF InsertRow
  <2>7. ASSUME NEW q \in Req, NEW x \in slot'[q]
        PROVE  active'[x] = 1 /\ state'[x] # "absent" /\ x \notin lost'
    <3>1. CASE x = s
      <4>1. p # Warmer
        BY <2>2, <2>6, <3>1, PoolAssumption
      <4> QED BY <2>2, <2>3, <2>5, <3>1, <4>1 DEF InitialActive
    <3>2. CASE x # s
      <4>1. x \in slot[q]
        BY <2>6, <3>2
      <4>2. active[x] = 1 /\ state[x] # "absent" /\ x \notin lost
        BY <4>1 DEF SlotInv
      <4> QED BY <2>3, <2>5, <3>2, <4>1, <4>2
    <3> QED BY <3>1, <3>2
  <2>10. ASSUME NEW x \in lost' PROVE active'[x] = 1 /\ state'[x] # "absent"
    <3>1. active[x] = 1 /\ state[x] # "absent" /\ x # s
      BY <2>2, <2>3 DEF SlotInv
    <3> QED BY <2>3, <2>5, <3>1
  <2>8. ASSUME NEW q \in Req, NEW t \in Req, NEW x \in Session,
               x \in slot'[q], x \in slot'[t]
        PROVE  q = t
    <3>1. CASE x = s
      BY <2>2, <2>6, <2>8, <3>1
    <3>2. CASE x # s
      <4>1. x \in slot[q] /\ x \in slot[t]
        BY <2>6, <2>8, <3>2
      <4> QED BY <4>1 DEF SlotInv
    <3> QED BY <3>1, <3>2
  <2>9. ASSUME NEW x \in Session, active'[x] = 1
        PROVE  x \in lost' \/ \E q \in Req : x \in slot'[q]
    <3>1. CASE x = s
      <4>1. p # Warmer
        BY <2>5, <2>9, <3>1 DEF InitialActive
      <4> QED BY <2>6, <3>1, <4>1
    <3>2. CASE x # s
      <4>1. active[x] = 1
        BY <2>5, <2>9, <3>2
      <4>2. x \in lost \/ \E q \in Req : x \in slot[q]
        BY <4>1 DEF SlotInv
      <4> QED BY <2>3, <2>6, <4>2
    <3> QED BY <3>1, <3>2
  <2> QED BY <2>4, <2>7, <2>8, <2>9, <2>10 DEF SlotInv
<1> QED BY <1>1, <1>2, <1>3, <1>4, <1>5, <1>6, <1>7 DEF OpenNext

LEMMA TaskSlots ==
  ASSUME AllTypeOK, SlotInv, OpenInv, NEW s \in Session,
         TaskNext(s) \/ Expire(s) \/ ChainExpiry(s)
  PROVE  SlotInv' /\ OpenInv'
<1>1. UNCHANGED <<state, active, slot, lost, opened>>
  BY DEF TaskNext, BgClose, BgLoad, BgMeter, BgSkip, BgCommit, BgDies,
         Expire, ChainExpiry
<1>2. \A x \in Session : chain[x] # "none" => chain'[x] # "none"
  BY DEF TaskNext, BgClose, CloseCall, BgLoad, BgMeter, BgSkip, BgCommit, BgDies,
         Expire, ChainExpiry, AllTypeOK, TypeOK
<1> QED BY <1>1, <1>2, SlotFrame, OpenFrame

LEMMA CycleSlots ==
  ASSUME AllTypeOK, SlotInv, OpenInv, CloseInv, CycleStep \/ CycleCrash
  PROVE  SlotInv' /\ OpenInv'
<1> USE DEF AllTypeOK, TypeOK, CycleTypeOK
<1>1. UNCHANGED <<active, slot, lost>>
  BY DEF CycleStep, CycleCrash, CycleLoad, CleanupSelect, CleanupCommit,
         ModelOpened, CycleEnd, ModelOpen, ModelSkip, CloseMark, CloseNext,
         CleanupClose, CloseOnChain, CleanupMeter, CloseFails, CloseMeter, CloseCommit
<1>2. \A p \in Proc : opened'[p] \subseteq opened[p]
  BY DEF CycleStep, CycleCrash, CycleLoad, CleanupSelect, CleanupCommit,
         ModelOpened, CycleEnd, ModelOpen, ModelSkip, CloseMark, CloseNext, Reset,
         CleanupClose, CloseOnChain, CleanupMeter, CloseFails, CloseMeter, CloseCommit
<1>3. \A s \in Session : chain[s] # "none" => chain'[s] # "none"
  BY DEF CycleStep, CycleCrash, CycleLoad, CleanupSelect, CleanupCommit, CloseCall,
         ModelOpened, CycleEnd, ModelOpen, ModelSkip, CloseMark, CloseNext,
         CleanupClose, CloseOnChain, CleanupMeter, CloseFails, CloseMeter, CloseCommit
<1>4. \A s \in Session : state'[s] = "absent" <=> state[s] = "absent"
  <2>1. CASE CleanupCommit
    BY <2>1 DEF CleanupCommit, CloseInv
  <2>2. ASSUME NEW m \in Model, NEW s \in Session, CloseMark(m, s)
        PROVE  \A x \in Session : state'[x] = "absent" <=> state[x] = "absent"
    BY <2>2 DEF CloseMark, Loaded, CloseInv
  <2>3. ASSUME NEW s \in Session, CloseFails(s) \/ CloseCommit(s)
        PROVE  \A x \in Session : state'[x] = "absent" <=> state[x] = "absent"
    BY <2>3 DEF CloseFails, CloseCommit, CloseInv, Unclaimable
  <2>4. \/ UNCHANGED state
        \/ CleanupCommit
        \/ \E m \in Model, s \in Session : CloseMark(m, s)
        \/ \E s \in Session : CloseFails(s) \/ CloseCommit(s)
    BY DEF CycleStep, CycleCrash, CycleLoad, CleanupSelect, CycleEnd, ModelOpened,
           ModelOpen, ModelSkip, CloseNext, CleanupClose, CloseOnChain,
           CleanupMeter, CloseMeter
  <2> QED BY <2>1, <2>2, <2>3, <2>4
<1> QED BY <1>1, <1>2, <1>3, <1>4, SlotFrame, OpenFrame

------------------------------------------------------------------------------
(* Closing.                                                                *)

(* What no step undoes: a row that was inserted, a row that left OPEN, an  *)
(* expiry that passed, a session that is no longer open on chain.          *)
Ages ==
  /\ \A s \in Session : state[s] # "absent" => state'[s] # "absent"
  /\ \A s \in Session : state[s] \notin {"absent", "OPEN"}
                          => state'[s] \notin {"absent", "OPEN"}
  /\ past \subseteq past'
  /\ \A s \in Session : OffChain(s) => OffChain(s)'

(* What a step may add to the sets CloseInv speaks of.                     *)
CloseGains ==
  /\ \A s \in past' \ past : state[s] # "absent"
  /\ \A s \in snap' \ snap : state[s] # "absent"
  /\ expq' \subseteq expq \cup past
  /\ dirty' \subseteq dirty \cup expq
  /\ \A s \in Session : bg'[s] # "none" =>
       bg[s] # "none" \/ state'[s] \notin {"absent", "OPEN"}
  /\ \/ cur' \subseteq cur
     \/ \E s \in Session : /\ cur' = {s}
                           /\ s \in expq \/ state'[s] \notin {"absent", "OPEN"}
  /\ \A s \in Session : chain'[s] = "closed" =>
       chain[s] = "closed" \/ bg[s] # "none" \/ s \in cur \cup expq

LEMMA CloseKept ==
  ASSUME AllTypeOK, AllTypeOK', CloseInv, Ages, CloseGains
  PROVE  CloseInv'
<1> USE DEF AllTypeOK, TypeOK, CycleTypeOK, Ages, CloseGains
<1>1. \A s \in Session : Unclaimable(s) => Unclaimable(s)'
  BY DEF Unclaimable
<1>2. \A s \in (past \cup snap)' : state'[s] # "absent"
  BY DEF CloseInv
<1>3. (expq \cup dirty)' \subseteq past'
  BY DEF CloseInv
<1>4. \A s \in Session : bg'[s] # "none" => state'[s] \notin {"absent", "OPEN"}
  BY DEF CloseInv
<1>5. \A s \in expq : Unclaimable(s)'
  BY DEF CloseInv, Unclaimable
<1>6. \A s \in cur' : Unclaimable(s)'
  BY <1>1, <1>5 DEF CloseInv, Unclaimable
<1>7. \A s \in Session : chain'[s] = "closed" => Unclaimable(s)'
  BY <1>1, <1>5 DEF CloseInv, Unclaimable
<1>8. \A s, t \in cur' : s = t
  BY DEF CloseInv
<1> QED BY <1>2, <1>3, <1>4, <1>6, <1>7, <1>8 DEF CloseInv

LEMMA CloseInit == Init => CloseInv
  BY DEF Init, PoolInit, CycleInit, CloseInv

LEMMA RequestCloses ==
  ASSUME AllTypeOK, CloseInv, NEW r \in Req, RequestNext(r), UNCHANGED cycVars
  PROVE  Ages /\ CloseGains
<1> USE DEF AllTypeOK, TypeOK, CycleTypeOK
<1>1. UNCHANGED <<past, chain>>
  BY DEF RequestNext, Start, Claim, Release, ReleaseFails, NoIdle, RouteFails,
         Finish, Depart, Vanish, Invalidate, InvalidateFails
<1>2. \/ UNCHANGED <<state, bg>>
      \/ \E s \in Session, to \in {"FAILED", "EXPIRED"} :
           /\ state[s] = "OPEN"
           /\ state' = [state EXCEPT ![s] = to]
           /\ bg' = [bg EXCEPT ![s] = "close"]
  BY DEF RequestNext, Start, Claim, Release, ReleaseFails, NoIdle, RouteFails,
         Finish, Depart, Vanish, Invalidate, InvalidateFails
<1>3. Ages
  BY <1>1, <1>2 DEF Ages, OffChain
<1>4. CloseGains
  BY <1>1, <1>2 DEF CloseGains
<1> QED BY <1>3, <1>4

LEMMA OpenCloses ==
  ASSUME AllTypeOK, OpenInv, CloseInv, NEW p \in Proc, OpenNext(p), UNCHANGED cycVars
  PROVE  Ages /\ CloseGains
<1> USE DEF AllTypeOK, TypeOK, CycleTypeOK
<1>1. UNCHANGED <<past, bg>>
  BY DEF OpenNext, PassGates, Refuse, OpenFails, InsertFails, OpenOnChain, OpenLost,
         InsertRow
<1>2. \/ UNCHANGED chain
      \/ \E s \in Session : chain[s] = "none" /\ chain' = [chain EXCEPT ![s] = "open"]
  BY DEF OpenNext, PassGates, Refuse, OpenFails, InsertFails, OpenOnChain, OpenLost,
         InsertRow, Opens
<1>3. \/ UNCHANGED state
      \/ \E s \in Session : state[s] = "absent" /\ state' = [state EXCEPT ![s] = "OPEN"]
  BY DEF OpenNext, PassGates, Refuse, OpenFails, InsertFails, OpenOnChain, OpenLost,
         InsertRow, OpenInv
<1>4. Ages
  BY <1>1, <1>2, <1>3 DEF Ages, OffChain
<1>5. CloseGains
  BY <1>1, <1>2 DEF CloseGains
<1> QED BY <1>4, <1>5

LEMMA TaskCloses ==
  ASSUME AllTypeOK, CloseInv, NEW s \in Session,
         TaskNext(s) \/ Expire(s) \/ ChainExpiry(s), UNCHANGED cycVars
  PROVE  Ages /\ CloseGains
<1> USE DEF AllTypeOK, TypeOK, CycleTypeOK
<1>1. UNCHANGED state
  BY DEF TaskNext, BgClose, BgLoad, BgMeter, BgSkip, BgCommit, BgDies, Expire, ChainExpiry
<1>2. past' = past \/ (state[s] # "absent" /\ past' = past \cup {s})
  BY DEF TaskNext, BgClose, BgLoad, BgMeter, BgSkip, BgCommit, BgDies, Expire, ChainExpiry
<1>3. \A x \in Session : bg'[x] # "none" => bg[x] # "none"
  BY DEF TaskNext, BgClose, BgLoad, BgMeter, BgSkip, BgCommit, BgDies, Expire, ChainExpiry
<1>4. \/ UNCHANGED chain
      \/ chain[s] = "open" /\ chain' = [chain EXCEPT ![s] = "ended"]
      \/ bg[s] # "none" /\ chain[s] = "open" /\ chain' = [chain EXCEPT ![s] = "closed"]
  BY DEF TaskNext, BgClose, CloseCall, BgLoad, BgMeter, BgSkip, BgCommit, BgDies,
         Expire, ChainExpiry
<1>5. Ages
  BY <1>1, <1>2, <1>4 DEF Ages, OffChain
<1>6. CloseGains
  BY <1>1, <1>2, <1>3, <1>4 DEF CloseGains
<1> QED BY <1>5, <1>6

LEMMA CycleCloses ==
  ASSUME AllTypeOK, CloseInv, CycleStep \/ CycleCrash
  PROVE  Ages /\ CloseGains
<1> USE DEF AllTypeOK, TypeOK, CycleTypeOK
<1>1. UNCHANGED <<past, bg>>
  BY DEF CycleStep, CycleCrash, CycleLoad, CleanupSelect, CleanupCommit,
         ModelOpened, CycleEnd, ModelOpen, ModelSkip, CloseMark, CloseNext,
         CleanupClose, CloseOnChain, CleanupMeter, CloseFails, CloseMeter, CloseCommit
<1>2. \/ UNCHANGED chain
      \/ \E s \in cur \cup expq :
           chain[s] = "open" /\ chain' = [chain EXCEPT ![s] = "closed"]
  BY DEF CycleStep, CycleCrash, CycleLoad, CleanupSelect, CleanupCommit, CloseCall,
         ModelOpened, CycleEnd, ModelOpen, ModelSkip, CloseMark, CloseNext,
         CleanupClose, CloseOnChain, CleanupMeter, CloseFails, CloseMeter, CloseCommit
<1>3. \/ UNCHANGED state
      \/ state' = [s \in Session |-> IF s \in dirty THEN "EXPIRED" ELSE state[s]]
      \/ \E s \in Session, to \in {"CLOSING", "FAILED", "CLOSED"} :
           state' = [state EXCEPT ![s] = to]
  BY DEF CycleStep, CycleCrash, CycleLoad, CleanupSelect, CleanupCommit,
         ModelOpened, CycleEnd, ModelOpen, ModelSkip, CloseMark, CloseNext,
         CleanupClose, CloseOnChain, CleanupMeter, CloseFails, CloseMeter, CloseCommit
<1>4. Ages
  BY <1>1, <1>2, <1>3 DEF Ages, OffChain
<1>5. \A s \in snap' \ snap : state[s] # "absent"
  BY DEF CycleStep, CycleCrash, CycleLoad, CleanupSelect, CleanupCommit, Forget,
         ModelOpened, CycleEnd, ModelOpen, ModelSkip, CloseMark, CloseNext,
         CleanupClose, CloseOnChain, CleanupMeter, CloseFails, CloseMeter, CloseCommit
<1>6. expq' \subseteq expq \cup past
  BY DEF CycleStep, CycleCrash, CycleLoad, CleanupSelect, CleanupCommit, Forget,
         ModelOpened, CycleEnd, ModelOpen, ModelSkip, CloseMark, CloseNext,
         CleanupClose, CloseOnChain, CleanupMeter, CloseFails, CloseMeter, CloseCommit
<1>7. dirty' \subseteq dirty \cup expq
  BY DEF CycleStep, CycleCrash, CycleLoad, CleanupSelect, CleanupCommit, Forget,
         ModelOpened, CycleEnd, ModelOpen, ModelSkip, CloseMark, CloseNext,
         CleanupClose, CloseOnChain, CleanupMeter, CloseFails, CloseMeter, CloseCommit
<1>8. \/ cur' \subseteq cur
      \/ \E s \in Session : /\ cur' = {s}
                            /\ s \in expq \/ state'[s] \notin {"absent", "OPEN"}
  <2>1. ASSUME NEW s \in Session, NEW tx \in BOOLEAN, CleanupClose(s, tx)
        PROVE  cur' = {s} /\ s \in expq
    BY <2>1 DEF CleanupClose
  <2>2. ASSUME NEW m \in Model, NEW s \in Session, CloseMark(m, s)
        PROVE  cur' = {s} /\ state'[s] = "CLOSING"
    BY <2>2 DEF CloseMark
  <2>3. \/ cur' \subseteq cur
        \/ \E s \in Session, tx \in BOOLEAN : CleanupClose(s, tx)
        \/ \E m \in Model, s \in Session : CloseMark(m, s)
    BY DEF CycleStep, CycleCrash, CycleLoad, CleanupSelect, CleanupCommit, Forget,
           ModelOpened, CycleEnd, ModelOpen, ModelSkip, CloseNext, CloseOnChain,
           CleanupMeter, CloseFails, CloseMeter, CloseCommit
  <2> QED BY <2>1, <2>2, <2>3
<1> QED BY <1>1, <1>2, <1>4, <1>5, <1>6, <1>7, <1>8 DEF CloseGains

------------------------------------------------------------------------------
(* Metering.                                                               *)

(* What a step may add to the sets MeterInv speaks of.                     *)
Charged == {s \in Session : spent[s] > 0}
TxInHand == {s \in Session : bg[s] \in {"loadTx", "meterTx"}}
              \cup (IF cyc \in {"expMeterTx", "meterTx"} THEN cur ELSE {})
Recorded == metered \cup metObj \cup {s \in Session : bg[s] = "commit"}

LEMMA MeterParts ==
  ASSUME AllTypeOK
  PROVE  MeterInv <=> /\ \A s \in Charged \cup TxInHand : OffChain(s)
                      /\ Recorded \subseteq Charged
  BY DEF MeterInv, Charged, TxInHand, Recorded, AllTypeOK, TypeOK, CycleTypeOK

(* A step keeps MeterInv when it takes nothing from the counter and adds   *)
(* no charge or transaction but of a session off chain, and no record but  *)
(* of a charged one.                                                       *)
LEMMA MeterKept ==
  ASSUME AllTypeOK, AllTypeOK', MeterInv, Ages,
         Charged \subseteq Charged',
         \A s \in Charged' \cup TxInHand' : s \in Charged \cup TxInHand \/ OffChain(s)',
         Recorded' \subseteq Recorded \cup Charged'
  PROVE  MeterInv'
<1>1. \A s \in Charged \cup TxInHand : s \in Session /\ OffChain(s)
  BY MeterParts DEF Charged, TxInHand, AllTypeOK, CycleTypeOK
<1>2. \A s \in Charged' \cup TxInHand' : OffChain(s)'
  BY <1>1 DEF Ages
<1>3. Recorded' \subseteq Charged'
  BY MeterParts
<1>4. MeterInv' <=> /\ \A s \in Charged' \cup TxInHand' : OffChain(s)'
                    /\ Recorded' \subseteq Charged'
  BY DEF MeterInv, Charged, TxInHand, Recorded, AllTypeOK, TypeOK, CycleTypeOK
<1> QED BY <1>2, <1>3, <1>4

LEMMA MeterInit == Init => MeterInv
  BY DEF Init, PoolInit, CycleInit, MeterInv

LEMMA RequestMeters ==
  ASSUME AllTypeOK, AllTypeOK', MeterInv, Ages,
         NEW r \in Req, RequestNext(r), UNCHANGED cycVars
  PROVE  MeterInv'
<1> USE DEF AllTypeOK, TypeOK, CycleTypeOK
<1>1. UNCHANGED <<spent, metered>>
  BY DEF RequestNext, Start, Claim, Release, ReleaseFails, NoIdle, RouteFails,
         Finish, Depart, Vanish, Invalidate, InvalidateFails
<1>2. UNCHANGED bg \/ \E s \in Session : bg' = [bg EXCEPT ![s] = "close"]
  BY DEF RequestNext, Start, Claim, Release, ReleaseFails, NoIdle, RouteFails,
         Finish, Depart, Vanish, Invalidate, InvalidateFails
<1>3. Charged' = Charged
  BY <1>1 DEF Charged
<1>4. TxInHand' \subseteq TxInHand
  BY <1>2 DEF TxInHand
<1>5. Recorded' \subseteq Recorded
  BY <1>1, <1>2 DEF Recorded
<1> QED BY <1>3, <1>4, <1>5, MeterKept

LEMMA OpenMeters ==
  ASSUME AllTypeOK, AllTypeOK', MeterInv, Ages,
         NEW p \in Proc, OpenNext(p), UNCHANGED cycVars
  PROVE  MeterInv'
<1>1. UNCHANGED <<spent, metered, bg>>
  BY DEF OpenNext, PassGates, Refuse, OpenFails, InsertFails, OpenOnChain, OpenLost,
         InsertRow
<1>2. Charged' = Charged /\ TxInHand' = TxInHand /\ Recorded' = Recorded
  BY <1>1 DEF Charged, TxInHand, Recorded
<1> QED BY <1>2, MeterKept

LEMMA TaskMeters ==
  ASSUME AllTypeOK, AllTypeOK', MeterInv, Ages, NEW s \in Session,
         TaskNext(s) \/ Expire(s) \/ ChainExpiry(s), UNCHANGED cycVars
  PROVE  MeterInv'
<1> USE DEF AllTypeOK, TypeOK, CycleTypeOK
<1>1. ASSUME NEW tx \in BOOLEAN, BgClose(s, tx) PROVE MeterInv'
  <2>1. Charged' = Charged /\ Recorded' \subseteq Recorded
    BY <1>1 DEF BgClose, Charged, Recorded
  <2>2. \A x \in TxInHand' : x \in TxInHand \/ OffChain(x)'
    BY <1>1 DEF BgClose, CloseCall, TxInHand, OffChain
  <2> QED BY <2>1, <2>2, MeterKept
<1>2. CASE BgLoad(s)
  <2>1. Charged' = Charged /\ Recorded' \subseteq Recorded /\ TxInHand' \subseteq TxInHand
    BY <1>2 DEF BgLoad, Charged, Recorded, TxInHand
  <2> QED BY <2>1, MeterKept
<1>3. CASE BgMeter(s)
  <2>1. Charged' = Charged \cup {s} /\ Recorded' \subseteq Recorded \cup {s}
    BY <1>3 DEF BgMeter, Charged, Recorded
  <2>2. TxInHand' \subseteq TxInHand
    BY <1>3 DEF BgMeter, TxInHand
  <2>3. OffChain(s)
    BY <1>3 DEF BgMeter, Confirmed, OffChain, MeterInv
  <2>4. OffChain(s)'
    BY <2>3 DEF Ages
  <2> QED BY <2>1, <2>2, <2>4, MeterKept
<1>4. CASE BgSkip(s) \/ BgDies(s)
  <2>1. Charged' = Charged /\ Recorded' \subseteq Recorded /\ TxInHand' \subseteq TxInHand
    BY <1>4 DEF BgSkip, BgDies, Charged, Recorded, TxInHand
  <2> QED BY <2>1, MeterKept
<1>5. CASE BgCommit(s)
  <2>1. Charged' = Charged /\ Recorded' \subseteq Recorded /\ TxInHand' \subseteq TxInHand
    BY <1>5 DEF BgCommit, Charged, Recorded, TxInHand
  <2> QED BY <2>1, MeterKept
<1>6. CASE Expire(s) \/ ChainExpiry(s)
  <2>1. Charged' = Charged /\ Recorded' = Recorded /\ TxInHand' = TxInHand
    BY <1>6 DEF Expire, ChainExpiry, Charged, Recorded, TxInHand
  <2> QED BY <2>1, MeterKept
<1> QED BY <1>1, <1>2, <1>3, <1>4, <1>5, <1>6 DEF TaskNext

LEMMA CycleMeters ==
  ASSUME AllTypeOK, AllTypeOK', CloseInv, MeterInv, Ages, CycleStep \/ CycleCrash
  PROVE  MeterInv'
<1> USE DEF AllTypeOK, TypeOK, CycleTypeOK
<1>1. ASSUME NEW s \in Session, NEW tx \in BOOLEAN,
             s \in cur, tx => s \in TxInHand, MeterObject(s, tx), UNCHANGED <<bg, metered>>,
             cyc' \notin {"expMeterTx", "meterTx"}
      PROVE  MeterInv'
  <2>1. Charged \subseteq Charged'
    BY <1>1 DEF MeterObject, Charged
  <2>2. Charged' \subseteq Charged \/ (Charged' \subseteq Charged \cup {s} /\ OffChain(s))
    BY <1>1 DEF MeterObject, Confirmed, Charged, MeterInv, OffChain, TxInHand
  <2>3. TxInHand' \subseteq TxInHand
    BY <1>1 DEF TxInHand
  <2>4. Recorded' \subseteq Recorded \cup Charged'
    BY <1>1 DEF MeterObject, Charged, Recorded
  <2>5. OffChain(s) => OffChain(s)'
    BY DEF Ages
  <2> QED BY <2>1, <2>2, <2>3, <2>4, <2>5, MeterKept
<1>2. ASSUME UNCHANGED <<spent, bg>>,
             Recorded' \subseteq Recorded \cup Charged,
             \A x \in TxInHand' : x \in TxInHand \/ OffChain(x)'
      PROVE  MeterInv'
  <2>1. Charged' = Charged
    BY <1>2 DEF Charged
  <2> QED BY <1>2, <2>1, MeterKept
<1>3. ASSUME NEW s \in Session, CloseNext(s) PROVE MeterInv'
  <2>1. CASE CleanupMeter(s)
    BY <1>1, <2>1 DEF CleanupMeter, TxInHand
  <2>2. CASE CloseMeter(s)
    BY <1>1, <2>2 DEF CloseMeter, TxInHand
  <2>3. ASSUME NEW tx \in BOOLEAN, CleanupClose(s, tx) PROVE MeterInv'
    <3>1. \A x \in TxInHand' : x \in TxInHand \/ OffChain(x)'
      BY <2>3 DEF CleanupClose, CloseCall, TxInHand, OffChain
    <3> QED BY <1>2, <2>3, <3>1 DEF CleanupClose, Recorded
  <2>4. ASSUME NEW tx \in BOOLEAN, CloseOnChain(s, tx) PROVE MeterInv'
    <3>1. \A x \in TxInHand' : x \in TxInHand \/ OffChain(x)'
      BY <2>4 DEF CloseOnChain, CloseCall, TxInHand, OffChain, CloseInv
    <3> QED BY <1>2, <2>4, <3>1 DEF CloseOnChain, Recorded
  <2>5. CASE CloseFails(s)
    BY <1>2, <2>5 DEF CloseFails, Recorded, TxInHand
  <2>6. CASE CloseCommit(s)
    BY <1>2, <2>6 DEF CloseCommit, Recorded, TxInHand
  <2> QED BY <1>3, <2>1, <2>2, <2>3, <2>4, <2>5, <2>6 DEF CloseNext
<1>4. CASE CycleLoad
  BY <1>2, <1>4 DEF CycleLoad, Recorded, TxInHand
<1>5. CASE CleanupSelect
  BY <1>2, <1>5 DEF CleanupSelect, Recorded, TxInHand
<1>6. CASE CleanupCommit
  BY <1>2, <1>6 DEF CleanupCommit, Recorded, TxInHand
<1>7. CASE CycleEnd \/ CycleCrash
  BY <1>2, <1>7 DEF CycleEnd, CycleCrash, Forget, Recorded, TxInHand
<1>8. CASE ModelOpened \/ \E m \in Model : ModelOpen(m) \/ ModelSkip(m)
  BY <1>2, <1>8 DEF ModelOpened, ModelOpen, ModelSkip, Recorded, TxInHand
<1>9. ASSUME NEW m \in Model, NEW s \in Session, CloseMark(m, s) PROVE MeterInv'
  BY <1>2, <1>9 DEF CloseMark, Recorded, TxInHand
<1> QED BY <1>3, <1>4, <1>5, <1>6, <1>7, <1>8, <1>9 DEF CycleStep

------------------------------------------------------------------------------
(* How often a daylock is charged.                                         *)

LEMMA ChargeInit == Init => MarkInv /\ ChargeInv
  BY DEF Init, PoolInit, CycleInit, MarkInv, ChargeInv, BgCharge, CycleCharge, Gone

(* Only a background close touches the marks while the cycle waits: what   *)
(* it commits has left OPEN.                                               *)
LEMMA PoolMarks ==
  ASSUME AllTypeOK, AllTypeOK', CloseInv, MarkInv, Ages, PoolNext \/ OpenNext(Warmer),
         UNCHANGED cycVars
  PROVE  MarkInv'
<1> USE DEF AllTypeOK, TypeOK, CycleTypeOK
<1>1. ASSUME NEW s \in metered' \ metered PROVE bg[s] = "commit"
  <2>1. ASSUME NEW r \in Req, RequestNext(r) PROVE FALSE
    BY <1>1, <2>1 DEF RequestNext, Start, Claim, Release, ReleaseFails, NoIdle, RouteFails,
         Finish, Depart, Vanish, Invalidate, InvalidateFails
  <2>2. ASSUME NEW p \in Proc, OpenNext(p) PROVE FALSE
    BY <1>1, <2>2 DEF OpenNext, PassGates, Refuse, OpenFails, InsertFails, OpenOnChain,
         OpenLost, InsertRow
  <2>3. ASSUME NEW t \in Session, BgCommit(t) PROVE bg[s] = "commit"
    BY <1>1, <2>3 DEF BgCommit
  <2>4. ASSUME NEW t \in Session, TaskNext(t) \/ Expire(t) \/ ChainExpiry(t), ~BgCommit(t)
        PROVE  FALSE
    BY <1>1, <2>4 DEF TaskNext, BgClose, BgLoad, BgMeter, BgSkip, BgDies, Expire, ChainExpiry
  <2> QED BY <2>1, <2>2, <2>3, <2>4 DEF PoolNext
<1>2. \A s \in metered' : Gone(s)
  BY <1>1 DEF MarkInv, CloseInv, Gone
<1>3. \A s \in Session : Gone(s) => Gone(s)'
  BY DEF Ages, Gone
<1> QED BY <1>2, <1>3 DEF MarkInv

LEMMA CycleMarks ==
  ASSUME AllTypeOK, AllTypeOK', CloseInv, MarkInv, Ages, CycleStep \/ CycleCrash
  PROVE  MarkInv'
<1> USE DEF AllTypeOK, TypeOK, CycleTypeOK
<1>0. \A s \in Session : Gone(s) => Gone(s)'
  BY DEF Ages, Gone
<1>1. CASE CycleLoad
  BY <1>0, <1>1 DEF CycleLoad, MarkInv, Gone
<1>2. CASE CleanupSelect
  BY <1>0, <1>2 DEF CleanupSelect, MarkInv, Gone
<1>3. CASE CleanupCommit
  <2>1. \A s \in dirty : Gone(s)'
    BY <1>3 DEF CleanupCommit, Gone
  <2> QED BY <1>0, <1>3, <2>1 DEF CleanupCommit, MarkInv
<1>4. CASE CycleEnd \/ CycleCrash
  BY <1>0, <1>4 DEF CycleEnd, CycleCrash, Forget, MarkInv
<1>5. CASE ModelOpened \/ \E m \in Model : ModelOpen(m) \/ ModelSkip(m)
  BY <1>0, <1>5 DEF ModelOpened, ModelOpen, ModelSkip, Turn, MarkInv
<1>6. ASSUME NEW m \in Model, NEW s \in Session, CloseMark(m, s) PROVE MarkInv'
  <2>1. Gone(s)'
    BY <1>6 DEF CloseMark, Gone
  <2> QED BY <1>0, <1>6, <2>1 DEF CloseMark, Turn, MarkInv
<1>7. ASSUME NEW s \in Session, CloseNext(s) PROVE MarkInv'
  <2>1. ASSUME NEW tx \in BOOLEAN, CleanupClose(s, tx) PROVE MarkInv'
    BY <1>0, <2>1 DEF CleanupClose, MarkInv
  <2>2. ASSUME NEW tx \in BOOLEAN, CloseOnChain(s, tx) PROVE MarkInv'
    BY <1>0, <2>2 DEF CloseOnChain, MarkInv
  <2>3. CASE CleanupMeter(s)
    BY <1>0, <2>3 DEF CleanupMeter, MeterObject, MarkInv
  <2>4. CASE CloseMeter(s)
    BY <1>0, <2>4 DEF CloseMeter, MeterObject, MarkInv
  <2>5. CASE CloseFails(s)
    BY <1>0, <2>5 DEF CloseFails, MarkInv
  <2>6. CASE CloseCommit(s)
    BY <1>0, <2>6 DEF CloseCommit, MarkInv
  <2> QED BY <1>7, <2>1, <2>2, <2>3, <2>4, <2>5, <2>6 DEF CloseNext
<1> QED BY <1>1, <1>2, <1>3, <1>4, <1>5, <1>6, <1>7 DEF CycleStep

(* What has been charged for a session, and what can still come.           *)
Dues(s) == spent[s] + BgCharge(s) + CycleCharge(s)

LEMMA ChargeKept ==
  ASSUME AllTypeOK, AllTypeOK', ChargeInv, crashes' = crashes,
         \A s \in Session : Dues(s)' <= Dues(s)
  PROVE  ChargeInv'
<1>1. \A s \in Session : Dues(s) \in Int /\ Dues(s)' \in Int /\ crashes \in Int
  BY DEF AllTypeOK, TypeOK, CycleTypeOK, Dues, BgCharge, CycleCharge
<1> QED BY <1>1 DEF ChargeInv, Dues

(* A charge that could not come any more cannot come again.                *)
LEMMA ChargesShrink ==
  ASSUME AllTypeOK, AllTypeOK', Ages, NEW s \in Session
  PROVE  /\ bg'[s] = bg[s] => BgCharge(s)' <= BgCharge(s)
         /\ UNCHANGED cycVars => CycleCharge(s)' <= CycleCharge(s)
  BY DEF Ages, BgCharge, CycleCharge, Gone

LEMMA RequestCharges ==
  ASSUME AllTypeOK, AllTypeOK', ChargeInv, Ages,
         NEW r \in Req, RequestNext(r), UNCHANGED cycVars
  PROVE  ChargeInv'
<1> USE DEF AllTypeOK, TypeOK, CycleTypeOK
<1>1. UNCHANGED spent
  BY DEF RequestNext, Start, Claim, Release, ReleaseFails, NoIdle, RouteFails,
         Finish, Depart, Vanish, Invalidate, InvalidateFails
<1>2. UNCHANGED bg \/ \E s \in Session : state[s] = "OPEN" /\ bg' = [bg EXCEPT ![s] = "close"]
  BY DEF RequestNext, Start, Claim, Release, ReleaseFails, NoIdle, RouteFails,
         Finish, Depart, Vanish, Invalidate, InvalidateFails
<1>3. ASSUME NEW s \in Session PROVE Dues(s)' <= Dues(s)
  <2>1. CycleCharge(s)' <= CycleCharge(s)
    BY ChargesShrink
  <2>2. BgCharge(s)' <= BgCharge(s)
    <3>1. CASE UNCHANGED bg
      BY <3>1, ChargesShrink
    <3>2. ASSUME NEW t \in Session, state[t] = "OPEN", bg' = [bg EXCEPT ![t] = "close"]
          PROVE  BgCharge(s)' <= BgCharge(s)
      <4>1. CASE s = t
        BY <3>2, <4>1 DEF BgCharge, Gone
      <4>2. CASE s # t
        BY <3>2, <4>2, ChargesShrink
      <4> QED BY <4>1, <4>2
    <3> QED BY <1>2, <3>1, <3>2
  <2>3. spent[s] \in Nat /\ CycleCharge(s) \in Nat /\ CycleCharge(s)' \in Nat
        /\ BgCharge(s) \in Nat /\ BgCharge(s)' \in Nat
    BY DEF CycleCharge, BgCharge
  <2> QED BY <1>1, <2>1, <2>2, <2>3 DEF Dues
<1> QED BY <1>3, ChargeKept

LEMMA OpenCharges ==
  ASSUME AllTypeOK, AllTypeOK', ChargeInv, Ages,
         NEW p \in Proc, OpenNext(p), UNCHANGED cycVars
  PROVE  ChargeInv'
<1> USE DEF AllTypeOK, TypeOK, CycleTypeOK
<1>1. UNCHANGED <<spent, bg>>
  BY DEF OpenNext, PassGates, Refuse, OpenFails, InsertFails, OpenOnChain, OpenLost,
         InsertRow
<1>2. ASSUME NEW s \in Session PROVE Dues(s)' <= Dues(s)
  <2>1. CycleCharge(s)' <= CycleCharge(s) /\ BgCharge(s)' <= BgCharge(s)
    BY <1>1, ChargesShrink
  <2>2. spent[s] \in Nat /\ CycleCharge(s) \in Nat /\ CycleCharge(s)' \in Nat
        /\ BgCharge(s) \in Nat /\ BgCharge(s)' \in Nat
    BY DEF CycleCharge, BgCharge
  <2> QED BY <1>1, <2>1, <2>2 DEF Dues
<1> QED BY <1>2, ChargeKept

(* The background charge is taken once: BgMeter leaves the phases that may *)
(* still charge.                                                           *)
LEMMA TaskCharges ==
  ASSUME AllTypeOK, AllTypeOK', CloseInv, ChargeInv, Ages, NEW s \in Session,
         TaskNext(s) \/ Expire(s) \/ ChainExpiry(s), UNCHANGED cycVars
  PROVE  ChargeInv'
<1> USE DEF AllTypeOK, TypeOK, CycleTypeOK
<1>1. ASSUME NEW t \in Session PROVE Dues(t)' <= Dues(t)
  <2>1. CycleCharge(t)' <= CycleCharge(t)
    BY ChargesShrink
  <2>2. spent'[t] + BgCharge(t)' <= spent[t] + BgCharge(t)
    <3>1. CASE BgMeter(s)
      BY <3>1 DEF BgMeter, BgCharge, Gone, CloseInv
    <3>2. CASE BgLoad(s) \/ \E tx \in BOOLEAN : BgClose(s, tx)
      BY <3>2 DEF BgLoad, BgClose, BgCharge, Gone
    <3>3. CASE BgSkip(s) \/ BgDies(s) \/ BgCommit(s)
      BY <3>3 DEF BgSkip, BgDies, BgCommit, BgCharge, Gone
    <3>4. CASE Expire(s) \/ ChainExpiry(s)
      BY <3>4 DEF Expire, ChainExpiry, BgCharge, Gone
    <3> QED BY <3>1, <3>2, <3>3, <3>4 DEF TaskNext
  <2>3. spent[t] \in Nat /\ spent'[t] \in Nat
        /\ CycleCharge(t) \in Nat /\ CycleCharge(t)' \in Nat
        /\ BgCharge(t) \in Nat /\ BgCharge(t)' \in Nat
    BY DEF CycleCharge, BgCharge
  <2> QED BY <2>1, <2>2, <2>3 DEF Dues
<1>2. crashes' = crashes
  OBVIOUS
<1> QED BY <1>1, <1>2, ChargeKept

(* The cycle charges an object that carries no mark and marks it; only a   *)
(* crash lets a row that is still OPEN be charged by the next cycle again. *)
LEMMA CycleCharges ==
  ASSUME AllTypeOK, AllTypeOK', CloseInv, MarkInv, ChargeInv, Ages, CycleStep \/ CycleCrash
  PROVE  ChargeInv'
<1> USE DEF AllTypeOK, TypeOK, CycleTypeOK
<1>1. UNCHANGED bg
  BY DEF CycleStep, CycleCrash, CycleLoad, CleanupSelect, CleanupCommit,
         ModelOpened, CycleEnd, ModelOpen, ModelSkip, CloseMark, CloseNext,
         CleanupClose, CloseOnChain, CleanupMeter, CloseFails, CloseMeter, CloseCommit
<1>2. \A s \in Session : /\ BgCharge(s)' <= BgCharge(s) /\ spent[s] \in Nat /\ spent'[s] \in Nat
                         /\ BgCharge(s) \in Nat /\ BgCharge(s)' \in Nat
                         /\ CycleCharge(s) \in {0, 1} /\ CycleCharge(s)' \in {0, 1}
  <2>1. \A s \in Session : BgCharge(s)' <= BgCharge(s)
    BY <1>1, ChargesShrink
  <2> QED BY <2>1 DEF BgCharge, CycleCharge
<1>3. ASSUME crashes' = crashes,
             \A s \in Session : spent'[s] + CycleCharge(s)' <= spent[s] + CycleCharge(s)
      PROVE  ChargeInv'
  <2>1. \A s \in Session : Dues(s)' <= Dues(s)
    BY <1>2, <1>3 DEF Dues
  <2> QED BY <1>3, <2>1, ChargeKept
<1>4. ASSUME UNCHANGED <<spent, crashes>>,
             \A s \in Session : CycleCharge(s)' = 1 => CycleCharge(s) = 1
      PROVE  ChargeInv'
  <2>1. \A s \in Session : spent'[s] + CycleCharge(s)' <= spent[s] + CycleCharge(s)
    BY <1>2, <1>4
  <2> QED BY <1>3, <1>4, <2>1
<1>5. ASSUME NEW s \in Session, NEW tx \in BOOLEAN, s \in cur, MeterObject(s, tx),
             UNCHANGED <<state, snap, expq, crashes>>, cur' \subseteq cur
      PROVE  ChargeInv'
  <2>1. ASSUME NEW t \in Session
        PROVE  spent'[t] + CycleCharge(t)' <= spent[t] + CycleCharge(t)
    BY <1>5 DEF MeterObject, CycleCharge, Gone
  <2> QED BY <1>3, <1>5, <2>1
<1>6. ASSUME NEW s \in Session, CloseNext(s) PROVE ChargeInv'
  <2>1. CASE CleanupMeter(s)
    BY <1>5, <2>1 DEF CleanupMeter
  <2>2. CASE CloseMeter(s)
    BY <1>5, <2>2 DEF CloseMeter
  <2>3. ASSUME NEW tx \in BOOLEAN, CleanupClose(s, tx) PROVE ChargeInv'
    <3>1. \A t \in Session : CycleCharge(t)' = 1 => CycleCharge(t) = 1
      BY <2>3 DEF CleanupClose, CycleCharge, Gone
    <3> QED BY <1>4, <2>3, <3>1 DEF CleanupClose
  <2>4. ASSUME NEW tx \in BOOLEAN, CloseOnChain(s, tx) PROVE ChargeInv'
    <3>1. \A t \in Session : CycleCharge(t)' = 1 => CycleCharge(t) = 1
      BY <2>4 DEF CloseOnChain, CycleCharge, Gone
    <3> QED BY <1>4, <2>4, <3>1 DEF CloseOnChain
  <2>5. CASE CloseFails(s)
    <3>1. \A t \in Session : CycleCharge(t)' = 1 => CycleCharge(t) = 1
      BY <2>5 DEF CloseFails, CycleCharge, Gone
    <3> QED BY <1>4, <2>5, <3>1 DEF CloseFails
  <2>6. CASE CloseCommit(s)
    <3>1. \A t \in Session : CycleCharge(t)' = 1 => CycleCharge(t) = 1
      BY <2>6 DEF CloseCommit, CycleCharge, Gone
    <3> QED BY <1>4, <2>6, <3>1 DEF CloseCommit
  <2> QED BY <1>6, <2>1, <2>2, <2>3, <2>4, <2>5, <2>6 DEF CloseNext
<1>7. CASE CycleLoad
  <2>1. \A t \in Session : CycleCharge(t)' = 1 => CycleCharge(t) = 1
    BY <1>7 DEF CycleLoad, CycleCharge, Gone, MarkInv
  <2> QED BY <1>4, <1>7, <2>1 DEF CycleLoad
<1>8. CASE CleanupSelect
  <2>1. \A t \in Session : CycleCharge(t)' = 1 => CycleCharge(t) = 1
    BY <1>8 DEF CleanupSelect, CycleCharge, Gone
  <2> QED BY <1>4, <1>8, <2>1 DEF CleanupSelect
<1>9. CASE CleanupCommit
  <2>1. \A t \in Session : CycleCharge(t)' = 1 => CycleCharge(t) = 1
    BY <1>9 DEF CleanupCommit, CycleCharge, Gone
  <2> QED BY <1>4, <1>9, <2>1 DEF CleanupCommit
<1>10. CASE CycleEnd
  <2>1. \A t \in Session : CycleCharge(t)' = 1 => CycleCharge(t) = 1
    BY <1>10 DEF CycleEnd, Forget, CycleCharge, Gone, MarkInv
  <2> QED BY <1>4, <1>10, <2>1 DEF CycleEnd
<1>11. CASE CycleCrash
  <2>1. spent' = spent /\ crashes' = crashes + 1 /\ crashes \in Nat
    BY <1>11 DEF CycleCrash
  <2> QED BY <1>2, <2>1 DEF ChargeInv
<1>12. CASE ModelOpened \/ \E m \in Model : ModelOpen(m) \/ ModelSkip(m)
  <2>1. \A t \in Session : CycleCharge(t)' = 1 => CycleCharge(t) = 1
    BY <1>12 DEF ModelOpened, ModelOpen, ModelSkip, CycleCharge, Gone
  <2> QED BY <1>4, <1>12, <2>1 DEF ModelOpened, ModelOpen, ModelSkip
<1>13. ASSUME NEW m \in Model, NEW s \in Session, CloseMark(m, s) PROVE ChargeInv'
  <2>1. \A t \in Session : CycleCharge(t)' = 1 => CycleCharge(t) = 1
    BY <1>13 DEF CloseMark, MayClose, IdleObjects, Loaded, CycleCharge, Gone, CloseInv
  <2> QED BY <1>4, <1>13, <2>1 DEF CloseMark
<1> QED BY <1>6, <1>7, <1>8, <1>9, <1>10, <1>11, <1>12, <1>13 DEF CycleStep

------------------------------------------------------------------------------
(* The inductive invariant.                                                *)

LEMMA InvInit == Init => IInv
  BY TypeInit, SlotInit, CloseInit, MeterInit, ChargeInit DEF IInv

LEMMA InvStep == ASSUME IInv, [Next]_vars PROVE IInv' /\ Ages
<1> USE DEF IInv
<1>1. AllTypeOK'
  BY TypeStep
<1>2. CASE PoolNext /\ UNCHANGED cycVars
  <2>1. ASSUME NEW r \in Req, RequestNext(r)
        PROVE  SlotInv' /\ OpenInv' /\ CloseInv' /\ MeterInv' /\ ChargeInv' /\ Ages
    BY <1>1, <1>2, <2>1, RequestSlots, RequestCloses, CloseKept, RequestMeters, RequestCharges
  <2>2. ASSUME NEW r \in Req, OpenNext(r)
        PROVE  SlotInv' /\ OpenInv' /\ CloseInv' /\ MeterInv' /\ ChargeInv' /\ Ages
    BY <1>1, <1>2, <2>2, OpenSlots, OpenCloses, CloseKept, OpenMeters, OpenCharges
  <2>3. ASSUME NEW s \in Session, TaskNext(s) \/ Expire(s) \/ ChainExpiry(s)
        PROVE  SlotInv' /\ OpenInv' /\ CloseInv' /\ MeterInv' /\ ChargeInv' /\ Ages
    BY <1>1, <1>2, <2>3, TaskSlots, TaskCloses, CloseKept, TaskMeters, TaskCharges
  <2>4. SlotInv' /\ OpenInv' /\ CloseInv' /\ MeterInv' /\ ChargeInv' /\ Ages
    BY <1>2, <2>1, <2>2, <2>3 DEF PoolNext
  <2> QED BY <1>1, <1>2, <2>4, PoolMarks
<1>3. CASE AutoOpen
  <2>1. OpenNext(Warmer) /\ UNCHANGED cycVars /\ Warmer \in Proc
    BY <1>3 DEF AutoOpen
  <2>2. SlotInv' /\ OpenInv' /\ CloseInv' /\ MeterInv' /\ ChargeInv' /\ Ages
    BY <1>1, <2>1, OpenSlots, OpenCloses, CloseKept, OpenMeters, OpenCharges
  <2> QED BY <1>1, <2>1, <2>2, PoolMarks
<1>4. CASE CycleStep \/ CycleCrash
  <2>1. SlotInv' /\ OpenInv' /\ CloseInv' /\ MeterInv' /\ Ages
    BY <1>1, <1>4, CycleSlots, CycleCloses, CloseKept, CycleMeters
  <2> QED BY <1>1, <1>4, <2>1, CycleMarks, CycleCharges
<1>5. CASE UNCHANGED vars
  <2>1. AllTypeOK' /\ SlotInv' /\ OpenInv' /\ CloseInv' /\ MeterInv' /\ Ages
    BY <1>5 DEF AllTypeOK, TypeOK, CycleTypeOK, SlotInv, OpenInv, CloseInv, Unclaimable,
                MeterInv, OffChain, Ages
  <2>2. MarkInv' /\ ChargeInv'
    BY <1>5 DEF MarkInv, ChargeInv, BgCharge, CycleCharge, Gone
  <2> QED BY <2>1, <2>2
<1> QED BY <1>2, <1>3, <1>4, <1>5 DEF Next

(* The strengthening the other theorems rest on.                           *)
THEOREM Inductive == Spec => []IInv
  BY InvInit, InvStep, PTL DEF Spec

------------------------------------------------------------------------------
(* What the inductive invariant gives.                                     *)

(* active_requests counts exactly the assignments: every claim, open,      *)
(* retry, release and loss keeps it right, in every interleaving.          *)
THEOREM SlotsAccounted == Spec => []SlotAccounting
<1>1. ASSUME IInv PROVE SlotAccounting
  <2> SUFFICES ASSUME NEW s \in Session
               PROVE  active[s] = Cardinality({r \in Req : s \in slot[r]})
                                    + (IF s \in lost THEN 1 ELSE 0)
    BY DEF SlotAccounting
  <2> DEFINE H == {r \in Req : s \in slot[r]}
  <2>1. active[s] \in {0, 1}
    BY <1>1 DEF IInv, AllTypeOK, TypeOK
  <2>2. CASE H = {}
    <3>1. Cardinality(H) = 0
      BY <2>2, FS_EmptySet
    <3>2. active[s] = (IF s \in lost THEN 1 ELSE 0)
      BY <1>1, <2>1, <2>2 DEF IInv, SlotInv
    <3> QED BY <3>1, <3>2
  <2>3. ASSUME NEW r \in H PROVE active[s] = Cardinality(H) + (IF s \in lost THEN 1 ELSE 0)
    <3>1. s \notin lost /\ active[s] = 1
      BY <1>1 DEF IInv, SlotInv
    <3>2. H = {r}
      BY <1>1 DEF IInv, SlotInv
    <3>3. Cardinality(H) = 1
      BY <3>2, FS_Singleton
    <3> QED BY <3>1, <3>3
  <2> QED BY <2>2, <2>3
<1> QED BY <1>1, Inductive, PTL

(* The premium counter is charged only for sessions that are off chain.    *)
THEOREM OnlyClosedMetered == Spec => []MeterOnlyClosed
<1>1. IInv => MeterOnlyClosed
  BY DEF IInv, MeterInv, MeterOnlyClosed, OffChain
<1> QED BY <1>1, Inductive, PTL

(* A row with a daylock has been added to the premium counter.             *)
THEOREM MeteredCounted == Spec => []MeteredIsCounted
<1>1. IInv => MeteredIsCounted
  BY DEF IInv, MeterInv, MeteredIsCounted
<1> QED BY <1>1, Inductive, PTL

(* A daylock is charged at most once by a background close and once by the *)
(* cycle, and once more for every cycle that was cut off.                  *)
THEOREM DoubleMeterBounded == Spec => []DoubleMeterBound
<1>1. ASSUME IInv PROVE DoubleMeterBound
  <2> SUFFICES ASSUME NEW s \in Session PROVE spent[s] <= 2 + crashes
    BY DEF DoubleMeterBound
  <2>1. spent[s] + BgCharge(s) + CycleCharge(s) <= 2 + crashes
    BY <1>1 DEF IInv, ChargeInv
  <2>2. spent[s] \in Nat /\ crashes \in Nat /\ BgCharge(s) \in Nat /\ CycleCharge(s) \in Nat
    BY <1>1 DEF IInv, AllTypeOK, TypeOK, CycleTypeOK, BgCharge, CycleCharge
  <2> QED BY <2>1, <2>2
<1> QED BY <1>1, Inductive, PTL

(* No step assigns a session that the gateway has closed on chain.         *)
THEOREM NeverAssignedClosed == Spec => ClosedNeverAssigned
<1> DEFINE Safe == \A r \in Req, s \in Session :
                     s \in slot'[r] \ slot[r] => chain[s] # "closed"
<1>1. ASSUME IInv, [Next]_vars PROVE [Safe]_vars
  <2> SUFFICES ASSUME NEW r \in Req, NEW s \in Session, s \in slot'[r] \ slot[r]
               PROVE  chain[s] # "closed"
    OBVIOUS
  <2>1. \/ Claim(r, s)
        \/ \E p \in Proc : InsertRow(p, s)
    <3> USE <1>1 DEF IInv, AllTypeOK, TypeOK
    <3>1. CASE PoolNext /\ UNCHANGED cycVars
      <4>1. ASSUME NEW q \in Req, RequestNext(q) PROVE Claim(r, s)
        BY <4>1 DEF RequestNext, Start, Claim, Release, ReleaseFails, NoIdle, RouteFails,
             Finish, Depart, Vanish, Invalidate, InvalidateFails, Reroute, Reset
      <4>2. ASSUME NEW q \in Req, OpenNext(q) PROVE InsertRow(q, s)
        BY <4>2 DEF OpenNext, PassGates, Refuse, OpenFails, InsertFails, OpenOnChain,
             OpenLost, InsertRow
      <4>3. ASSUME NEW x \in Session, TaskNext(x) \/ Expire(x) \/ ChainExpiry(x)
            PROVE  slot' = slot
        BY <4>3 DEF TaskNext, BgClose, BgLoad, BgMeter, BgSkip, BgCommit, BgDies,
             Expire, ChainExpiry
      <4> QED BY <3>1, <4>1, <4>2, <4>3 DEF PoolNext
    <3>2. CASE AutoOpen
      BY <3>2 DEF AutoOpen, OpenNext, PassGates, Refuse, OpenFails, InsertFails,
           OpenOnChain, OpenLost, InsertRow
    <3>3. CASE CycleStep \/ CycleCrash
      BY <3>3 DEF CycleStep, CycleCrash, CycleLoad, CleanupSelect, CleanupCommit,
           ModelOpened, CycleEnd, ModelOpen, ModelSkip, CloseMark, CloseNext,
           CleanupClose, CloseOnChain, CleanupMeter, CloseFails, CloseMeter, CloseCommit
    <3> QED BY <3>1, <3>2, <3>3 DEF Next
  <2>2. CASE Claim(r, s)
    BY <1>1, <2>2 DEF Claim, Claimable, IInv, CloseInv, Unclaimable
  <2>3. ASSUME NEW p \in Proc, InsertRow(p, s) PROVE chain[s] # "closed"
    BY <1>1, <2>3 DEF InsertRow, IInv, OpenInv, CloseInv, Unclaimable
  <2> QED BY <2>1, <2>2, <2>3
<1>2. IInv /\ [Next]_vars => [Safe]_vars
  BY <1>1
<1> QED BY <1>2, Inductive, PTL DEF Spec, ClosedNeverAssigned

------------------------------------------------------------------------------
(* The soft cap under racing openers.                                      *)

LEMMA CapInit == Init => CapInv /\ OvershootBound
<1> SUFFICES ASSUME Init PROVE CapInv /\ OvershootBound
  OBVIOUS
<1> USE DEF Init, PoolInit, CycleInit
<1>1. \A m \in Model : OpenRows(m) = {} /\ InFlight(m) = {}
  BY DEF OpenRows, InFlight
<1>2. CapInv
  BY <1>1, FS_EmptySet DEF CapInv
<1>3. IsFiniteSet(Proc) /\ Cardinality(Proc) \in Nat /\ Cardinality({}) = 0
  BY PoolAssumption, FS_AddElement, FS_CardinalityType, FS_EmptySet
<1>4. Cardinality(Proc) # 0
  BY <1>3, FS_EmptySet
<1>5. ASSUME NEW m \in Model, SoftCap[m] > 0
      PROVE  Cardinality(OpenRows(m)) + Cardinality(InFlight(m)) < SoftCap[m] + Cardinality(Proc)
  <2>1. SoftCap[m] \in Nat
    BY PoolAssumption
  <2>2. Cardinality(OpenRows(m)) = 0 /\ Cardinality(InFlight(m)) = 0
    BY <1>1, <1>3
  <2> QED BY <1>3, <1>4, <1>5, <2>1, <2>2
<1> QED BY <1>2, <1>5 DEF OvershootBound

(* No step puts a row in state OPEN but the insert, and none an opener in  *)
(* flight but the gates.                                                   *)
LEMMA OnlyInsertOpens ==
  ASSUME AllTypeOK, [Next]_vars, NEW s \in Session, state[s] # "OPEN", state'[s] = "OPEN"
  PROVE  \E p \in Proc : InsertRow(p, s)
<1> USE DEF AllTypeOK, TypeOK
<1>1. ASSUME NEW r \in Req, RequestNext(r) PROVE FALSE
  BY <1>1 DEF RequestNext, Start, Claim, Release, ReleaseFails, NoIdle, RouteFails,
       Finish, Depart, Vanish, Invalidate, InvalidateFails
<1>2. ASSUME NEW p \in Proc, OpenNext(p) PROVE InsertRow(p, s)
  BY <1>2 DEF OpenNext, PassGates, Refuse, OpenFails, InsertFails, OpenOnChain, OpenLost,
       InsertRow
<1>3. ASSUME NEW t \in Session, TaskNext(t) \/ Expire(t) \/ ChainExpiry(t) PROVE FALSE
  BY <1>3 DEF TaskNext, BgClose, BgLoad, BgMeter, BgSkip, BgCommit, BgDies, Expire, ChainExpiry
<1>4. CASE CycleStep \/ CycleCrash
  BY <1>4 DEF CycleStep, CycleCrash, CycleLoad, CleanupSelect, CleanupCommit,
         ModelOpened, CycleEnd, ModelOpen, ModelSkip, CloseMark, CloseNext,
         CleanupClose, CloseOnChain, CleanupMeter, CloseFails, CloseMeter, CloseCommit
<1>5. Warmer \in Proc
  OBVIOUS
<1> QED BY <1>1, <1>2, <1>3, <1>4, <1>5 DEF Next, PoolNext, AutoOpen

LEMMA OnlyGatesAdmit ==
  ASSUME AllTypeOK, [Next]_vars, NEW m \in Model, NEW p \in Proc,
         p \notin InFlight(m), p \in InFlight(m)'
  PROVE  PassGates(p) /\ m \in want[p]
<1> USE DEF AllTypeOK, TypeOK, CycleTypeOK, InFlight
<1>1. ASSUME NEW r \in Req, RequestNext(r) PROVE FALSE
  BY <1>1 DEF RequestNext, Start, Claim, Release, ReleaseFails, NoIdle, RouteFails,
       Finish, Depart, Vanish, Invalidate, InvalidateFails, Reroute, Reset
<1>2. ASSUME NEW q \in Proc, OpenNext(q) PROVE PassGates(p) /\ m \in want[p]
  <2>1. CASE PassGates(q)
    BY <2>1 DEF PassGates
  <2>2. CASE Refuse(q) \/ OpenFails(q) \/ InsertFails(q)
    BY <2>2 DEF Refuse, OpenFails, InsertFails
  <2>3. ASSUME NEW s \in Session, OpenOnChain(q, s) \/ OpenLost(q, s) \/ InsertRow(q, s)
        PROVE  FALSE
    BY <2>3 DEF OpenOnChain, OpenLost, InsertRow, Opens
  <2> QED BY <1>2, <2>1, <2>2, <2>3 DEF OpenNext
<1>3. ASSUME NEW t \in Session, TaskNext(t) \/ Expire(t) \/ ChainExpiry(t) PROVE FALSE
  BY <1>3 DEF TaskNext, BgClose, BgLoad, BgMeter, BgSkip, BgCommit, BgDies, Expire, ChainExpiry
<1>4. CASE CycleStep \/ CycleCrash
  BY <1>4 DEF CycleStep, CycleCrash, CycleLoad, CleanupSelect, CleanupCommit, Reset,
         ModelOpened, CycleEnd, ModelOpen, ModelSkip, CloseMark, CloseNext,
         CleanupClose, CloseOnChain, CleanupMeter, CloseFails, CloseMeter, CloseCommit
<1>5. Warmer \in Proc
  OBVIOUS
<1> QED BY <1>1, <1>2, <1>3, <1>4, <1>5 DEF Next, PoolNext, AutoOpen

LEMMA RowsStayFinite ==
  ASSUME AllTypeOK, CapInv, [Next]_vars, NEW m \in Model
  PROVE  IsFiniteSet(OpenRows(m)')
<1>1. IsFiniteSet(OpenRows(m))
  BY DEF CapInv
<1>2. CASE OpenRows(m)' \subseteq OpenRows(m)
  BY <1>1, <1>2, FS_Subset
<1>3. ASSUME NEW s \in OpenRows(m)' \ OpenRows(m) PROVE IsFiniteSet(OpenRows(m)')
  <2>1. s \in Session /\ state[s] # "OPEN" /\ state'[s] = "OPEN"
    BY <1>3 DEF OpenRows
  <2>2. PICK p \in Proc : InsertRow(p, s)
    BY <2>1, OnlyInsertOpens
  <2>3. OpenRows(m)' \subseteq OpenRows(m) \cup {s}
    BY <2>2 DEF OpenRows, InsertRow, AllTypeOK, TypeOK
  <2> QED BY <1>1, <2>3, FS_AddElement, FS_Subset
<1> QED BY <1>2, <1>3

LEMMA OpenersStep ==
  ASSUME AllTypeOK, AllTypeOK', CapInv, [Next]_vars
  PROVE  CapInv'
<1> USE DEF AllTypeOK, TypeOK, CycleTypeOK
<1> DEFINE Owned == /\ \A p \in Proc : opened[p] # {} => pc[p] = "inserting"
                    /\ \A p \in Proc : \A s \in opened[p] : ModelOf[s] \in want[p]
                    /\ cyc # "opening" => pc[Warmer] = "idle"
<1>0. Warmer \in Proc /\ Warmer \notin Req /\ Owned
  BY PoolAssumption DEF CapInv
<1> SUFFICES Owned'
  BY RowsStayFinite DEF CapInv
<1>1. ASSUME NEW r \in Req, RequestNext(r), UNCHANGED cycVars PROVE Owned'
  BY <1>0, <1>1 DEF RequestNext, Start, Claim, Release, ReleaseFails, NoIdle, RouteFails,
       Finish, Depart, Vanish, Invalidate, InvalidateFails, Reroute, Reset
<1>2. ASSUME NEW p \in Proc, OpenNext(p), UNCHANGED cycVars PROVE Owned'
  <2>1. CASE PassGates(p) \/ Refuse(p) \/ OpenFails(p) \/ InsertFails(p)
    BY <1>0, <1>2, <2>1 DEF PassGates, Refuse, OpenFails, InsertFails
  <2>2. ASSUME NEW s \in Session, OpenOnChain(p, s) \/ OpenLost(p, s) \/ InsertRow(p, s)
        PROVE  Owned'
    BY <1>0, <1>2, <2>2 DEF OpenOnChain, OpenLost, InsertRow, Opens
  <2> QED BY <1>2, <2>1, <2>2 DEF OpenNext
<1>3. ASSUME NEW t \in Session, TaskNext(t) \/ Expire(t) \/ ChainExpiry(t), UNCHANGED cycVars
      PROVE  Owned'
  BY <1>0, <1>3 DEF TaskNext, BgClose, BgLoad, BgMeter, BgSkip, BgCommit, BgDies, Expire,
       ChainExpiry
<1>4. CASE CycleStep \/ CycleCrash
  <2>1. CASE ModelOpened \/ CycleCrash
    BY <1>0, <2>1 DEF ModelOpened, CycleCrash, Forget, Reset
  <2>2. CASE \E m \in Model : ModelOpen(m)
    BY <1>0, <2>2 DEF ModelOpen, Turn
  <2>3. UNCHANGED procVars /\ cyc # "opening" => Owned'
    BY <1>0
  <2>4. CASE CycleLoad \/ CleanupSelect \/ CleanupCommit \/ CycleEnd
             \/ \E m \in Model : ModelSkip(m)
    BY <2>3, <2>4 DEF CycleLoad, CleanupSelect, CleanupCommit, CycleEnd, ModelSkip, Turn
  <2>5. ASSUME NEW m \in Model, NEW s \in Session, CloseMark(m, s) PROVE Owned'
    BY <2>3, <2>5 DEF CloseMark, Turn
  <2>6. ASSUME NEW s \in Session, CloseNext(s) PROVE Owned'
    BY <2>3, <2>6 DEF CloseNext, CleanupClose, CloseOnChain, CleanupMeter, CloseFails,
         CloseMeter, CloseCommit
  <2> QED BY <1>4, <2>1, <2>2, <2>4, <2>5, <2>6 DEF CycleStep
<1>5. CASE UNCHANGED vars
  BY <1>0, <1>5
<1> QED BY <1>0, <1>1, <1>2, <1>3, <1>4, <1>5 DEF Next, PoolNext, AutoOpen

LEMMA CapStep ==
  ASSUME AllTypeOK, AllTypeOK', CapInv, OvershootBound, [Next]_vars
  PROVE  OvershootBound'
<1> SUFFICES ASSUME NEW m \in Model, SoftCap[m] > 0
             PROVE  Cardinality(OpenRows(m)') + Cardinality(InFlight(m)')
                      < SoftCap[m] + Cardinality(Proc)
  BY DEF OvershootBound
<1>1. /\ IsFiniteSet(Proc) /\ IsFiniteSet(OpenRows(m)) /\ IsFiniteSet(OpenRows(m)')
      /\ SoftCap[m] \in Nat
  BY RowsStayFinite, PoolAssumption, FS_AddElement DEF CapInv
<1>2. /\ IsFiniteSet(InFlight(m)) /\ Cardinality(InFlight(m)) <= Cardinality(Proc)
      /\ IsFiniteSet(InFlight(m)') /\ Cardinality(InFlight(m)') <= Cardinality(Proc)
  BY <1>1, FS_Subset DEF InFlight
<1>3. /\ Cardinality(Proc) \in Nat /\ Cardinality(OpenRows(m)) \in Nat
      /\ Cardinality(OpenRows(m)') \in Nat
      /\ Cardinality(InFlight(m)) \in Nat /\ Cardinality(InFlight(m)') \in Nat
  BY <1>1, <1>2, FS_CardinalityType
<1>4. Cardinality(OpenRows(m)) + Cardinality(InFlight(m)) < SoftCap[m] + Cardinality(Proc)
  BY DEF OvershootBound
<1>5. CASE OpenRows(m)' \subseteq OpenRows(m) /\ InFlight(m)' \subseteq InFlight(m)
  <2>1. /\ Cardinality(OpenRows(m)') <= Cardinality(OpenRows(m))
        /\ Cardinality(InFlight(m)') <= Cardinality(InFlight(m))
    BY <1>1, <1>2, <1>5, FS_Subset
  <2> QED BY <1>1, <1>3, <1>4, <2>1
<1>6. ASSUME NEW p \in InFlight(m)' \ InFlight(m)
      PROVE  Cardinality(OpenRows(m)') + Cardinality(InFlight(m)')
               < SoftCap[m] + Cardinality(Proc)
  <2>1. PassGates(p) /\ m \in want[p]
    BY <1>6, OnlyGatesAdmit DEF InFlight
  <2>2. OpenRows(m)' = OpenRows(m) /\ Cardinality(OpenRows(m)) < SoftCap[m]
    BY <2>1, <1>1 DEF PassGates, BelowSoftCap, OpenRows
  <2> QED BY <1>1, <1>2, <1>3, <2>2
<1>7. ASSUME NEW s \in OpenRows(m)' \ OpenRows(m)
      PROVE  Cardinality(OpenRows(m)') + Cardinality(InFlight(m)')
               < SoftCap[m] + Cardinality(Proc)
  <2>1. s \in Session /\ ModelOf[s] = m /\ state[s] # "OPEN" /\ state'[s] = "OPEN"
    BY <1>7 DEF OpenRows
  <2>2. PICK p \in Proc : InsertRow(p, s)
    BY <2>1, OnlyInsertOpens
  <2>3. OpenRows(m)' = OpenRows(m) \cup {s}
    BY <2>1, <2>2 DEF OpenRows, InsertRow, AllTypeOK, TypeOK
  <2>4. p \in InFlight(m)
    BY <2>1, <2>2 DEF InFlight, InsertRow, CapInv
  <2>5. InFlight(m)' \subseteq InFlight(m) \ {p}
    BY <2>2 DEF InFlight, InsertRow, AllTypeOK, TypeOK
  <2>6. Cardinality(OpenRows(m)') = Cardinality(OpenRows(m)) + 1
    BY <1>1, <1>7, <2>3, FS_AddElement
  <2>7. /\ IsFiniteSet(InFlight(m) \ {p})
        /\ Cardinality(InFlight(m) \ {p}) = Cardinality(InFlight(m)) - 1
    BY <1>2, <2>4, FS_RemoveElement
  <2>8. Cardinality(InFlight(m)') <= Cardinality(InFlight(m) \ {p})
    BY <2>5, <2>7, FS_Subset
  <2> QED BY <1>1, <1>3, <1>4, <2>6, <2>7, <2>8
<1> QED BY <1>5, <1>6, <1>7

(* Racing openers overshoot the soft cap of a model by no more than the    *)
(* openers that can be past its gate together, for any number of them.     *)
THEOREM SoftCapBounded == Spec => []OvershootBound
<1>1. AllTypeOK /\ AllTypeOK' /\ CapInv /\ OvershootBound /\ [Next]_vars
        => CapInv' /\ OvershootBound'
  BY OpenersStep, CapStep
<1> QED BY <1>1, CapInit, TypeCorrect, PTL DEF Spec

------------------------------------------------------------------------------
(* The pool with its automation implements SessionLease.                   *)

Holders == [s \in Session |-> {r \in Req : s \in slot[r]}]

LEMMA LeaseInit == Init => Lease!Init
  BY DEF Init, PoolInit, CycleInit, Lease!Init, Retired

(* A step that grants, returns and loses nothing can only retire sessions. *)
LEMMA LeaseRetire ==
  ASSUME AllTypeOK, AllTypeOK', Ages, UNCHANGED <<slot, lost>>
  PROVE  Lease!Next
<1>1. Retired' \in SUBSET Session
  BY DEF Retired, AllTypeOK, TypeOK
<1>2. Retired \subseteq Retired'
  BY DEF Retired, Ages
<1>3. Lease!Retire(Retired')
  BY <1>2 DEF Lease!Retire
<1> QED BY <1>1, <1>3 DEF Lease!Next

LEMMA LeaseAcquire ==
  ASSUME AllTypeOK, SlotInv, NEW r \in Req, NEW s \in Session,
         state[s] = "absent" \/ active[s] = 0, s \notin Retired,
         \A q \in Req : slot'[q] = (IF q = r THEN slot[q] \cup {s} ELSE slot[q]),
         UNCHANGED lost, Retired' = Retired
  PROVE  Lease!Next
<1>1. s \notin lost /\ \A q \in Req : s \notin slot[q]
  BY DEF SlotInv
<1>2. Holders[s] = {}
  BY <1>1 DEF Holders
<1>3. ASSUME NEW x \in Session
      PROVE  {q \in Req : x \in slot'[q]} = (IF x = s THEN {r} ELSE {q \in Req : x \in slot[q]})
  BY <1>1
<1>4. Holders' = [Holders EXCEPT ![s] = {r}]
  BY <1>3 DEF Holders
<1>5. Lease!Acquire(r, s)
  BY <1>1, <1>2, <1>4 DEF Lease!Acquire, Holders
<1> QED BY <1>5 DEF Lease!Next

LEMMA LeaseReturn ==
  ASSUME AllTypeOK, SlotInv, NEW r \in Req, NEW s \in Session, Release(r, s)
  PROVE  Lease!Next
<1>1. s \in slot[r] /\ \A q \in Req \ {r} : s \notin slot[q]
  BY DEF Release, SlotInv
<1>2. \A q \in Req : slot'[q] = slot[q] \ {s}
  BY <1>1 DEF Release, AllTypeOK, TypeOK
<1>3. ASSUME NEW x \in Session
      PROVE  {q \in Req : x \in slot'[q]} = (IF x = s THEN {} ELSE {q \in Req : x \in slot[q]})
  BY <1>2
<1>4. Holders' = [Holders EXCEPT ![s] = {}]
  BY <1>3 DEF Holders
<1>5. Lease!Return(r, s)
  BY <1>1, <1>4 DEF Lease!Return, Holders, Release, Retired
<1> QED BY <1>5 DEF Lease!Next

LEMMA LeaseLose ==
  ASSUME AllTypeOK, NEW r \in Req, NEW S \in SUBSET Session, S \subseteq slot[r],
         slot' = [slot EXCEPT ![r] = @ \ S], lost' = lost \cup S, Retired' = Retired
  PROVE  Lease!Next
<1>1. \A q \in Req : slot'[q] = (IF q = r THEN slot[q] \ S ELSE slot[q])
  BY DEF AllTypeOK, TypeOK
<1>2. ASSUME NEW x \in Session
      PROVE  {q \in Req : x \in slot'[q]}
               = {q \in Req : x \in slot[q]} \ (IF x \in S THEN {r} ELSE {})
  BY <1>1
<1>3. Holders' = [x \in Session |-> Holders[x] \ (IF x \in S THEN {r} ELSE {})]
  BY <1>2 DEF Holders
<1>4. Lease!Lose(r, S)
  BY <1>3 DEF Lease!Lose, Holders
<1> QED BY <1>4 DEF Lease!Next

LEMMA LeaseStep ==
  ASSUME IInv, IInv', Ages, [Next]_vars
  PROVE  [Lease!Next]_Lease!lvars
<1> USE DEF IInv
<1>1. CASE PoolNext /\ UNCHANGED cycVars
  <2>1. ASSUME NEW r \in Req, NEW s \in Session, Claim(r, s) PROVE Lease!Next
    <3>1. /\ active[s] = 0 /\ s \notin Retired
          /\ UNCHANGED lost /\ Retired' = Retired
      BY <2>1 DEF Claim, Claimable, Retired
    <3>2. \A q \in Req : slot'[q] = (IF q = r THEN slot[q] \cup {s} ELSE slot[q])
      BY <2>1 DEF Claim, AllTypeOK, TypeOK
    <3> QED BY <3>1, <3>2, LeaseAcquire
  <2>2. ASSUME NEW r \in Req, NEW s \in Session, InsertRow(r, s) PROVE Lease!Next
    <3>1. state[s] = "absent" /\ s \notin past
      BY <2>2 DEF InsertRow, OpenInv, CloseInv
    <3>2. s \notin Retired /\ Retired' = Retired /\ UNCHANGED lost
      BY <2>2, <3>1 DEF InsertRow, Retired, AllTypeOK, TypeOK
    <3>3. \A q \in Req : slot'[q] = (IF q = r THEN slot[q] \cup {s} ELSE slot[q])
      BY <2>2 DEF InsertRow
    <3> QED BY <3>1, <3>2, <3>3, LeaseAcquire
  <2>3. ASSUME NEW r \in Req, NEW s \in Session, Release(r, s) PROVE Lease!Next
    BY <2>3, LeaseReturn
  <2>4. ASSUME NEW r \in Req, NEW s \in Session, ReleaseFails(r, s) PROVE Lease!Next
    <3>1. /\ {s} \subseteq slot[r] /\ slot' = [slot EXCEPT ![r] = @ \ {s}]
          /\ lost' = lost \cup {s} /\ Retired' = Retired
      BY <2>4 DEF ReleaseFails, Retired
    <3>2. {s} \in SUBSET Session
      OBVIOUS
    <3> QED BY <3>1, <3>2, LeaseLose
  <2>5. ASSUME NEW r \in Req, Vanish(r) PROVE Lease!Next
    <3>1. /\ slot[r] \in SUBSET Session /\ slot' = [slot EXCEPT ![r] = @ \ slot[r]]
          /\ lost' = lost \cup slot[r] /\ Retired' = Retired
      BY <2>5 DEF Vanish, Retired, AllTypeOK, TypeOK
    <3> QED BY <3>1, LeaseLose
  <2>6. \/ \E r \in Req, s \in Session : Claim(r, s) \/ InsertRow(r, s)
                                           \/ Release(r, s) \/ ReleaseFails(r, s)
        \/ \E r \in Req : Vanish(r)
        \/ UNCHANGED <<slot, lost>>
    <3>1. ASSUME NEW r \in Req, RequestNext(r)
          PROVE  \/ \E s \in Session : Claim(r, s) \/ Release(r, s) \/ ReleaseFails(r, s)
                 \/ Vanish(r)
                 \/ UNCHANGED <<slot, lost>>
      BY <3>1 DEF RequestNext, Start, NoIdle, RouteFails, Finish, Depart, Reset,
           Invalidate, InvalidateFails, Reroute
    <3>2. ASSUME NEW r \in Req, OpenNext(r)
          PROVE  (\E s \in Session : InsertRow(r, s)) \/ UNCHANGED <<slot, lost>>
      BY <3>2 DEF OpenNext, PassGates, Refuse, OpenFails, InsertFails, OpenOnChain, OpenLost
    <3>3. ASSUME NEW s \in Session, TaskNext(s) \/ Expire(s) \/ ChainExpiry(s)
          PROVE  UNCHANGED <<slot, lost>>
      BY <3>3 DEF TaskNext, BgClose, BgLoad, BgMeter, BgSkip, BgCommit, BgDies,
           Expire, ChainExpiry
    <3> QED BY <1>1, <3>1, <3>2, <3>3 DEF PoolNext
  <2> QED BY <2>1, <2>2, <2>3, <2>4, <2>5, <2>6, LeaseRetire
<1>2. CASE AutoOpen
  <2>1. UNCHANGED lost
    BY <1>2 DEF AutoOpen, OpenNext, PassGates, Refuse, OpenFails, InsertFails,
         OpenOnChain, OpenLost, InsertRow
  <2>2. slot' = slot
    <3>1. ASSUME NEW s \in Session, InsertRow(Warmer, s) PROVE slot' = slot
      <4>1. slot' = [r \in Req |-> slot[r]]
        BY <3>1, PoolAssumption DEF InsertRow
      <4>2. slot = [r \in Req |-> slot[r]]
        BY DEF AllTypeOK, TypeOK
      <4> QED BY <4>1, <4>2
    <3> QED BY <1>2, <3>1 DEF AutoOpen, OpenNext, PassGates, Refuse, OpenFails,
              InsertFails, OpenOnChain, OpenLost
  <2> QED BY <2>1, <2>2, LeaseRetire
<1>3. CASE CycleStep \/ CycleCrash
  <2>1. UNCHANGED <<slot, lost>>
    BY <1>3 DEF CycleStep, CycleCrash, CycleLoad, CleanupSelect, CleanupCommit,
         ModelOpened, CycleEnd, ModelOpen, ModelSkip, CloseMark, CloseNext,
         CleanupClose, CloseOnChain, CleanupMeter, CloseFails, CloseMeter, CloseCommit
  <2> QED BY <2>1, LeaseRetire
<1>4. CASE UNCHANGED vars
  BY <1>4 DEF Lease!lvars, Retired
<1> QED BY <1>1, <1>2, <1>3, <1>4 DEF Next

(* Whatever the automation does to a session, and whoever dies meanwhile,  *)
(* requests see leases: exclusive, not granted again once lost, and not    *)
(* granted on a session that is invalidated, closing or expired.           *)
THEOREM LeaseImplemented == Spec => ImplementsLease
<1>1. ASSUME IInv, IInv', [Next]_vars PROVE [Lease!Next]_Lease!lvars
  BY <1>1, InvStep, LeaseStep
<1>2. IInv /\ IInv' /\ [Next]_vars => [Lease!Next]_Lease!lvars
  BY <1>1
<1> QED BY <1>2, LeaseInit, Inductive, PTL DEF Spec, ImplementsLease, Lease!Spec
===============================================================================
