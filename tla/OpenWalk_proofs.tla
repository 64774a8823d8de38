--------------------------- MODULE OpenWalk_proofs ---------------------------
(***************************************************************************)
(* The bid walk and the wallet throttle for any number of openers,         *)
(* replicas, bids, providers and attempts.                                 *)
(***************************************************************************)
EXTENDS OpenWalk, FiniteSetTheorems, TLAPS

LEMMA InitInv == Init => IInv
  BY FS_EmptySet, WalkAssumption
  DEF Init, IInv, TypeOK, PC, LockOwned, GotHeld, SerialAlone, PaidIsKnown,
      WalkOrder, NoPingPong

LEMMA NamedType == \A b \in Bid : Named(b) \subseteq Provider
  BY WalkAssumption DEF Named

------------------------------------------------------------------------------
(* Type correctness.                                                       *)

LEMMA TypeOpener ==
  ASSUME TypeOK, NEW o \in Opener, OpenerStep(o)
  PROVE  TypeOK'
<1> USE DEF TypeOK, PC, walkVars, paidVars, Goto, Reset, Unlock
<1>1. CASE PassGates(o) \/ Refused(o) \/ NoBids(o) \/ GiveUp(o) \/ Settle(o)
  BY <1>1 DEF PassGates, Refused, NoBids, GiveUp, Settle
<1>2. ASSUME NEW B \in SUBSET Bid, List(o, B) PROVE TypeOK'
  BY <1>2 DEF List
<1>3. ASSUME NEW b \in Bid, Call(o, b) PROVE TypeOK'
  BY <1>3 DEF Call
<1>4. ASSUME NEW s \in Session, Answered(o, s) \/ NoSessionId(o, s) PROVE TypeOK'
  BY <1>4 DEF Answered, NoSessionId
<1>5. CASE Impaired(o)
  <2>1. PICK b \in tried[o] :
          /\ omitted' = [omitted EXCEPT ![o] = @ \cup Named(b)]
          /\ cool' = [cool EXCEPT ![At[o]] = @ \cup Named(b)]
    BY <1>5 DEF Impaired
  <2>2. Named(b) \subseteq Provider
    BY NamedType
  <2> QED BY <1>5, <2>1, <2>2, WalkAssumption DEF Impaired
<1>6. CASE Fatal(o) \/ NonceConflict(o)
  BY <1>6, WalkAssumption DEF Fatal, NonceConflict
<1>7. CASE Insert(o) \/ InsertFails(o)
  BY <1>7 DEF Insert, InsertFails
<1> QED BY <1>1, <1>2, <1>3, <1>4, <1>5, <1>6, <1>7 DEF OpenerStep, CallReturns

LEMMA TypeStep == TypeOK /\ [Next]_vars => TypeOK'
<1> SUFFICES ASSUME TypeOK, [Next]_vars PROVE TypeOK'
  OBVIOUS
<1>1. CASE \E o \in Opener : OpenerStep(o)
  BY <1>1, TypeOpener
<1> USE DEF TypeOK, PC, walkVars, paidVars, Goto, Reset, Unlock
<1>2. ASSUME NEW o \in Opener, NEW om \in SUBSET Provider, Start(o, om) PROVE TypeOK'
  BY <1>2 DEF Start
<1>3. ASSUME NEW o \in Opener, Acquire(o) \/ Cancel(o) PROVE TypeOK'
  BY <1>3 DEF Acquire, Cancel
<1>4. ASSUME NEW o \in Opener, NEW s \in Session, AnswerLost(o, s) PROVE TypeOK'
  BY <1>4 DEF AnswerLost
<1>5. ASSUME NEW r \in Replica, NEW p \in Provider, ThrottleEnds(r) \/ CoolOffEnds(r, p)
      PROVE TypeOK'
  BY <1>5 DEF ThrottleEnds, CoolOffEnds
<1>6. ASSUME NEW r \in Replica, ThrottleEnds(r) PROVE TypeOK'
  BY <1>6 DEF ThrottleEnds
<1>7. CASE UNCHANGED vars
  BY <1>7 DEF vars
<1>8. \A o \in Opener : {} \in SUBSET Provider /\ \A p \in Provider : {p} \in SUBSET Provider
  OBVIOUS
<1> QED BY <1>1, <1>2, <1>3, <1>4, <1>5, <1>6, <1>7, <1>8 DEF Next

------------------------------------------------------------------------------
(* The wallet lock.                                                        *)

(* A step that leaves the lock alone enters or leaves no locked call.      *)
LEMMA LockIdle ==
  ASSUME TypeOK, LockOwned, SerialAlone, UNCHANGED lock,
         \A o \in Opener : pc'[o] = "locked" <=> pc[o] = "locked"
  PROVE  LockOwned' /\ SerialAlone'
  BY DEF LockOwned, SerialAlone

(* Whoever leaves a call, however it ended, leaves the lock.               *)
LEMMA LockLeft ==
  ASSUME TypeOK, LockOwned, SerialAlone, NEW o \in Opener, NEW ok, Unlock(o, ok),
         NEW l \in PC, l # "locked", Goto(o, l)
  PROVE  LockOwned' /\ SerialAlone'
  BY WalkAssumption DEF TypeOK, LockOwned, SerialAlone, Unlock, Goto

LEMMA LockStep ==
  ASSUME TypeOK, LockOwned, SerialAlone, [Next]_vars
  PROVE  LockOwned' /\ SerialAlone'
<1> USE DEF PC
<1>1. ASSUME NEW o \in Opener, Acquire(o) PROVE LockOwned' /\ SerialAlone'
  <2> USE <1>1 DEF Acquire, Goto
  <2>1. pc' = [pc EXCEPT ![o] = "locked"] /\ pc[o] # "locked"
    OBVIOUS
  <2>2. At[o] \in Replica /\ lock' = [lock EXCEPT ![At[o]] = {o}]
    BY WalkAssumption
  <2>3. \A q \in Opener : At[q] = At[o] => pc[q] # "locked"
    BY <2>2 DEF LockOwned
  <2>4. LockOwned'
    BY <2>1, <2>2, <2>3 DEF TypeOK, LockOwned
  <2>5. SerialAlone'
    BY <2>1, <2>3 DEF TypeOK, SerialAlone
  <2> QED BY <2>4, <2>5
<1>2. ASSUME NEW o \in Opener,
             \/ \E s \in Session : Answered(o, s) \/ NoSessionId(o, s)
             \/ Impaired(o) \/ Fatal(o) \/ Cancel(o)
      PROVE LockOwned' /\ SerialAlone'
  BY <1>2, LockLeft DEF Answered, NoSessionId, Impaired, Fatal, Cancel, Reset
<1>3. ASSUME NEW o \in Opener,
             \/ \E om : Start(o, om)
             \/ PassGates(o) \/ Refused(o) \/ NoBids(o) \/ GiveUp(o) \/ NonceConflict(o)
             \/ Settle(o) \/ Insert(o) \/ InsertFails(o)
             \/ \E B : List(o, B)
             \/ \E b : Call(o, b)
             \/ \E s : AnswerLost(o, s)
      PROVE LockOwned' /\ SerialAlone'
  BY <1>3, LockIdle
  DEF Start, PassGates, Refused, NoBids, GiveUp, NonceConflict, Settle, Insert,
      InsertFails, List, Call, AnswerLost, Goto, Reset, TypeOK
<1>4. CASE \E r \in Replica : ThrottleEnds(r) \/ \E p \in Provider : CoolOffEnds(r, p)
  BY <1>4, LockIdle DEF ThrottleEnds, CoolOffEnds
<1>5. CASE UNCHANGED vars
  BY <1>5, LockIdle DEF vars
<1> QED BY <1>1, <1>2, <1>3, <1>4, <1>5 DEF Next, OpenerStep, CallReturns

------------------------------------------------------------------------------
(* Paid sessions.                                                          *)

(* A step that touches no session may move openers that hold none.         *)
LEMMA PaidIdle ==
  ASSUME GotHeld, PaidIsKnown, UNCHANGED paidVars,
         \A o \in Opener : pc[o] = "inserting" => pc'[o] = "inserting"
  PROVE  GotHeld' /\ PaidIsKnown'
  BY DEF GotHeld, PaidIsKnown, paidVars

LEMMA PaidStep ==
  ASSUME TypeOK, GotHeld, PaidIsKnown, [Next]_vars
  PROVE  GotHeld' /\ PaidIsKnown'
<1> USE DEF PC
<1>1. ASSUME NEW o \in Opener, NEW s \in Session, Answered(o, s)
      PROVE GotHeld' /\ PaidIsKnown'
  BY <1>1 DEF Answered, InCall, Goto, TypeOK, GotHeld, PaidIsKnown
<1>2. ASSUME NEW o \in Opener, NEW s \in Session, NoSessionId(o, s) \/ AnswerLost(o, s)
      PROVE GotHeld' /\ PaidIsKnown'
  BY <1>2 DEF NoSessionId, AnswerLost, InCall, Reset, Goto, TypeOK, GotHeld, PaidIsKnown
<1>3. ASSUME NEW o \in Opener, Insert(o) PROVE GotHeld' /\ PaidIsKnown'
  BY <1>3 DEF Insert, Reset, Goto, TypeOK, GotHeld, PaidIsKnown
<1>4. ASSUME NEW o \in Opener, InsertFails(o) \/ Cancel(o) PROVE GotHeld' /\ PaidIsKnown'
  <2>1. /\ orphans' = orphans \cup got[o] /\ got' = [got EXCEPT ![o] = {}]
        /\ pc' = [pc EXCEPT ![o] = "idle"] /\ onchain' = onchain /\ rows' = rows
    BY <1>4 DEF InsertFails, Cancel, Reset, Goto
  <2>2. GotHeld'
    BY <2>1 DEF TypeOK, GotHeld
  <2>3. \A s : (\E q \in Opener : s \in got[q]) => s \in orphans' \/ \E q \in Opener : s \in got'[q]
    BY <2>1 DEF TypeOK
  <2> QED BY <2>1, <2>2, <2>3 DEF PaidIsKnown
<1>5. ASSUME NEW o \in Opener,
             \/ \E om : Start(o, om)
             \/ PassGates(o) \/ Refused(o) \/ NoBids(o) \/ GiveUp(o) \/ NonceConflict(o)
             \/ Settle(o) \/ Acquire(o) \/ Impaired(o) \/ Fatal(o)
             \/ \E B : List(o, B)
             \/ \E b : Call(o, b)
      PROVE GotHeld' /\ PaidIsKnown'
  BY <1>5, PaidIdle
  DEF Start, PassGates, Refused, NoBids, GiveUp, NonceConflict, Settle, Acquire,
      Impaired, Fatal, InCall, List, Call, Goto, Reset, TypeOK
<1>6. CASE \E r \in Replica : ThrottleEnds(r) \/ \E p \in Provider : CoolOffEnds(r, p)
  BY <1>6, PaidIdle DEF ThrottleEnds, CoolOffEnds
<1>7. CASE UNCHANGED vars
  BY <1>7, PaidIdle DEF vars, paidVars
<1> QED BY <1>1, <1>2, <1>3, <1>4, <1>5, <1>6, <1>7 DEF Next, OpenerStep, CallReturns

------------------------------------------------------------------------------
(* The walk.                                                               *)

(* The walk of an opener that has none, or has just lost it, is in order.  *)
LEMMA WalkReset ==
  ASSUME TypeOK, WalkOrder, NoPingPong, NEW o \in Opener, Reset(o)
  PROVE  WalkOrder' /\ NoPingPong'
  BY FS_EmptySet, WalkAssumption DEF TypeOK, WalkOrder, NoPingPong, Reset, Goto

(* Nothing is tried before the list is there, and an opener may move among *)
(* the steps of a call.                                                    *)
LEMMA WalkIdle ==
  ASSUME TypeOK, WalkOrder, NoPingPong, UNCHANGED <<rest, tried>>, NEW o \in Opener,
         NEW l \in PC, pc' = [pc EXCEPT ![o] = l], l # "walking",
         l \in {"idle", "gates", "listing"} => pc[o] \in {"idle", "gates", "listing"},
         \A q \in Opener : tried[q] # {} => omitted[q] \subseteq omitted'[q]
  PROVE  WalkOrder' /\ NoPingPong'
  BY DEF TypeOK, WalkOrder, NoPingPong

LEMMA WalkSame ==
  ASSUME WalkOrder, NoPingPong, UNCHANGED <<pc, walkVars>>
  PROVE  WalkOrder' /\ NoPingPong'
  BY DEF WalkOrder, NoPingPong, walkVars

LEMMA WalkCall ==
  ASSUME TypeOK, WalkOrder, NoPingPong, NEW o \in Opener, NEW b \in Bid, Call(o, b)
  PROVE  WalkOrder' /\ NoPingPong'
<1> USE DEF TypeOK, Call, Goto
<1>1. b \in rest[o] /\ Named(b) \cap omitted[o] = {}
  BY DEF NextBid, Open
<1>2. \A c \in tried[o] :
        Price[c] < Price[b] /\ Named(c) \subseteq omitted[o] /\ Named(c) \cap Named(b) = {}
  BY <1>1 DEF WalkOrder
<1>3. /\ IsFiniteSet(tried'[o])
      /\ Cardinality(tried'[o]) <= MaxAttempts
  <2>1. IsFiniteSet(tried[o]) /\ Cardinality(tried[o]) < MaxAttempts
    BY DEF WalkOrder
  <2>2. b \notin tried[o]
    BY <1>2, WalkAssumption
  <2>3. Cardinality(tried[o]) \in Nat
    BY <2>1, FS_CardinalityType
  <2>4. tried'[o] = tried[o] \cup {b}
    OBVIOUS
  <2>5. /\ IsFiniteSet(tried[o] \cup {b})
        /\ Cardinality(tried[o] \cup {b}) = Cardinality(tried[o]) + 1
    BY <2>1, <2>2, FS_AddElement
  <2> QED BY <2>1, <2>3, <2>4, <2>5, WalkAssumption
<1>4. \A c, d \in tried'[o] :
        /\ Price[c] < Price[d] => Named(c) \subseteq omitted'[o]
        /\ c # d => Named(c) \cap Named(d) = {}
  BY <1>2, WalkAssumption DEF WalkOrder, NoPingPong
<1>5. \A c \in tried'[o], d \in rest'[o] : Price[c] < Price[d]
  BY <1>2, WalkAssumption DEF WalkOrder
<1>6. pc'[o] \notin {"idle", "gates", "listing", "walking"}
  OBVIOUS
<1>7. \A q \in Opener \ {o} :
        /\ pc'[q] = pc[q] /\ tried'[q] = tried[q] /\ rest'[q] = rest[q]
        /\ omitted'[q] = omitted[q]
  OBVIOUS
<1> QED BY <1>3, <1>4, <1>5, <1>6, <1>7 DEF WalkOrder, NoPingPong

(* The provider of the call that failed, the dearest so far, joins those   *)
(* that are omitted.                                                       *)
LEMMA WalkImpaired ==
  ASSUME TypeOK, WalkOrder, NoPingPong, NEW o \in Opener, Impaired(o)
  PROVE  WalkOrder' /\ NoPingPong'
<1> USE DEF TypeOK, Impaired, Goto
<1>1. PICK b \in tried[o] :
        /\ \A c \in tried[o] : Price[c] <= Price[b]
        /\ omitted' = [omitted EXCEPT ![o] = @ \cup Named(b)]
  OBVIOUS
<1>2. \A c \in tried[o] : c = b \/ Price[c] < Price[b]
  BY <1>1, WalkAssumption
<1>3. \A c \in tried[o] : Named(c) \subseteq omitted'[o]
  BY <1>1, <1>2 DEF WalkOrder
<1>4. \A q \in Opener : omitted[q] \subseteq omitted'[q]
  BY <1>1
<1>5. \A q \in Opener \ {o} : pc'[q] = pc[q]
  OBVIOUS
<1> QED BY <1>3, <1>4, <1>5 DEF WalkOrder, NoPingPong

LEMMA WalkStep ==
  ASSUME TypeOK, WalkOrder, NoPingPong, [Next]_vars
  PROVE  WalkOrder' /\ NoPingPong'
<1>1. ASSUME NEW o \in Opener,
             \/ Refused(o) \/ NoBids(o) \/ GiveUp(o) \/ Fatal(o) \/ Insert(o)
             \/ InsertFails(o) \/ Cancel(o)
             \/ \E s \in Session : NoSessionId(o, s)
      PROVE WalkOrder' /\ NoPingPong'
  BY <1>1, WalkReset
  DEF Refused, NoBids, GiveUp, Fatal, Insert, InsertFails, Cancel, NoSessionId
<1>2. ASSUME NEW o \in Opener, NEW om, Start(o, om) PROVE WalkOrder' /\ NoPingPong'
  <2>1. tried[o] = {}
    BY <1>2 DEF Start, WalkOrder
  <2> QED BY <1>2, <2>1, WalkIdle DEF Start, Goto, PC, TypeOK
<1>3. ASSUME NEW o \in Opener,
             \/ PassGates(o) \/ NonceConflict(o) \/ Settle(o) \/ Acquire(o)
             \/ \E s \in Session : Answered(o, s)
      PROVE WalkOrder' /\ NoPingPong'
  BY <1>3, WalkIdle
  DEF PassGates, NonceConflict, Settle, Acquire, Answered, InCall, Goto, PC, walkVars
<1>4. ASSUME NEW o \in Opener, NEW B \in SUBSET Bid, List(o, B)
      PROVE WalkOrder' /\ NoPingPong'
  BY <1>4 DEF List, Goto, TypeOK, WalkOrder, NoPingPong
<1>5. ASSUME NEW o \in Opener, NEW b \in Bid, Call(o, b) PROVE WalkOrder' /\ NoPingPong'
  BY <1>5, WalkCall
<1>6. ASSUME NEW o \in Opener, Impaired(o) PROVE WalkOrder' /\ NoPingPong'
  BY <1>6, WalkImpaired
<1>7. CASE \E o \in Opener, s \in Session : AnswerLost(o, s)
  BY <1>7, WalkSame DEF AnswerLost
<1>8. CASE \E r \in Replica : ThrottleEnds(r) \/ \E p \in Provider : CoolOffEnds(r, p)
  BY <1>8, WalkSame DEF ThrottleEnds, CoolOffEnds
<1>9. CASE UNCHANGED vars
  BY <1>9, WalkSame DEF vars
<1> QED
  BY <1>1, <1>2, <1>3, <1>4, <1>5, <1>6, <1>7, <1>8, <1>9 DEF Next, OpenerStep, CallReturns

------------------------------------------------------------------------------
(* Theorems.                                                               *)

(* The invariant of the module is inductive.                               *)
THEOREM Inductive == Spec => []IInv
<1>1. IInv /\ [Next]_vars => IInv'
  BY TypeStep, LockStep, PaidStep, WalkStep DEF IInv
<1> QED BY InitInv, <1>1, PTL DEF Spec

(* A throttled wallet runs one operation of its replica at a time.         *)
THEOREM Serialised == Spec => []SerialAlone
<1>1. IInv => SerialAlone
  BY DEF IInv
<1> QED BY Inductive, <1>1, PTL

(* No paid session is forgotten outside the named losses.                  *)
THEOREM PaidKnown == Spec => []PaidIsKnown
<1>1. IInv => PaidIsKnown
  BY DEF IInv
<1> QED BY Inductive, <1>1, PTL

(* No open calls one provider twice, whatever cools off meanwhile.         *)
THEOREM ProvidersOnce == Spec => []NoPingPong
<1>1. IInv => NoPingPong
  BY DEF IInv
<1> QED BY Inductive, <1>1, PTL

(* No call goes to a provider on the replica's cool-off.                   *)
THEOREM CoolOffRespected == Spec => CoolOffHeld
<1>1. ASSUME TypeOK, [Next]_vars, NEW o \in Opener, NEW b \in tried'[o] \ tried[o]
      PROVE  Named(b) \cap cool[At[o]] = {}
  <2>1. ASSUME NEW q \in Opener, NEW c \in Bid, Call(q, c)
        PROVE  Named(b) \cap cool[At[o]] = {}
    BY <1>1, <2>1 DEF Call, NextBid, Open, TypeOK
  <2>2. ASSUME NEW q \in Opener,
               \/ \E om : Start(q, om)
               \/ PassGates(q) \/ Refused(q) \/ NoBids(q) \/ GiveUp(q) \/ CallReturns(q)
               \/ Settle(q) \/ Insert(q) \/ InsertFails(q) \/ Acquire(q) \/ Cancel(q)
               \/ \E B : List(q, B)
               \/ \E s : AnswerLost(q, s)
        PROVE  tried'[o] \subseteq tried[o]
    BY <2>2, <1>1
    DEF Start, PassGates, Refused, NoBids, GiveUp, CallReturns, Settle, Insert,
        InsertFails, Acquire, Cancel, List, AnswerLost, Answered, NoSessionId, Impaired,
        Fatal, NonceConflict, Reset, walkVars, TypeOK
  <2>3. CASE \E r \in Replica : ThrottleEnds(r) \/ \E p \in Provider : CoolOffEnds(r, p)
    BY <2>3, <1>1 DEF ThrottleEnds, CoolOffEnds, walkVars
  <2>4. CASE UNCHANGED vars
    BY <2>4, <1>1 DEF vars, walkVars
  <2> QED BY <1>1, <2>1, <2>2, <2>3, <2>4 DEF Next, OpenerStep
<1>2. TypeOK /\ [Next]_vars =>
        [\A o \in Opener : \A b \in tried'[o] \ tried[o] :
           Named(b) \cap cool[At[o]] = {}]_vars
  BY <1>1
<1>3. IInv => TypeOK
  BY DEF IInv
<1> QED BY Inductive, <1>2, <1>3, PTL DEF Spec, CoolOffHeld
=============================================================================
