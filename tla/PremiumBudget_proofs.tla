------------------------ MODULE PremiumBudget_proofs ------------------------
(***************************************************************************)
(* The bound on the premium budget, for every number of opens, replicas    *)
(* and sessions and every budget.  The bound itself is not inductive: an   *)
(* open that was cleared will still add a session.  Margin sets a place    *)
(* aside for each of them.  A gate that passes restores it, because what   *)
(* it cannot see goes to unseen and the rest is below the budget; nobody   *)
(* else takes more than the place set aside.                               *)
(***************************************************************************)
EXTENDS PremiumBudget, FiniteSetTheorems, TLAPS

LEMMA Finite ==
  ASSUME TypeOK
  PROVE  /\ \A S \in SUBSET Session : IsFiniteSet(S) /\ Cardinality(S) \in Nat
         /\ \A S \in SUBSET Opener : IsFiniteSet(S) /\ Cardinality(S) \in Nat
  BY FS_Subset, FS_CardinalityType, BudgetAssumption

(* What is smaller weighs no more.                                         *)
LEMMA Smaller ==
  ASSUME NEW S \in SUBSET Session, NEW T \in SUBSET S
  PROVE  Cardinality(T) \in Nat /\ Cardinality(S) \in Nat
         /\ Cardinality(T) <= Cardinality(S)
<1>1. IsFiniteSet(S)
  BY FS_Subset, BudgetAssumption
<1> QED BY <1>1, FS_Subset, FS_CardinalityType

LEMMA Together ==
  ASSUME NEW S, NEW T, IsFiniteSet(S), IsFiniteSet(T)
  PROVE  /\ IsFiniteSet(S \cup T) /\ Cardinality(S \cup T) \in Nat
         /\ Cardinality(S \cup T) <= Cardinality(S) + Cardinality(T)
<1>1. IsFiniteSet(S \cup T)
      /\ Cardinality(S \cup T) = Cardinality(S) + Cardinality(T) - Cardinality(S \cap T)
  BY FS_Union
<1>2. IsFiniteSet(S \cap T)
  BY FS_Intersection
<1>3. /\ Cardinality(S) \in Nat /\ Cardinality(T) \in Nat
      /\ Cardinality(S \cap T) \in Nat /\ Cardinality(S \cup T) \in Nat
  BY <1>1, <1>2, FS_CardinalityType
<1> QED BY <1>1, <1>3

LEMMA SeenIn == ASSUME TypeOK PROVE Seen \in SUBSET Session /\ Going \in SUBSET Opener
  BY DEF TypeOK, Seen, Exposed, Paid, InFlight, Going

LEMMA InitInv == Init => IInv
<1> SUFFICES ASSUME Init PROVE IInv
  OBVIOUS
<1>1. TypeOK
  BY DEF Init, TypeOK
<1>2. Flights
  BY DEF Init, Flights
<1>3. Seen = {} /\ Going = {}
  BY DEF Init, Seen, Exposed, Paid, InFlight, Going
<1>4. Cardinality(Seen) = 0 /\ Cardinality(Going) = 0
  BY <1>3, FS_EmptySet
<1>5. Cardinality(Opener) \in Nat
  BY FS_CardinalityType, BudgetAssumption
<1> QED BY <1>1, <1>2, <1>4, <1>5, BudgetAssumption DEF IInv, Margin

------------------------------------------------------------------------------
(* One step.                                                               *)

LEMMA TypeStep == ASSUME TypeOK, [Next]_vars PROVE TypeOK'
<1> USE DEF TypeOK, Goto, rowVars, meterVars
<1>1. ASSUME NEW o \in Opener, Start(o) \/ ReadSpent(o) \/ Refused(o) \/ Strays(o)
      PROVE  TypeOK'
  BY <1>1, BudgetAssumption DEF Start, ReadSpent, Refused, Strays
<1>2. ASSUME NEW o \in Opener, NEW ok \in BOOLEAN, Cleared(o, ok) PROVE TypeOK'
  <2>1. Unseen(o, ok) \subseteq Session
    BY DEF Unseen, Exposed, Paid, InFlight
  <2> QED BY <1>2, <2>1 DEF Cleared
<1>3. ASSUME NEW o \in Opener, NEW s \in Session,
             Opened(o, s) \/ \E known \in BOOLEAN : Insert(o, s, known)
      PROVE  TypeOK'
  BY <1>3 DEF Opened, Insert
<1>4. ASSUME NEW s \in Session, BeginClose(s) \/ Retire(s) PROVE TypeOK'
  BY <1>4 DEF BeginClose, Retire
<1>5. ASSUME NEW s \in Session, NEW r \in Replica, NEW d \in Daylock, Meter(r, s, d)
      PROVE  TypeOK'
  BY <1>5 DEF Meter
<1>6. RedisToggles \/ UNCHANGED vars => TypeOK'
  BY DEF RedisToggles, vars
<1> QED BY <1>1, <1>2, <1>3, <1>4, <1>5, <1>6 DEF Next

LEMMA FlightsStep == ASSUME TypeOK, Flights, [Next]_vars PROVE Flights'
<1> USE DEF TypeOK, Flights, Goto, rowVars, meterVars
<1>1. ASSUME NEW o \in Opener, Start(o) \/ ReadSpent(o) \/ Refused(o) \/ Strays(o)
      PROVE  Flights'
  BY <1>1 DEF Start, ReadSpent, Refused, Strays
<1>2. ASSUME NEW o \in Opener, NEW ok \in BOOLEAN, Cleared(o, ok) PROVE Flights'
  BY <1>2 DEF Cleared
<1>3. ASSUME NEW o \in Opener, NEW s \in Session,
             Opened(o, s) \/ \E known \in BOOLEAN : Insert(o, s, known)
      PROVE  Flights'
  BY <1>3 DEF Opened, Insert
<1>4. ASSUME NEW s \in Session,
             BeginClose(s) \/ Retire(s) \/ \E r \in Replica, d \in Daylock : Meter(r, s, d)
      PROVE  Flights'
  BY <1>4 DEF BeginClose, Retire, Meter
<1>5. RedisToggles \/ UNCHANGED vars => Flights'
  BY DEF RedisToggles, vars
<1> QED BY <1>1, <1>2, <1>3, <1>4, <1>5 DEF Next

(* No more is seen, and no other open is cleared.                          *)
LEMMA Quiet ==
  ASSUME TypeOK, TypeOK', Margin, Seen' \subseteq Seen, Going' \subseteq Going
  PROVE  Margin'
<1>1. /\ Cardinality(Seen') <= Cardinality(Seen)
      /\ Cardinality(Seen') \in Nat /\ Cardinality(Seen) \in Nat
  BY SeenIn, Smaller
<1>2. /\ Cardinality(Going') <= Cardinality(Going)
      /\ Cardinality(Going') \in Nat /\ Cardinality(Going) \in Nat
  BY SeenIn, Finite, FS_Subset
<1> QED BY <1>1, <1>2, BudgetAssumption, FS_CardinalityType DEF Margin

(* A cleared open takes the place set aside for it.                        *)
LEMMA TakesPlace ==
  ASSUME TypeOK, TypeOK', Margin, NEW o \in Going, Going' = Going \ {o},
         NEW s, Seen' \subseteq Seen \cup {s}
  PROVE  Margin'
<1>1. /\ IsFiniteSet(Seen) /\ Cardinality(Seen) \in Nat
      /\ IsFiniteSet(Going) /\ Cardinality(Going) \in Nat
  BY SeenIn, Finite
<1>2. IsFiniteSet(Seen \cup {s}) /\ Cardinality(Seen \cup {s}) <= Cardinality(Seen) + 1
  BY <1>1, FS_AddElement
<1>3. Cardinality(Seen') \in Nat /\ Cardinality(Seen') <= Cardinality(Seen \cup {s})
      /\ Cardinality(Seen \cup {s}) \in Nat
  BY <1>2, FS_Subset, FS_CardinalityType
<1>4. Cardinality(Going') = Cardinality(Going) - 1
  BY <1>1, FS_RemoveElement
<1> QED BY <1>1, <1>2, <1>3, <1>4, BudgetAssumption, FS_CardinalityType DEF Margin

(* A gate that passes has counted less than the budget of what can be seen.*)
LEMMA GateRestores ==
  ASSUME TypeOK, TypeOK', NEW o \in Opener, NEW ok \in BOOLEAN, Cleared(o, ok)
  PROVE  Margin'
<1> DEFINE Summed == IF ok THEN Held ELSE {}
<1>1. Summed \subseteq Session /\ counted[o] \subseteq Session
  BY DEF Held, TypeOK
<1>2. Cardinality(Summed) = Sum(ok)
  BY FS_EmptySet DEF Sum
<1>3. Seen' \subseteq counted[o] \cup Summed
  <2> SUFFICES ASSUME NEW s \in Seen', s \notin counted[o] PROVE s \in Summed
    OBVIOUS
  <2>1. s \in Exposed \ InFlight /\ s \notin Unseen(o, ok) /\ s \in Session
    BY DEF Cleared, Seen, Exposed, Paid, InFlight, rowVars, meterVars, TypeOK
  <2>2. ok /\ row[s] \notin {"absent", "gone"} /\ s \notin blank
    BY <2>1 DEF Unseen
  <2> QED BY <2>1, <2>2 DEF Held, TypeOK
<1>4. /\ IsFiniteSet(Summed) /\ IsFiniteSet(counted[o])
      /\ Cardinality(Summed) \in Nat /\ Cardinality(counted[o]) \in Nat
  BY <1>1, Finite
<1>5. Cardinality(counted[o] \cup Summed) <= Cardinality(counted[o]) + Cardinality(Summed)
  BY <1>4, Together
<1>6. /\ Cardinality(Seen') \in Nat /\ Cardinality(counted[o] \cup Summed) \in Nat
      /\ Cardinality(Seen') <= Cardinality(counted[o] \cup Summed)
  BY <1>1, <1>3, Smaller
<1>7. Cardinality(counted[o]) + Cardinality(Summed) < Budget
  BY <1>2 DEF Cleared
<1>8. /\ Cardinality(Going') \in Nat /\ Cardinality(Opener) \in Nat
      /\ Cardinality(Going') <= Cardinality(Opener)
  <2>1. Going' \in SUBSET Opener
    BY DEF Going
  <2>2. IsFiniteSet(Opener)
    BY BudgetAssumption
  <2> QED BY <2>1, <2>2, FS_Subset, FS_CardinalityType
<1>9. Cardinality(Seen') < Budget
  <2> HIDE DEF Summed
  <2> QED BY <1>4, <1>5, <1>6, <1>7, BudgetAssumption
<1> QED BY <1>6, <1>8, <1>9, BudgetAssumption DEF Margin

LEMMA MarginStep ==
  ASSUME TypeOK, TypeOK', Flights, Margin, [Next]_vars
  PROVE  Margin'
<1> USE DEF Seen, Exposed, Paid, InFlight, Going, Goto, rowVars, meterVars, TypeOK
<1>1. ASSUME NEW o \in Opener, Start(o) \/ ReadSpent(o) \/ Refused(o) PROVE Margin'
  <2>1. Seen' = Seen /\ Going' = Going
    BY <1>1 DEF Start, ReadSpent, Refused
  <2> QED BY <2>1, Quiet
<1>2. ASSUME NEW o \in Opener, Strays(o) PROVE Margin'
  <2>1. o \in Going /\ Going' = Going \ {o}
    BY <1>2 DEF Strays
  <2>2. Seen' \subseteq Seen \cup flight[o]
    BY <1>2 DEF Strays
  <2>3. PICK s : flight[o] \subseteq {s}
    BY DEF Flights
  <2> QED BY <2>1, <2>2, <2>3, TakesPlace
<1>3. ASSUME NEW o \in Opener, NEW ok \in BOOLEAN, Cleared(o, ok) PROVE Margin'
  BY <1>3, GateRestores
<1>4. ASSUME NEW o \in Opener, NEW s \in Session, Opened(o, s) PROVE Margin'
  <2>1. Seen' \subseteq Seen /\ Going' = Going
    BY <1>4 DEF Opened
  <2> QED BY <2>1, Quiet
<1>5. ASSUME NEW o \in Opener, NEW s \in Session, NEW known \in BOOLEAN, Insert(o, s, known)
      PROVE  Margin'
  <2>1. o \in Going /\ Going' = Going \ {o}
    BY <1>5 DEF Insert, Flights
  <2>2. flight[o] = {s}
    BY <1>5 DEF Insert, Flights
  <2>3. Seen' \subseteq Seen \cup {s}
    BY <1>5, <2>2 DEF Insert
  <2> QED BY <2>1, <2>3, TakesPlace
<1>6. ASSUME NEW s \in Session, BeginClose(s) \/ Retire(s) PROVE Margin'
  <2>1. Seen' \subseteq Seen /\ Going' = Going
    BY <1>6 DEF BeginClose, Retire
  <2> QED BY <2>1, Quiet
<1>7. ASSUME NEW s \in Session, NEW r \in Replica, NEW d \in Daylock, Meter(r, s, d)
      PROVE  Margin'
  <2>1. Seen' \subseteq Seen /\ Going' = Going
    BY <1>7 DEF Meter
  <2> QED BY <2>1, Quiet
<1>8. CASE RedisToggles \/ UNCHANGED vars
  <2>1. Seen' = Seen /\ Going' = Going
    BY <1>8 DEF RedisToggles, vars
  <2> QED BY <2>1, Quiet
<1> QED BY <1>1, <1>2, <1>3, <1>4, <1>5, <1>6, <1>7, <1>8 DEF Next

LEMMA InvStep == IInv /\ [Next]_vars => IInv'
  BY TypeStep, FlightsStep, MarginStep DEF IInv

------------------------------------------------------------------------------
(* Theorems.                                                               *)

(* The invariant of the module is inductive.                               *)
THEOREM Inductive == Spec => []IInv
  BY InitInv, InvStep, PTL DEF Spec

(* At most one session of each cleared open is in flight.                  *)
LEMMA FewInFlight ==
  ASSUME TypeOK, Flights
  PROVE  IsFiniteSet(InFlight) /\ Cardinality(InFlight) <= Cardinality(Going)
<1> DEFINE Flying == {o \in Opener : flight[o] # {}}
<1> DEFINE f == [o \in Flying |-> CHOOSE s : s \in flight[o]]
<1>1. f \in Surjection(Flying, InFlight)
  BY DEF Surjection, InFlight, Flights
<1>2. Flying \subseteq Going /\ Flying \subseteq Opener /\ Going \subseteq Opener
  BY DEF Flights, Going
<1>3. IsFiniteSet(Flying) /\ IsFiniteSet(Going)
  BY <1>2, Finite
<1>4. /\ Cardinality(InFlight) <= Cardinality(Flying) /\ IsFiniteSet(InFlight)
      /\ Cardinality(Flying) <= Cardinality(Going)
  BY <1>1, <1>2, <1>3, FS_Surjection, FS_Subset
<1> QED BY <1>3, <1>4, FS_CardinalityType

(* A day's premium stake passes the budget by at most one session of each  *)
(* open that may be cleared at once and by what a gate could not see.      *)
THEOREM BudgetHeld == Spec => []BudgetBound
<1>1. ASSUME IInv PROVE BudgetBound
  <2>1. /\ Seen \subseteq Session /\ InFlight \subseteq Session /\ unseen \subseteq Session
        /\ Exposed \subseteq (Seen \cup InFlight) \cup unseen
        /\ Going \subseteq Opener
    BY <1>1 DEF IInv, TypeOK, Seen, Exposed, Paid, InFlight, Going
  <2>2. /\ IsFiniteSet(Seen) /\ IsFiniteSet(InFlight) /\ IsFiniteSet(unseen)
        /\ Cardinality(Seen) \in Nat /\ Cardinality(InFlight) \in Nat
        /\ Cardinality(unseen) \in Nat /\ Cardinality(Going) \in Nat
        /\ Cardinality(Opener) \in Nat
    BY <1>1, <2>1, Finite DEF IInv
  <2>3. /\ IsFiniteSet(Seen \cup InFlight) /\ Cardinality(Seen \cup InFlight) \in Nat
        /\ Cardinality(Seen \cup InFlight) <= Cardinality(Seen) + Cardinality(InFlight)
    BY <2>2, Together
  <2>4. /\ IsFiniteSet((Seen \cup InFlight) \cup unseen)
        /\ Cardinality((Seen \cup InFlight) \cup unseen) \in Nat
        /\ Cardinality((Seen \cup InFlight) \cup unseen)
              <= Cardinality(Seen \cup InFlight) + Cardinality(unseen)
    BY <2>2, <2>3, Together
  <2>5. /\ Cardinality(Exposed) \in Nat
        /\ Cardinality(Exposed) <= Cardinality((Seen \cup InFlight) \cup unseen)
    BY <2>1, <2>4, FS_Subset, FS_CardinalityType
  <2>6. Cardinality(InFlight) <= Cardinality(Going)
    BY <1>1, FewInFlight DEF IInv
  <2>7. Cardinality(Seen) + Cardinality(Going) < Budget + Cardinality(Opener)
    BY <1>1 DEF IInv, Margin
  <2> HIDE DEF Seen
  <2> QED BY <2>2, <2>3, <2>4, <2>5, <2>6, <2>7, BudgetAssumption DEF BudgetBound
<1> QED BY Inductive, <1>1, PTL
=============================================================================
