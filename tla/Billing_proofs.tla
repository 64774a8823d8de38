---------------------------- MODULE Billing_proofs ----------------------------
(***************************************************************************)
(* The three buckets of the balance agree with the ledger, for any number  *)
(* of entries, reconcilers, amounts, syncs and crashes.                    *)
(***************************************************************************)
EXTENDS Billing, FiniteSetTheorems, WellFoundedInduction, TLAPS

LEMMA InitInv == Init => IInv
  BY BillingAssumption
  DEF Init, IInv, TypeOK, EntryInv, ChargeExact, HoldsExact, StakingExact, Pending,
      None, NoPlan, Status, ReqPC, RecPC, Reconciler

------------------------------------------------------------------------------
(* Type correctness, one action at a time.                                 *)

(* A split is a pair of integers, whatever row it was computed against.    *)
LEMMA SplitType ==
  ASSUME NEW row, NEW cost \in Amount, NEW part \in Numeric
  PROVE  [paid |-> PaidPart(row, cost, part), stak |-> part] \in [paid : Int, stak : Int]
  BY BillingAssumption DEF PaidPart

LEMMA TypeRequest ==
  ASSUME TypeOK, NEW h \in Hold, RequestNext(h)
  PROVE  TypeOK'
<1> USE DEF TypeOK, ledgerVars, balanceVars, cacheVars, reqVars, recVars, syncVars,
            Status, ReqPC
<1>1. ASSUME NEW c \in Amount, HoldLock(h, c) PROVE TypeOK'
  <2>1. CASE Effective >= c
    <3>1. PICK part \in Numeric :
            plan' = [plan EXCEPT ![h] = [paid |-> PaidPart(Row, c, part), stak |-> part]]
      BY <1>1, <2>1 DEF HoldLock
    <3>2. plan' \in [Hold -> [paid : Int, stak : Int]]
      BY <3>1, SplitType
    <3> QED BY <1>1, <2>1, <3>2 DEF HoldLock
  <2>2. CASE ~(Effective >= c)
    BY <1>1, <2>2 DEF HoldLock
  <2> QED BY <2>1, <2>2
<1>2. CASE \E c \in Amount : FinalizeLock(h, c)
  BY <1>2, SplitType DEF FinalizeLock
<1>3. CASE Fail(h)
  BY <1>3 DEF Fail
<1>4. CASE \E next \in {"held", "done"} : HoldCommit(h, next)
  BY <1>4 DEF HoldCommit, NoPlan
<1>5. CASE \E next \in {"voiding", "done"} : FinalizeCommit(h, next)
  BY <1>5 DEF FinalizeCommit, NoPlan
<1>6. CASE FinalizeFails(h)
  BY <1>6 DEF FinalizeFails, NoPlan
<1>7. CASE Void(h)
  BY <1>7 DEF Void
<1>8. CASE VoidRefused(h)
  BY <1>8 DEF VoidRefused
<1>9. CASE RequestDies(h)
  BY <1>9 DEF RequestDies, NoPlan
<1> QED BY <1>1, <1>2, <1>3, <1>4, <1>5, <1>6, <1>7, <1>8, <1>9 DEF RequestNext, Settle

LEMMA TypeReconciler ==
  ASSUME TypeOK, NEW k \in Reconciler, SumHolds(k) \/ WriteHolds(k) \/ ReconcilerDies(k)
  PROVE  TypeOK'
<1> USE DEF TypeOK, ledgerVars, balanceVars, cacheVars, reqVars, recVars, syncVars, RecPC
<1>1. CASE SumHolds(k)
  <2>1. [h \in Hold |-> Pending(h)] \in [Hold -> Int]
    BY DEF Pending
  <2> QED BY <1>1, <2>1 DEF SumHolds
<1>2. CASE WriteHolds(k)
  BY <1>2 DEF WriteHolds, None
<1>3. CASE ReconcilerDies(k)
  BY <1>3 DEF ReconcilerDies, None
<1> QED BY <1>1, <1>2, <1>3

LEMMA TypeStep == TypeOK /\ [Next]_vars => TypeOK'
<1> SUFFICES ASSUME TypeOK, [Next]_vars PROVE TypeOK'
  OBVIOUS
<1>1. CASE \E h \in Hold : RequestNext(h)
  BY <1>1, TypeRequest
<1>2. CASE \E k \in Reconciler : SumHolds(k) \/ WriteHolds(k) \/ ReconcilerDies(k)
  BY <1>2, TypeReconciler
<1> USE DEF TypeOK, ledgerVars, balanceVars, cacheVars, reqVars, recVars, syncVars
<1>3. CASE \E h \in Hold : Age(h)
  BY <1>3 DEF Age
<1>4. CASE SweepSelect
  BY <1>4 DEF SweepSelect, RecPC, Reconciler
<1>5. CASE SweepVoid
  BY <1>5 DEF SweepVoid, RecPC, Reconciler, Status
<1>6. CASE StakingSync
  BY <1>6, BillingAssumption DEF StakingSync, None
<1>7. CASE SetOverage \/ ReadMiss \/ CacheSet \/ CacheExpire
  BY <1>7 DEF SetOverage, ReadMiss, CacheSet, CacheExpire
<1>8. CASE UNCHANGED vars
  BY <1>8 DEF vars
<1> QED
  BY <1>1, <1>2, <1>3, <1>4, <1>5, <1>6, <1>7, <1>8 DEF Next, SweepNext, Reconciler

------------------------------------------------------------------------------
(* Preservation of the inductive invariant.                                *)

(* Steps that change no entry and no bucket: a request moves between two   *)
(* of its phases, an entry ages, a flag or a cache changes.                *)
LEMMA LocalStep ==
  ASSUME IInv, TypeOK',
         UNCHANGED <<ledgerVars, held, charged, drawn, stale, snap, due, missed, reset>>,
         \A h \in Hold :
           /\ \/ req'[h] = req[h]
              \/ req[h] = "new" /\ req'[h] = "holding"
              \/ req[h] = "held" /\ req'[h] = "finalizing"
              \/ req'[h] \in {"voiding", "done"}
           /\ h \in aged' => h \in aged \/ status[h] = "pending"
  PROVE  IInv'
<1>1. EntryInv'
  BY DEF IInv, TypeOK, EntryInv, ledgerVars
<1>2. ChargeExact' /\ HoldsExact' /\ StakingExact'
  BY DEF IInv, TypeOK, ChargeExact, HoldsExact, StakingExact, Pending, ledgerVars
<1> QED BY <1>1, <1>2 DEF IInv

(* The entry is inserted together with its contributions to the buckets.   *)
LEMMA HoldCommitStep ==
  ASSUME IInv, TypeOK', NEW h \in Hold, NEW next, HoldCommit(h, next)
  PROVE  IInv'
<1> USE DEF IInv, TypeOK, HoldCommit, recVars, syncVars
<1>1. status[h] = "absent" /\ held[h] = 0 /\ drawn[h] = 0 /\ charged[h] = 0
  BY DEF EntryInv
<1>2. EntryInv'
  BY <1>1 DEF EntryInv
<1>3. ChargeExact'
  BY <1>1 DEF ChargeExact
<1>4. HoldsExact'
  BY <1>1 DEF HoldsExact, Pending
<1>5. StakingExact'
  BY <1>1 DEF StakingExact
<1> QED BY <1>2, <1>3, <1>4, <1>5

(* The locked entry is pending, or voided by an earlier sweep with nothing *)
(* left to release: either way the charge replaces what the entry shows.   *)
LEMMA FinalizeCommitStep ==
  ASSUME IInv, TypeOK', NEW h \in Hold, NEW next, FinalizeCommit(h, next)
  PROVE  IInv'
<1> USE DEF IInv, TypeOK, FinalizeCommit, recVars, syncVars
<1>1. status[h] \in {"pending", "voided"} /\ charged[h] = 0
      /\ (status[h] = "voided" => paid[h] = 0)
  BY DEF EntryInv
<1>2. EntryInv'
  BY <1>1 DEF EntryInv
<1>3. ChargeExact'
  BY <1>1 DEF ChargeExact
<1>4. HoldsExact'
  BY <1>1 DEF HoldsExact, Pending
<1>5. StakingExact'
  BY <1>1 DEF StakingExact
<1> QED BY <1>2, <1>3, <1>4, <1>5

(* A pending entry has been charged nothing; voiding returns both parts.   *)
LEMMA VoidStep ==
  ASSUME IInv, TypeOK', NEW h \in Hold, Void(h)
  PROVE  IInv'
<1> USE DEF IInv, TypeOK, Void, recVars, syncVars
<1>1. EntryInv'
  BY DEF EntryInv
<1>2. ChargeExact'
  BY DEF ChargeExact
<1>3. HoldsExact'
  BY DEF HoldsExact, Pending
<1>4. StakingExact'
  BY DEF StakingExact
<1> QED BY <1>1, <1>2, <1>3, <1>4

(* The bulk void: what it breaks is what "due" and "expired" record.       *)
LEMMA SweepVoidStep ==
  ASSUME IInv, TypeOK', SweepVoid
  PROVE  IInv'
<1> USE DEF IInv, TypeOK, SweepVoid, balanceVars, reqVars, syncVars
<1>1. \A h \in stale : status[h] # "absent" /\ req[h] # "finalizing"
  BY DEF EntryInv, EntryFree
<1>2. EntryInv'
  BY <1>1 DEF EntryInv
<1>3. ChargeExact'
  BY DEF ChargeExact
<1>4. HoldsExact'
  BY DEF HoldsExact, Pending
<1>5. StakingExact'
  BY DEF StakingExact
<1> QED BY <1>2, <1>3, <1>4, <1>5

LEMMA ReconcilerStep ==
  ASSUME IInv, TypeOK', NEW k \in Reconciler, SumHolds(k) \/ WriteHolds(k)
  PROVE  IInv'
<1> USE DEF IInv, TypeOK, ledgerVars, reqVars, syncVars
<1>1. CASE SumHolds(k)
  <2> USE <1>1 DEF SumHolds, balanceVars
  <2>1. EntryInv'
    BY DEF EntryInv, Pending
  <2>2. ChargeExact' /\ HoldsExact' /\ StakingExact'
    BY DEF ChargeExact, HoldsExact, StakingExact, Pending
  <2> QED BY <2>1, <2>2
<1>2. CASE WriteHolds(k)
  <2> USE <1>2 DEF WriteHolds, None
  <2>1. EntryInv'
    BY DEF EntryInv
  <2>2. HoldsExact'
    BY DEF HoldsExact, Pending
  <2>3. ChargeExact' /\ StakingExact'
    BY DEF ChargeExact, StakingExact
  <2> QED BY <2>1, <2>2, <2>3
<1> QED BY <1>1, <1>2

(* The loss of a reconciler forgets its sum and its selection.             *)
LEMMA DiesStep ==
  ASSUME IInv, TypeOK', NEW k \in Reconciler, ReconcilerDies(k)
  PROVE  IInv'
<1> USE DEF IInv, TypeOK, ReconcilerDies, ledgerVars, balanceVars, reqVars, syncVars, None
<1>1. EntryInv'
  BY DEF EntryInv
<1>2. ChargeExact' /\ HoldsExact' /\ StakingExact'
  BY DEF ChargeExact, HoldsExact, StakingExact, Pending
<1> QED BY <1>1, <1>2

(* The sync sets the allowance: every entry there is falls under "reset".  *)
LEMMA SyncStep ==
  ASSUME IInv, TypeOK', StakingSync
  PROVE  IInv'
<1> USE DEF IInv, TypeOK, StakingSync, ledgerVars, reqVars, recVars, None
<1>1. EntryInv'
  BY DEF EntryInv
<1>2. StakingExact'
  BY DEF EntryInv, StakingExact
<1>3. ChargeExact' /\ HoldsExact'
  BY DEF ChargeExact, HoldsExact, Pending
<1> QED BY <1>1, <1>2, <1>3

LEMMA SelectStep ==
  ASSUME IInv, TypeOK', SweepSelect
  PROVE  IInv'
<1> USE DEF IInv, TypeOK, SweepSelect, ledgerVars, balanceVars, reqVars, syncVars
<1>1. EntryInv'
  BY DEF EntryInv
<1>2. ChargeExact' /\ HoldsExact' /\ StakingExact'
  BY DEF ChargeExact, HoldsExact, StakingExact, Pending
<1> QED BY <1>1, <1>2

LEMMA RequestStep ==
  ASSUME IInv, TypeOK', NEW h \in Hold, RequestNext(h)
  PROVE  IInv'
<1>1. CASE \E next \in {"held", "done"} : HoldCommit(h, next)
  BY <1>1, HoldCommitStep
<1>2. CASE \E next \in {"voiding", "done"} : FinalizeCommit(h, next)
  BY <1>2, FinalizeCommitStep
<1>3. CASE Void(h)
  BY <1>3, VoidStep
<1> USE LocalStep
        DEF IInv, TypeOK, ledgerVars, balanceVars, recVars, syncVars
<1>4. CASE \E c \in Amount : HoldLock(h, c) \/ FinalizeLock(h, c)
  BY <1>4 DEF HoldLock, FinalizeLock
<1>5. CASE Fail(h) \/ FinalizeFails(h) \/ VoidRefused(h) \/ RequestDies(h)
  BY <1>5 DEF Fail, FinalizeFails, VoidRefused, RequestDies
<1> QED BY <1>1, <1>2, <1>3, <1>4, <1>5 DEF RequestNext, Settle

LEMMA StepInv == IInv /\ [Next]_vars => IInv'
<1> SUFFICES ASSUME IInv, [Next]_vars PROVE IInv'
  OBVIOUS
<1>0. TypeOK'
  BY TypeStep DEF IInv
<1>1. CASE \E h \in Hold : RequestNext(h)
  BY <1>0, <1>1, RequestStep
<1>2. CASE \E k \in Reconciler : SumHolds(k) \/ WriteHolds(k)
  BY <1>0, <1>2, ReconcilerStep
<1>3. CASE \E k \in Reconciler : ReconcilerDies(k)
  BY <1>0, <1>3, DiesStep
<1>4. CASE SweepSelect
  BY <1>0, <1>4, SelectStep
<1>5. CASE SweepVoid
  BY <1>0, <1>5, SweepVoidStep
<1>6. CASE StakingSync
  BY <1>0, <1>6, SyncStep
<1>7. CASE \E h \in Hold : Age(h)
  BY <1>0, <1>7, LocalStep DEF Age, ledgerVars, balanceVars, recVars, syncVars, IInv, TypeOK
<1>8. CASE SetOverage \/ ReadMiss \/ CacheSet \/ CacheExpire \/ UNCHANGED vars
  BY <1>0, <1>8, LocalStep
  DEF SetOverage, ReadMiss, CacheSet, CacheExpire, vars,
      ledgerVars, balanceVars, reqVars, recVars, syncVars
<1> QED
  BY <1>1, <1>2, <1>3, <1>4, <1>5, <1>6, <1>7, <1>8 DEF Next, SweepNext, Reconciler

------------------------------------------------------------------------------
(* Type correctness of the ledger, the balance, the requests and the       *)
(* reconcilers (create_usage_hold ... reconcile_all_balances).             *)
THEOREM TypeCorrect == Spec => []TypeOK
<1>1. Init => TypeOK
  BY InitInv DEF IInv
<1> QED BY <1>1, TypeStep, PTL DEF Spec

(* The inductive invariant holds in every behaviour of the account.        *)
THEOREM Inductive == Spec => []IInv
  BY InitInv, StepInv, PTL DEF Spec

(* The posted balance is debited exactly by the posted charges, up to the  *)
(* charges a sweep has voided (finalize_usage, void_usage).                *)
THEOREM ChargesExact == Spec => []ChargeExact
<1>1. IInv => ChargeExact
  BY DEF IInv
<1> QED BY <1>1, Inductive, PTL

(* paid_pending_holds drifts from the ledger only through the two windows  *)
(* of reconciliation (void_stale_holds, reconcile_all_balances).           *)
THEOREM PendingExact == Spec => []HoldsExact
<1>1. IInv => HoldsExact
  BY DEF IInv
<1> QED BY <1>1, Inductive, PTL

(* staking_available drifts from the ledger only through the bulk void and *)
(* the daily sync (finalize_usage, void_usage).                            *)
THEOREM StakingTracked == Spec => []StakingExact
<1>1. IInv => StakingExact
  BY DEF IInv
<1> QED BY <1>1, Inductive, PTL

------------------------------------------------------------------------------
(* Totals.                                                                 *)

(* A non-empty set has a minimal element under a well-founded relation.    *)
LEMMA MinimalElement ==
  \A R, S, T : IsWellFoundedOn(R, S) /\ T \subseteq S /\ T # {} =>
     \E x \in T : \A y \in T : <<y, x>> \notin R
  BY WFMin, Zenon

(* The subsets of a finite set are well founded under strict inclusion.    *)
LEMMA StrictSubsetWellFounded ==
  ASSUME NEW S, IsFiniteSet(S)
  PROVE  IsWellFoundedOn(StrictSubsetOrdering(S), SUBSET S)
  BY FS_StrictSubsetOrderingWellFounded, FS_FiniteSubsetsOfFinite

(* Induction over the subsets of a finite set, for a family of subsets.    *)
LEMMA SubsetInduction ==
  ASSUME NEW S, IsFiniteSet(S), NEW G,
         \A T \in SUBSET S : (\A x \in T : T \ {x} \in G) => T \in G
  PROVE  \A T \in SUBSET S : T \in G
<1> DEFINE Bad == {T \in SUBSET S : T \notin G}
<1> SUFFICES ASSUME Bad # {} PROVE FALSE
  OBVIOUS
<1>1. IsWellFoundedOn(StrictSubsetOrdering(S), SUBSET S)
  BY StrictSubsetWellFounded
<1>2. Bad \subseteq SUBSET S
  OBVIOUS
<1>3. \E T \in Bad : \A U \in Bad : <<U, T>> \notin StrictSubsetOrdering(S)
  <2> HIDE DEF Bad
  <2> QED BY <1>1, <1>2, MinimalElement
<1>4. PICK T \in Bad : \A U \in Bad : <<U, T>> \notin StrictSubsetOrdering(S)
  BY <1>3
<1>5. PICK x \in T : T \ {x} \in Bad
  OBVIOUS
<1>6. <<T \ {x}, T>> \in StrictSubsetOrdering(S)
  BY DEF StrictSubsetOrdering
<1> QED BY <1>4, <1>5, <1>6

(* SumFunction adds the values one chosen element at a time: Unfold is its *)
(* step and Iterates says that g holds the sums of f over subsets of S.    *)
Pick(s) == CHOOSE y \in s : TRUE
Unfold(f, g, s) == IF s = {} THEN 0 ELSE f[Pick(s)] + g[s \ {Pick(s)}]
Iterates(f, S, g) == g = [s \in SUBSET S |-> Unfold(f, g, s)]

(* Such a g exists: it is built one cardinality at a time.                 *)
LEMMA IterExists ==
  ASSUME NEW S, IsFiniteSet(S), NEW f
  PROVE  \E g : Iterates(f, S, g)
<1> DEFINE Upto(n, g) == \A s \in SUBSET S : Cardinality(s) <= n => g[s] = Unfold(f, g, s)
           G == {T \in SUBSET S : \E g : DOMAIN g = SUBSET S /\ g = [s \in SUBSET S |-> g[s]] /\ Upto(Cardinality(T), g)}
<1>1. ASSUME NEW T \in SUBSET S, \A x \in T : T \ {x} \in G PROVE T \in G
  <2>0. \A s \in SUBSET S : IsFiniteSet(s) /\ Cardinality(s) \in Nat /\ (Cardinality(s) = 0 <=> s = {})
    BY FS_Subset, FS_CardinalityType, FS_EmptySet
  <2>1. CASE T = {}
    <3> DEFINE g == [s \in SUBSET S |-> 0]
    <3>1. Upto(Cardinality(T), g)
      BY <2>0, <2>1 DEF Unfold
    <3> QED BY <3>1
  <2>2. CASE T # {}
    <3>1. PICK x \in T : TRUE
      BY <2>2
    <3>2. Cardinality(T \ {x}) = Cardinality(T) - 1
      BY <2>0, FS_RemoveElement
    <3>3. PICK g : DOMAIN g = SUBSET S /\ Upto(Cardinality(T \ {x}), g)
      BY <1>1
    <3> DEFINE n == Cardinality(T)
    <3>4. n \in Nat /\ Upto(n - 1, g)
      BY <2>0, <3>2, <3>3
    <3> DEFINE gg == [s \in SUBSET S |-> Unfold(f, g, s)]
    <3>5. ASSUME NEW s \in SUBSET S, Cardinality(s) <= n PROVE gg[s] = Unfold(f, gg, s)
      <4>1. CASE s = {}
        BY <4>1 DEF Unfold
      <4>2. CASE s # {}
        <5> DEFINE t == s \ {Pick(s)}
        <5>1. Pick(s) \in s
          BY <4>2 DEF Pick
        <5>2. Cardinality(t) = Cardinality(s) - 1 /\ t \in SUBSET S
          BY <2>0, <5>1, FS_RemoveElement
        <5>3. Cardinality(t) <= n - 1
          BY <2>0, <3>4, <3>5, <5>2
        <5>4. g[t] = gg[t]
          BY <3>4, <5>2, <5>3
        <5> QED BY <4>2, <5>4 DEF Unfold
      <4> QED BY <4>1, <4>2
    <3>6. Upto(n, gg)
      BY <3>5
    <3> QED BY <3>6
  <2> QED BY <2>1, <2>2
<1>2. S \in G
  <2> HIDE DEF G
  <2> QED BY <1>1, SubsetInduction
<1>3. PICK g : g = [s \in SUBSET S |-> g[s]] /\ Upto(Cardinality(S), g)
  BY <1>2
<1>4. \A s \in SUBSET S : g[s] = Unfold(f, g, s)
  BY <1>3, FS_Subset, FS_CardinalityType
<1>5. [s \in SUBSET S |-> g[s]] = [s \in SUBSET S |-> Unfold(f, g, s)]
  BY <1>4
<1> QED BY <1>3, <1>5 DEF Iterates

(* SumFunction is the sum such a g holds.                                  *)
LEMMA SumIter ==
  ASSUME NEW S, IsFiniteSet(S), NEW T, NEW f \in [S -> T]
  PROVE  \E g : Iterates(f, S, g) /\ SumFunction(f) = g[S]
<1>1. SumFunction(f) = LET iter[s \in SUBSET (DOMAIN f)] == IF s = {} THEN 0 ELSE LET x == CHOOSE y \in s : TRUE IN f[x] + iter[s \ {x}] IN iter[DOMAIN f]
  BY DEF SumFunction, SumFunctionOnSet, FoldFunctionOnSet, MapThenFoldSet
<1>2. SumFunction(f) = (CHOOSE g : g = [s \in SUBSET S |-> Unfold(f, g, s)])[S]
  BY <1>1 DEF Unfold, Pick
<1>3. \E g : Iterates(f, S, g)
  BY IterExists
<1>4. Iterates(f, S, CHOOSE g : g = [s \in SUBSET S |-> Unfold(f, g, s)])
  BY <1>3 DEF Iterates
<1> QED BY <1>2, <1>4

(* The sums of integers are integers.                                      *)
LEMMA IterType ==
  ASSUME NEW S, IsFiniteSet(S), NEW f \in [S -> Int], NEW g, Iterates(f, S, g)
  PROVE  \A s \in SUBSET S : g[s] \in Int
<1> DEFINE G == {s \in SUBSET S : g[s] \in Int}
<1>1. ASSUME NEW T \in SUBSET S, \A x \in T : T \ {x} \in G PROVE T \in G
  <2>1. g[T] = Unfold(f, g, T)
    BY DEF Iterates
  <2>2. CASE T = {}
    BY <2>1, <2>2 DEF Unfold
  <2>3. CASE T # {}
    <3>1. Pick(T) \in T
      BY <2>3 DEF Pick
    <3>2. g[T] = f[Pick(T)] + g[T \ {Pick(T)}]
      BY <2>1, <2>3 DEF Unfold
    <3>3. g[T \ {Pick(T)}] \in Int /\ f[Pick(T)] \in Int
      BY <1>1, <3>1
    <3> QED BY <3>2, <3>3
  <2> QED BY <2>2, <2>3
<1>2. \A s \in SUBSET S : s \in G
  <2> HIDE DEF G
  <2> QED BY <1>1, SubsetInduction
<1> QED BY <1>2

(* Where two functions differ at h only, so do their sums.                 *)
LEMMA IterChange ==
  ASSUME NEW S, IsFiniteSet(S), NEW f \in [S -> Int], NEW ff \in [S -> Int],
         NEW h \in S, \A x \in S \ {h} : ff[x] = f[x],
         NEW g, Iterates(f, S, g), NEW gg, Iterates(ff, S, gg)
  PROVE  \A s \in SUBSET S : gg[s] = g[s] + (IF h \in s THEN ff[h] - f[h] ELSE 0)
<1> DEFINE G == {s \in SUBSET S : gg[s] = g[s] + (IF h \in s THEN ff[h] - f[h] ELSE 0)}
<1>0. \A s \in SUBSET S : g[s] \in Int
  BY IterType
<1>1. ASSUME NEW T \in SUBSET S, \A x \in T : T \ {x} \in G PROVE T \in G
  <2>1. g[T] = Unfold(f, g, T) /\ gg[T] = Unfold(ff, gg, T)
    BY DEF Iterates
  <2>2. CASE T = {}
    BY <2>1, <2>2 DEF Unfold
  <2>3. CASE T # {}
    <3>1. PICK x \in T : g[T] = f[x] + g[T \ {x}] /\ gg[T] = ff[x] + gg[T \ {x}]
      BY <2>1, <2>3 DEF Unfold, Pick
    <3>2. gg[T \ {x}] = g[T \ {x}] + (IF h \in T \ {x} THEN ff[h] - f[h] ELSE 0)
      BY <1>1
    <3>3. f[x] \in Int /\ f[h] \in Int /\ ff[h] \in Int /\ g[T \ {x}] \in Int
          /\ (x # h => ff[x] = f[x])
      BY <1>0
    <3> QED BY <3>1, <3>2, <3>3
  <2> QED BY <2>2, <2>3
<1>2. \A s \in SUBSET S : s \in G
  <2> HIDE DEF G
  <2> QED BY <1>1, SubsetInduction
<1> QED BY <1>2

(* What the proofs below use of SumFunction: its type, and the change of   *)
(* one value changes the sum by as much.                                   *)
LEMMA SumType ==
  ASSUME NEW S, IsFiniteSet(S), NEW f \in [S -> Int]
  PROVE  SumFunction(f) \in Int
  BY SumIter, IterType

LEMMA SumChange ==
  ASSUME NEW S, IsFiniteSet(S), NEW f \in [S -> Int], NEW ff \in [S -> Int],
         NEW h \in S, \A x \in S \ {h} : ff[x] = f[x]
  PROVE  SumFunction(ff) = SumFunction(f) + ff[h] - f[h]
<1>1. PICK g : Iterates(f, S, g) /\ SumFunction(f) = g[S]
  BY SumIter
<1>2. PICK gg : Iterates(ff, S, gg) /\ SumFunction(ff) = gg[S]
  BY SumIter
<1>3. \A s \in SUBSET S : gg[s] = g[s] + (IF h \in s THEN ff[h] - f[h] ELSE 0)
  BY <1>1, <1>2, IterChange
<1>4. S \in SUBSET S /\ g[S] \in Int /\ f[h] \in Int /\ ff[h] \in Int
  BY <1>1, IterType
<1> QED BY <1>1, <1>2, <1>3, <1>4
------------------------------------------------------------------------------
(* A committed hold is covered.                                            *)

(* While a request holds the balance row nothing moves the balance, the    *)
(* flags or its split: it commits, it dies, or it is left alone.           *)
LEMMA RowLocked ==
  ASSUME TypeOK, [Next]_vars, NEW h \in Hold, req[h] = "holding",
         ~(\E next \in {"held", "done"}, i \in Hold : HoldCommit(i, next))
  PROVE  /\ UNCHANGED balanceVars
         /\ \A i \in Hold : req'[i] = "holding" => req[i] = "holding" /\ plan'[i] = plan[i]
<1> USE DEF TypeOK, balanceVars, ledgerVars, reqVars, recVars, syncVars, RowFree
<1>1. ASSUME NEW i \in Hold, RequestNext(i)
      PROVE  /\ UNCHANGED balanceVars
             /\ \A j \in Hold : req'[j] = "holding" => req[j] = "holding" /\ plan'[j] = plan[j]
  <2>1. CASE \E c \in Amount : HoldLock(i, c)
    BY <2>1 DEF HoldLock
  <2>2. CASE \E c \in Amount : FinalizeLock(i, c)
    BY <2>2 DEF FinalizeLock
  <2>3. CASE Fail(i) \/ FinalizeFails(i) \/ VoidRefused(i) \/ RequestDies(i)
    BY <2>3 DEF Fail, FinalizeFails, VoidRefused, RequestDies
  <2>4. CASE Void(i) \/ \E next \in {"voiding", "done"} : FinalizeCommit(i, next)
    BY <2>4 DEF Void, FinalizeCommit
  <2> QED BY <1>1, <2>1, <2>2, <2>3, <2>4 DEF RequestNext, Settle
<1>2. CASE \E i \in Hold : Age(i)
  BY <1>2 DEF Age
<1>3. CASE \E k \in Reconciler : SumHolds(k) \/ WriteHolds(k) \/ ReconcilerDies(k)
  BY <1>3 DEF SumHolds, WriteHolds, ReconcilerDies
<1>4. CASE SweepSelect \/ SweepVoid \/ StakingSync
  BY <1>4 DEF SweepSelect, SweepVoid, StakingSync
<1>5. CASE SetOverage \/ ReadMiss \/ CacheSet \/ CacheExpire \/ UNCHANGED vars
  BY <1>5 DEF SetOverage, ReadMiss, CacheSet, CacheExpire, vars
<1> QED BY <1>1, <1>2, <1>3, <1>4, <1>5 DEF Next, SweepNext, Reconciler

(* A request comes to hold the row by HoldLock and by nothing else.        *)
LEMMA OnlyHoldLock ==
  ASSUME TypeOK, [Next]_vars, NEW h \in Hold, req[h] # "holding", req'[h] = "holding"
  PROVE  \E i \in Hold, c \in Amount : HoldLock(i, c)
<1> USE DEF TypeOK, reqVars
<1>1. ASSUME NEW i \in Hold, RequestNext(i), ~(\E c \in Amount : HoldLock(i, c))
      PROVE  FALSE
  <2>1. CASE Fail(i) \/ FinalizeFails(i) \/ VoidRefused(i) \/ RequestDies(i) \/ Void(i)
    BY <2>1 DEF Fail, FinalizeFails, VoidRefused, RequestDies, Void
  <2>2. CASE \E c \in Amount : FinalizeLock(i, c)
    BY <2>2 DEF FinalizeLock
  <2>3. CASE \E next \in {"held", "done"} : HoldCommit(i, next)
    BY <2>3 DEF HoldCommit
  <2>4. CASE \E next \in {"voiding", "done"} : FinalizeCommit(i, next)
    BY <2>4 DEF FinalizeCommit
  <2> QED BY <1>1, <2>1, <2>2, <2>3, <2>4 DEF RequestNext, Settle
<1>2. CASE \E i \in Hold : Age(i)
  BY <1>2 DEF Age
<1>3. CASE \E k \in Reconciler : SumHolds(k) \/ WriteHolds(k) \/ ReconcilerDies(k)
  BY <1>3 DEF SumHolds, WriteHolds, ReconcilerDies
<1>4. CASE SweepSelect \/ SweepVoid \/ StakingSync
  BY <1>4 DEF SweepSelect, SweepVoid, StakingSync
<1>5. CASE SetOverage \/ ReadMiss \/ CacheSet \/ CacheExpire \/ UNCHANGED vars
  BY <1>5 DEF SetOverage, ReadMiss, CacheSet, CacheExpire, vars
<1> QED BY <1>1, <1>2, <1>3, <1>4, <1>5 DEF Next, SweepNext, Reconciler

(* An entry is inserted by HoldCommit and by nothing else.                 *)
LEMMA OnlyHoldCommit ==
  ASSUME TypeOK, [Next]_vars, NEW h \in Hold, status[h] = "absent", status'[h] = "pending"
  PROVE  \E next \in {"held", "done"} : HoldCommit(h, next)
<1> USE DEF TypeOK, ledgerVars
<1>1. ASSUME NEW i \in Hold, RequestNext(i), ~(\E next \in {"held", "done"} : HoldCommit(i, next))
      PROVE  FALSE
  BY <1>1 DEF RequestNext, Settle, Fail, FinalizeFails, VoidRefused, RequestDies, Void,
              FinalizeLock, HoldLock, FinalizeCommit
<1>2. ASSUME NEW i \in Hold \ {h}, \E next \in {"held", "done"} : HoldCommit(i, next)
      PROVE  FALSE
  BY <1>2 DEF HoldCommit
<1>3. CASE \E i \in Hold : Age(i)
  BY <1>3 DEF Age
<1>4. CASE \E k \in Reconciler : SumHolds(k) \/ WriteHolds(k) \/ ReconcilerDies(k)
  BY <1>4 DEF SumHolds, WriteHolds, ReconcilerDies
<1>5. CASE SweepSelect \/ SweepVoid \/ StakingSync
  BY <1>5 DEF SweepSelect, SweepVoid, StakingSync
<1>6. CASE SetOverage \/ ReadMiss \/ CacheSet \/ CacheExpire \/ UNCHANGED vars
  BY <1>6 DEF SetOverage, ReadMiss, CacheSet, CacheExpire, vars
<1> QED BY <1>1, <1>2, <1>3, <1>4, <1>5, <1>6 DEF Next, SweepNext, Reconciler

(* The two balances are integers.                                          *)
LEMMA BalanceType == TypeOK => PaidAvailable \in Int /\ StakingAvailable \in Int
  BY SumType, BillingAssumption DEF TypeOK, PaidAvailable, StakingAvailable

(* The balance depends on its columns only.                                *)
LEMMA SameBalance ==
  ASSUME UNCHANGED balanceVars
  PROVE  Effective' = Effective
  BY DEF balanceVars, Effective, PaidAvailable, StakingAvailable

(* The split of a covered estimate takes no more than was checked.         *)
LEMMA HoldLockCovers ==
  ASSUME TypeOK, NEW h \in Hold, NEW est \in Amount, HoldLock(h, est), req'[h] = "holding"
  PROVE  Effective' >= Demand(h)'
<1>1. Effective >= est /\ UNCHANGED balanceVars
  BY DEF HoldLock, TypeOK
<1>2. PICK part \in Numeric :
        /\ part = StakingPart(Row, est, 0)
        /\ plan' = [plan EXCEPT ![h] = [paid |-> PaidPart(Row, est, part), stak |-> part]]
  BY DEF HoldLock, TypeOK
<1>3. plan'[h].paid = PaidPart(Row, est, part) /\ plan'[h].stak = part
  BY <1>2 DEF TypeOK
<1>4. est \in Int /\ part \in Int /\ PaidAvailable \in Int /\ StakingAvailable \in Int
  BY BalanceType, BillingAssumption
<1>5. Demand(h)' = IF ~Row.staking_on THEN PaidPart(Row, est, part)
                   ELSE IF Row.overage THEN PaidPart(Row, est, part) + part
                   ELSE part
  BY <1>1, <1>3 DEF Demand, Row, balanceVars
<1>6. Row.staking = StakingAvailable /\ Row.overage = overage
      /\ Row.staking_on = (staker \/ daily > 0)
  BY DEF Row
<1>7. Effective >= Demand(h)'
  <2> HIDE DEF Row
  <2>1. CASE ~Row.staking_on
    BY <1>1, <1>2, <1>4, <1>5, <1>6, <2>1 DEF StakingPart, PaidPart, Effective
  <2>2. CASE Row.staking_on /\ Row.overage
    BY <1>1, <1>2, <1>4, <1>5, <1>6, <2>2 DEF StakingPart, PaidPart, Effective, Least
  <2>3. CASE Row.staking_on /\ ~Row.overage
    BY <1>1, <1>2, <1>4, <1>5, <1>6, <2>3 DEF StakingPart, PaidPart, Effective, Least
  <2> QED BY <2>1, <2>2, <2>3
<1> QED BY <1>1, <1>7, SameBalance

(* The commit takes the two parts of the split out of the two totals.      *)
LEMMA HoldCommitTotals ==
  ASSUME TypeOK, NEW h \in Hold, NEW next, HoldCommit(h, next)
  PROVE  /\ PaidAvailable' = PaidAvailable - plan[h].paid
         /\ StakingAvailable' = StakingAvailable - plan[h].stak
<1>1. plan[h].paid \in Int /\ plan[h].stak \in Int /\ IsFiniteSet(Hold)
  BY BillingAssumption DEF TypeOK
<1>2. SumFunction(held') = SumFunction(held) + plan[h].paid
  <2>1. /\ held \in [Hold -> Int] /\ held' \in [Hold -> Int]
        /\ held'[h] = held[h] + plan[h].paid
        /\ \A i \in Hold \ {h} : held'[i] = held[i]
    BY <1>1 DEF HoldCommit, TypeOK
  <2>2. SumFunction(held') = SumFunction(held) + held'[h] - held[h]
    BY <1>1, <2>1, SumChange
  <2> QED BY <1>1, <2>1, <2>2, SumType
<1>3. SumFunction(drawn') = SumFunction(drawn) + plan[h].stak
  <2>1. /\ drawn \in [Hold -> Int] /\ drawn' \in [Hold -> Int]
        /\ drawn'[h] = drawn[h] + plan[h].stak
        /\ \A i \in Hold \ {h} : drawn'[i] = drawn[i]
    BY <1>1 DEF HoldCommit, TypeOK
  <2>2. SumFunction(drawn') = SumFunction(drawn) + drawn'[h] - drawn[h]
    BY <1>1, <2>1, SumChange
  <2> QED BY <1>1, <2>1, <2>2, SumType
<1>4. SumFunction(charged) \in Int /\ SumFunction(held) \in Int /\ SumFunction(drawn) \in Int
      /\ Credit \in Int /\ daily \in Int /\ daily' = daily /\ charged' = charged
  BY <1>1, SumType, BillingAssumption DEF TypeOK, HoldCommit
<1> QED BY <1>1, <1>2, <1>3, <1>4 DEF PaidAvailable, StakingAvailable

LEMMA CoverStep == TypeOK /\ CoverInv /\ [Next]_vars => CoverInv'
<1> SUFFICES ASSUME TypeOK, CoverInv, [Next]_vars, NEW h \in Hold, req'[h] = "holding"
             PROVE  /\ \A i \in Hold : req'[i] = "holding" => i = h
                    /\ Effective' >= Demand(h)'
  BY DEF CoverInv
<1>1. ASSUME NEW i \in Hold, NEW next \in {"held", "done"}, HoldCommit(i, next)
      PROVE  FALSE
  BY <1>1 DEF HoldCommit, TypeOK, CoverInv
<1>2. CASE \E i \in Hold : req[i] = "holding"
  <2>1. /\ UNCHANGED balanceVars
        /\ \A i \in Hold : req'[i] = "holding" => req[i] = "holding" /\ plan'[i] = plan[i]
    BY <1>1, <1>2, RowLocked
  <2>2. Effective' = Effective /\ Demand(h)' = Demand(h)
    BY <2>1, SameBalance DEF Demand, balanceVars
  <2> QED BY <2>1, <2>2 DEF CoverInv
<1>3. CASE \A i \in Hold : req[i] # "holding"
  <2>1. PICK i \in Hold, c \in Amount : HoldLock(i, c)
    BY <1>1, <1>3, OnlyHoldLock
  <2>2. \A j \in Hold \ {i} : req'[j] # "holding"
    BY <1>3, <2>1 DEF HoldLock, TypeOK
  <2> QED BY <2>1, <2>2, HoldLockCovers
<1> QED BY <1>2, <1>3

(* The balance row has one holder at most, and what the holder is about to *)
(* reserve stays covered until it commits (create_usage_hold).             *)
THEOREM RowCovered == Spec => []CoverInv
<1>1. Init => CoverInv
  BY DEF Init, CoverInv
<1> QED BY <1>1, CoverStep, TypeCorrect, PTL DEF Spec

(* No hold is committed that overdraws what the account may spend, however *)
(* many requests of the account reserve at a time (create_usage_hold).     *)
THEOREM HoldsCovered == Spec => HoldCovered
<1>1. TypeOK /\ TypeOK' /\ CoverInv /\ [Next]_vars =>
        [\A h \in Hold : status[h] = "absent" /\ status'[h] = "pending" => Effective' >= 0]_vars
  <2> SUFFICES ASSUME TypeOK, TypeOK', CoverInv, [Next]_vars, NEW h \in Hold,
                      status[h] = "absent", status'[h] = "pending"
               PROVE  Effective' >= 0
    OBVIOUS
  <2>1. PICK next \in {"held", "done"} : HoldCommit(h, next)
    BY OnlyHoldCommit
  <2>2. /\ PaidAvailable' = PaidAvailable - plan[h].paid
        /\ StakingAvailable' = StakingAvailable - plan[h].stak
    BY <2>1, HoldCommitTotals
  <2>3. Effective >= Demand(h)
    BY <2>1 DEF CoverInv, HoldCommit
  <2>4. plan[h].paid \in Int /\ plan[h].stak \in Int
        /\ PaidAvailable \in Int /\ StakingAvailable \in Int
    BY BalanceType DEF TypeOK
  <2>5. staker' = staker /\ daily' = daily /\ overage' = overage
    BY <2>1 DEF HoldCommit
  <2> QED BY <2>2, <2>3, <2>4, <2>5 DEF Effective, Demand
<1> QED BY <1>1, TypeCorrect, RowCovered, PTL DEF Spec, HoldCovered

------------------------------------------------------------------------------
(* The account implements HoldLedger.  One lemma for the steps that leave  *)
(* the ledger alone, one for each kind of step that writes it.             *)

LEMMA LedgerAlone ==
  ASSUME TypeOK, SweptInv, UNCHANGED <<status, stale, expired>>,
         \A h \in Hold : req'[h] \in {"held", "finalizing"} => req[h] \in {"held", "finalizing"}
  PROVE  SweptInv' /\ UNCHANGED Ledger!ledger
  BY DEF SweptInv, Ledger!ledger

LEMMA LedgerInserts ==
  ASSUME TypeOK, EntryInv, SweptInv, NEW h \in Hold, NEW next, HoldCommit(h, next)
  PROVE  SweptInv' /\ Ledger!Next
<1>1. Ledger!Insert(h)
  BY DEF HoldCommit, EntryInv, Ledger!Insert, recVars
<1>2. SweptInv'
  BY DEF HoldCommit, SweptInv, TypeOK
<1> QED BY <1>1, <1>2 DEF Ledger!Next

LEMMA LedgerCharges ==
  ASSUME TypeOK, EntryInv, SweptInv, NEW h \in Hold, NEW next \in {"voiding", "done"},
         FinalizeCommit(h, next)
  PROVE  SweptInv' /\ Ledger!Next
<1>1. status[h] = "pending" \/ (status[h] = "voided" /\ h \in expired)
  BY DEF FinalizeCommit, EntryInv, SweptInv
<1>2. Ledger!Charge(h)
  BY <1>1 DEF FinalizeCommit, Ledger!Charge, recVars
<1>3. SweptInv'
  BY DEF FinalizeCommit, SweptInv, TypeOK
<1> QED BY <1>2, <1>3 DEF Ledger!Next

LEMMA LedgerVoids ==
  ASSUME TypeOK, SweptInv, NEW h \in Hold, Void(h)
  PROVE  SweptInv' /\ Ledger!Next
<1>1. Ledger!Void(h)
  BY DEF Void, Ledger!Void, recVars
<1>2. SweptInv'
  BY DEF Void, SweptInv, TypeOK
<1> QED BY <1>1, <1>2 DEF Ledger!Next

LEMMA LedgerSweeps ==
  ASSUME TypeOK, SweptInv, SweepSelect \/ SweepVoid \/ \E k \in Reconciler : ReconcilerDies(k)
  PROVE  SweptInv' /\ [Ledger!Next]_(Ledger!ledger)
<1>1. SweptInv'
  BY DEF SweepSelect, SweepVoid, ReconcilerDies, SweptInv, TypeOK, ledgerVars, reqVars
<1>2. CASE SweepSelect
  <2>1. Ledger!Choose(stale') /\ stale' \in SUBSET Hold
    BY <1>2 DEF SweepSelect, Ledger!Choose, TypeOK, ledgerVars
  <2> QED BY <1>1, <2>1 DEF Ledger!Next
<1>3. CASE SweepVoid
  <2>1. Ledger!Expire(stale)
    BY <1>3 DEF SweepVoid, Ledger!Expire
  <2>2. stale \in SUBSET Hold
    BY DEF TypeOK
  <2> QED BY <1>1, <2>1, <2>2 DEF Ledger!Next
<1>4. CASE \E k \in Reconciler : ReconcilerDies(k)
  <2>1. Ledger!Choose(stale') /\ stale' \in SUBSET Hold
    BY <1>4 DEF ReconcilerDies, Ledger!Choose, TypeOK, ledgerVars
  <2> QED BY <1>1, <2>1 DEF Ledger!Next
<1> QED BY <1>2, <1>3, <1>4

LEMMA LedgerStep ==
  IInv /\ SweptInv /\ [Next]_vars => SweptInv' /\ [Ledger!Next]_(Ledger!ledger)
<1> SUFFICES ASSUME IInv, SweptInv, [Next]_vars
             PROVE  SweptInv' /\ [Ledger!Next]_(Ledger!ledger)
  OBVIOUS
<1> USE DEF IInv
<1>1. ASSUME NEW h \in Hold, RequestNext(h)
      PROVE  SweptInv' /\ [Ledger!Next]_(Ledger!ledger)
  <2>1. ASSUME NEW next \in {"held", "done"}, HoldCommit(h, next)
        PROVE  SweptInv' /\ [Ledger!Next]_(Ledger!ledger)
    BY <2>1, LedgerInserts
  <2>2. ASSUME NEW next \in {"voiding", "done"}, FinalizeCommit(h, next)
        PROVE  SweptInv' /\ [Ledger!Next]_(Ledger!ledger)
    BY <2>2, LedgerCharges
  <2>3. CASE Void(h)
    BY <2>3, LedgerVoids
  <2>4. CASE \/ \E c \in Amount : HoldLock(h, c) \/ FinalizeLock(h, c)
             \/ Fail(h) \/ FinalizeFails(h) \/ VoidRefused(h) \/ RequestDies(h)
    <3>1. /\ UNCHANGED <<status, stale, expired>>
          /\ \A i \in Hold : req'[i] \in {"held", "finalizing"} => req[i] \in {"held", "finalizing"}
      BY <2>4 DEF HoldLock, FinalizeLock, Fail, FinalizeFails, VoidRefused, RequestDies,
                  TypeOK, ledgerVars, recVars
    <3> QED BY <3>1, LedgerAlone
  <2> QED BY <1>1, <2>1, <2>2, <2>3, <2>4 DEF RequestNext, Settle
<1>2. CASE SweepSelect \/ SweepVoid \/ \E k \in Reconciler : ReconcilerDies(k)
  BY <1>2, LedgerSweeps
<1>3. CASE \/ \E h \in Hold : Age(h)
           \/ \E k \in Reconciler : SumHolds(k) \/ WriteHolds(k)
           \/ StakingSync \/ SetOverage \/ ReadMiss \/ CacheSet \/ CacheExpire
           \/ UNCHANGED vars
  <2>1. UNCHANGED <<status, stale, expired>> /\ req' = req
    BY <1>3 DEF Age, SumHolds, WriteHolds, StakingSync, SetOverage, ReadMiss, CacheSet,
                CacheExpire, vars, ledgerVars, reqVars, recVars
  <2> QED BY <2>1, LedgerAlone
<1> QED BY <1>1, <1>2, <1>3 DEF Next, SweepNext, Reconciler

(* Every behaviour of the account is one of HoldLedger: an entry is        *)
(* inserted once, charged or voided once, and only the sweep writes over   *)
(* what is settled (finalize_usage, void_usage, void_stale_holds).         *)
THEOREM LedgerImplemented == Spec => ImplementsLedger
<1>1. Init => SweptInv /\ Ledger!Init
  BY DEF Init, SweptInv, Ledger!Init
<1> QED BY <1>1, LedgerStep, Inductive, PTL DEF Spec, ImplementsLedger, Ledger!Spec
=============================================================================
