-------------------------- MODULE Purchases_proofs --------------------------
(***************************************************************************)
(* Purchases for any number of events, payments, handlers and failures.    *)
(***************************************************************************)
EXTENDS Purchases, FiniteSetTheorems, TLAPS

LEMMA InitInv == Init => IInv
<1> SUFFICES ASSUME Init PROVE IInv
  OBVIOUS
<1>1. TypeOK /\ kind \in Senders
  BY PurchaseAssumption DEF Init, TypeOK, PC
<1>2. Busy /\ LookedUp /\ AnswersPosted
  BY DEF Init, Busy, LookedUp, Past, AnswersPosted
<1>3. EntriesRaced /\ OneHalf /\ AnsweredIsPosted
  BY DEF Init, EntriesRaced, OneHalf, AnsweredIsPosted
<1> QED BY <1>1, <1>2, <1>3 DEF IInv

(* Types, and a busy handler's event.                                      *)
LEMMA TypeStep ==
  ASSUME TypeOK, kind \in Senders, Busy, [Next]_vars
  PROVE  TypeOK' /\ kind' \in Senders /\ Busy'
<1> USE DEF TypeOK, PC, Busy, Goto, Leave, moneyVars
<1>1. ASSUME NEW h \in Handler, NEW e \in Event, Deliver(h, e)
      PROVE TypeOK' /\ kind' \in Senders /\ Busy'
  BY <1>1 DEF Deliver, Checkout, InvoicePaid, ChargeConfirmed, LinkPaid, Adjust, Begin
<1>2. ASSUME NEW h \in Handler, Fail(h) \/ RowTaken(h)
      PROVE TypeOK' /\ kind' \in Senders /\ Busy'
  BY <1>2 DEF Fail, RowTaken, Rollback
<1>3. ASSUME NEW h \in Handler, CheckKey(h) \/ StripeUser(h) \/ CoinbaseUser(h) \/ EnsureRow(h)
      PROVE TypeOK' /\ kind' \in Senders /\ Busy'
  BY <1>3 DEF CheckKey, StripeUser, CoinbaseUser, EnsureRow
<1>4. ASSUME NEW h \in Handler, CheckPayment(h)
      PROVE TypeOK' /\ kind' \in Senders /\ Busy'
  BY <1>4 DEF CheckPayment
<1>5. ASSUME NEW h \in Handler, FlushEntry(h) \/ CreateRow(h) \/ GrantBonus(h) \/ Post(h)
      PROVE TypeOK' /\ kind' \in Senders /\ Busy'
  BY <1>5 DEF FlushEntry, CreateRow, GrantBonus, Post
<1>6. ASSUME NEW h \in Handler, KeyTaken(h) \/ Answer(h)
      PROVE TypeOK' /\ kind' \in Senders /\ Busy'
  BY <1>6 DEF KeyTaken, Answer
<1>7. CASE OpenAccount
  BY <1>7 DEF OpenAccount
<1>8. CASE UNCHANGED vars
  BY <1>8 DEF vars
<1> QED BY <1>1, <1>2, <1>3, <1>4, <1>5, <1>6, <1>7, <1>8 DEF Next, HandlerStep

------------------------------------------------------------------------------
(* Payments that are entered twice.                                        *)

LEMMA SiblingsSym ==
  \A e, f \in Event : f \in Siblings(e) <=> e \in Siblings(f)
  BY DEF Siblings

(* A step that enters nothing, and lets no handler past the lookups.       *)
LEMMA RacedIdle ==
  ASSUME LookedUp, EntriesRaced, ledger' = ledger, raced \subseteq raced',
         \A h \in Handler : Past(h)' => Past(h) /\ event'[h] = event[h]
  PROVE  LookedUp' /\ EntriesRaced'
  BY DEF LookedUp, EntriesRaced, Raced

(* A handler past the lookups enters its event.                            *)
LEMMA RacedEnter ==
  ASSUME TypeOK, Busy, LookedUp, EntriesRaced, NEW h \in Handler, Past(h),
         ledger' = ledger \cup {event[h]}, raced' = raced,
         \A g \in Handler : Past(g)' => Past(g) /\ event'[g] = event[g]
  PROVE  LookedUp' /\ EntriesRaced'
<1>1. event[h] \in Event /\ ledger \subseteq Event /\ event[h] \notin Siblings(event[h])
  BY DEF Past, Busy, TypeOK, Siblings
<1>2. \A f \in ledger : f \in Siblings(event[h]) => Raced(event[h], f)
  BY DEF LookedUp
<1>3. EntriesRaced'
  BY <1>1, <1>2, SiblingsSym DEF EntriesRaced, Raced
<1>4. \A g \in Handler : Past(g) => event[g] \in Event
  BY DEF Past, Busy
<1>5. LookedUp'
  BY <1>1, <1>4, SiblingsSym DEF LookedUp, Raced
<1> QED BY <1>3, <1>5

(* The lookup by payment: no entry of a sibling, and whoever is under way  *)
(* with one is noticed.  An adjustment has no siblings.                    *)
LEMMA RacedPass ==
  ASSUME TypeOK, Busy, LookedUp, EntriesRaced, NEW h \in Handler, event[h] \in Event,
         event' = event, ledger' = ledger, raced \subseteq raced',
         \A g \in Handler \ {h} : Past(g)' => Past(g),
         Siblings(event[h]) \cap ledger = {},
         \A g \in Handler \ {h} :
           Past(g) /\ event[g] \in Siblings(event[h]) => event[h] \in raced'
  PROVE  LookedUp' /\ EntriesRaced'
<1>1. \A g \in Handler : Past(g) => event[g] \in Event
  BY DEF Past, Busy
<1>2. \A e : e \notin Siblings(e)
  BY DEF Siblings
<1>3. LookedUp'
  BY <1>1, <1>2, SiblingsSym DEF LookedUp, Raced
<1>4. EntriesRaced'
  BY DEF EntriesRaced, Raced
<1> QED BY <1>3, <1>4

LEMMA RacedStep ==
  ASSUME TypeOK, kind \in Senders, Busy, LookedUp, EntriesRaced, [Next]_vars
  PROVE  LookedUp' /\ EntriesRaced'
<1>1. ASSUME NEW h \in Handler, NEW e \in Event, Deliver(h, e)
      PROVE LookedUp' /\ EntriesRaced'
  BY <1>1, RacedIdle
  DEF Deliver, Checkout, InvoicePaid, ChargeConfirmed, LinkPaid, Adjust, Begin,
      moneyVars, Past, TypeOK
<1>2. ASSUME NEW h \in Handler, Fail(h) \/ RowTaken(h) \/ KeyTaken(h) \/ Answer(h)
      PROVE LookedUp' /\ EntriesRaced'
  BY <1>2, RacedIdle
  DEF Fail, RowTaken, Rollback, KeyTaken, Answer, Goto, Leave, moneyVars, Past, TypeOK
<1>3. ASSUME NEW h \in Handler,
             StripeUser(h) \/ CoinbaseUser(h) \/ FlushEntry(h) \/ EnsureRow(h) \/ GrantBonus(h)
      PROVE LookedUp' /\ EntriesRaced'
  BY <1>3, RacedIdle
  DEF StripeUser, CoinbaseUser, FlushEntry, EnsureRow, GrantBonus, Goto, moneyVars,
      Past, TypeOK
<1>4. ASSUME NEW h \in Handler, CreateRow(h) \/ Post(h)
      PROVE LookedUp' /\ EntriesRaced'
  BY <1>4, RacedEnter DEF CreateRow, Post, Goto, Past, TypeOK
<1>5. ASSUME NEW h \in Handler, CheckKey(h) PROVE LookedUp' /\ EntriesRaced'
  <2>1. event[h] \in Event
    BY <1>5 DEF CheckKey, Busy
  <2>2. CASE pc'[h] = "insert"
    <3>1. Siblings(event[h]) = {}
      BY <1>5, <2>1, <2>2, PurchaseAssumption DEF CheckKey, Goto, TypeOK, Siblings
    <3> QED BY <1>5, <2>1, <3>1, RacedPass DEF CheckKey, Goto, moneyVars, Past, TypeOK
  <2>3. CASE pc'[h] # "insert"
    BY <1>5, <2>3, RacedIdle DEF CheckKey, Goto, moneyVars, Past, TypeOK
  <2> QED BY <2>2, <2>3
<1>6. ASSUME NEW h \in Handler, CheckPayment(h) PROVE LookedUp' /\ EntriesRaced'
  <2>1. event[h] \in Event
    BY <1>6 DEF CheckPayment, Busy
  <2>2. CASE Siblings(event[h]) \cap ledger # {}
    BY <1>6, <2>2, RacedIdle
    DEF CheckPayment, StripeDuplicate, CoinbaseDuplicate, Goto, moneyVars, Past, TypeOK
  <2>3. CASE Siblings(event[h]) \cap ledger = {}
    <3>1. raced' = IF Racing(h) THEN raced \cup {event[h]} ELSE raced
      BY <1>6, <2>3 DEF CheckPayment, StripeDuplicate, CoinbaseDuplicate
    <3>2. \A g \in Handler \ {h} :
            Past(g) /\ event[g] \in Siblings(event[h]) => event[h] \in raced'
      BY <3>1 DEF Racing, Past
    <3>3. \A g \in Handler \ {h} : Past(g)' => Past(g)
      BY <1>6 DEF CheckPayment, Goto, Past, TypeOK
    <3> QED BY <1>6, <2>1, <2>3, <3>1, <3>2, <3>3, RacedPass DEF CheckPayment, Goto, moneyVars
  <2> QED BY <2>2, <2>3
<1>7. CASE OpenAccount
  BY <1>7, RacedIdle DEF OpenAccount, Past
<1>8. CASE UNCHANGED vars
  BY <1>8, RacedIdle DEF vars, moneyVars, Past
<1> QED BY <1>1, <1>2, <1>3, <1>4, <1>5, <1>6, <1>7, <1>8 DEF Next, HandlerStep

------------------------------------------------------------------------------
(* Entries without their amount.                                           *)

LEMMA HalfStep ==
  ASSUME OneHalf, [Next]_vars
  PROVE  OneHalf'
<1> USE DEF OneHalf
<1>1. ASSUME NEW h \in Handler, CreateRow(h) PROVE OneHalf'
  BY <1>1 DEF CreateRow
<1>2. ASSUME NEW h \in Handler, Post(h) PROVE OneHalf'
  BY <1>2 DEF Post
<1>3. ASSUME UNCHANGED <<ledger, credited>>, account => account' PROVE OneHalf'
  BY <1>3
<1>4. ASSUME NEW h \in Handler, NEW e, Deliver(h, e) \/ Fail(h) PROVE OneHalf'
  BY <1>4
  DEF Deliver, Checkout, InvoicePaid, ChargeConfirmed, LinkPaid, Adjust, Begin, Fail,
      moneyVars
<1>5. ASSUME NEW h \in Handler,
             \/ CheckKey(h) \/ CheckPayment(h) \/ StripeUser(h) \/ CoinbaseUser(h)
             \/ FlushEntry(h) \/ KeyTaken(h) \/ EnsureRow(h) \/ RowTaken(h)
             \/ GrantBonus(h) \/ Answer(h)
      PROVE OneHalf'
  BY <1>5
  DEF CheckKey, CheckPayment, StripeUser, CoinbaseUser, FlushEntry, KeyTaken, EnsureRow,
      RowTaken, GrantBonus, Answer, moneyVars
<1>6. CASE OpenAccount
  BY <1>6 DEF OpenAccount
<1>7. CASE UNCHANGED vars
  BY <1>7 DEF vars, moneyVars
<1> QED BY <1>1, <1>2, <1>4, <1>5, <1>6, <1>7 DEF Next, HandlerStep

------------------------------------------------------------------------------
(* Answers.                                                                *)

(* Entries stay, and an answer under way is one that was, or has its entry.*)
LEMMA AnswerIdle ==
  ASSUME AnswersPosted, AnsweredIsPosted, ledger \subseteq ledger', acked' = acked,
         \A h \in Handler : pc'[h] = "answer" =>
           \/ pc[h] = "answer" /\ event'[h] = event[h]
           \/ ({event'[h]} \cup Siblings(event'[h])) \cap ledger' # {}
  PROVE  AnswersPosted' /\ AnsweredIsPosted'
<1>1. AnswersPosted'
  BY DEF AnswersPosted
<1>2. AnsweredIsPosted'
  BY DEF AnsweredIsPosted
<1> QED BY <1>1, <1>2

LEMMA AnswerStep ==
  ASSUME TypeOK, AnswersPosted, AnsweredIsPosted, [Next]_vars
  PROVE  AnswersPosted' /\ AnsweredIsPosted'
<1>1. ASSUME NEW h \in Handler, NEW e \in Event, Deliver(h, e)
      PROVE AnswersPosted' /\ AnsweredIsPosted'
  BY <1>1, AnswerIdle
  DEF Deliver, Checkout, InvoicePaid, ChargeConfirmed, LinkPaid, Adjust, Begin,
      moneyVars, TypeOK
<1>2. ASSUME NEW h \in Handler, Fail(h) \/ RowTaken(h)
      PROVE AnswersPosted' /\ AnsweredIsPosted'
  BY <1>2, AnswerIdle DEF Fail, RowTaken, Rollback, Leave, TypeOK
<1>3. ASSUME NEW h \in Handler, CheckKey(h) \/ KeyTaken(h)
      PROVE AnswersPosted' /\ AnsweredIsPosted'
  BY <1>3, AnswerIdle DEF CheckKey, KeyTaken, Goto, Leave, moneyVars, TypeOK
<1>4. ASSUME NEW h \in Handler, CheckPayment(h)
      PROVE AnswersPosted' /\ AnsweredIsPosted'
  BY <1>4, AnswerIdle
  DEF CheckPayment, StripeDuplicate, CoinbaseDuplicate, Goto, moneyVars, TypeOK
<1>5. ASSUME NEW h \in Handler,
             \/ StripeUser(h) \/ CoinbaseUser(h) \/ FlushEntry(h) \/ EnsureRow(h)
             \/ CreateRow(h) \/ GrantBonus(h)
      PROVE AnswersPosted' /\ AnsweredIsPosted'
  BY <1>5, AnswerIdle
  DEF StripeUser, CoinbaseUser, FlushEntry, EnsureRow, CreateRow, GrantBonus, Goto,
      moneyVars, TypeOK
<1>6. ASSUME NEW h \in Handler, Post(h)
      PROVE AnswersPosted' /\ AnsweredIsPosted'
  BY <1>6, AnswerIdle DEF Post, Goto, TypeOK
<1>7. ASSUME NEW h \in Handler, Answer(h)
      PROVE AnswersPosted' /\ AnsweredIsPosted'
  BY <1>7 DEF Answer, Leave, moneyVars, TypeOK, AnswersPosted, AnsweredIsPosted
<1>8. CASE OpenAccount \/ UNCHANGED vars
  BY <1>8, AnswerIdle DEF OpenAccount, vars, moneyVars
<1> QED BY <1>1, <1>2, <1>3, <1>4, <1>5, <1>6, <1>7, <1>8 DEF Next, HandlerStep

------------------------------------------------------------------------------
(* Theorems.                                                               *)

(* The invariant of the module is inductive.                               *)
THEOREM Inductive == Spec => []IInv
<1>1. IInv /\ [Next]_vars => IInv'
  BY TypeStep, RacedStep, HalfStep, AnswerStep DEF IInv
<1> QED BY InitInv, <1>1, PTL DEF Spec

(* A payment is credited twice only by events that were handled at once.   *)
THEOREM CreditedOnce == Spec => []PaidOnce
<1>1. IInv => PaidOnce
  BY DEF IInv, EntriesRaced, OneHalf, Raced, PaidOnce
<1> QED BY Inductive, <1>1, PTL

(* Nothing is credited without an entry, and at most one entry is left     *)
(* without its amount.                                                     *)
THEOREM LossBounded == Spec => []LossBound
<1>1. ASSUME OneHalf PROVE LossBound
  <2>1. CASE Halfway = {}
    BY <1>1, <2>1, FS_EmptySet DEF OneHalf, LossBound
  <2>2. ASSUME NEW e \in Halfway PROVE LossBound
    <3>1. Halfway = {e}
      BY <1>1, <2>2 DEF OneHalf, Halfway
    <3>2. Cardinality({e}) = 1
      BY FS_Singleton
    <3> QED BY <1>1, <3>1, <3>2 DEF OneHalf, LossBound
  <2> QED BY <2>1, <2>2
<1>2. IInv => LossBound
  BY <1>1 DEF IInv
<1> QED BY Inductive, <1>2, PTL

(* A sender is told 200 only when the payment is in the ledger.            *)
THEOREM AnsweredPosted == Spec => []AnsweredIsPosted
<1>1. IInv => AnsweredIsPosted
  BY DEF IInv
<1> QED BY Inductive, <1>1, PTL
=============================================================================
