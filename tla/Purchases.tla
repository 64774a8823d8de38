------------------------------ MODULE Purchases ------------------------------
(***************************************************************************)
(* Credit purchases of one account: Stripe and Coinbase webhooks, which    *)
(* their senders repeat until they are answered 200, and an administrator's*)
(* adjustment.  A handler looks for the event, then for the payment, then  *)
(* inserts a ledger entry and adds to the balance in one transaction, that *)
(* commits in the middle when the account has no balance row yet.          *)
(*                                                                         *)
(* credits_ledger.idempotency_key, made of the event, is unique;           *)
(* external_transaction_id, the payment, is not.                           *)
(***************************************************************************)
EXTENDS Naturals, FiniteSets

CONSTANTS
  Event,       \* purchase events, and keys of adjustments
  Payment,
  PaymentOf,   \* PaymentOf[e]: external_transaction_id
  Senders,     \* functions that say what sends each event
  Handler,     \* handlers that run at once, on any replica
  NoEvent,
  MaxFails     \* bound: handlers that fail or die

Kind == {"checkout", "invoice", "charge", "link", "adjust"}
Stripe == {"checkout", "invoice"}
Siblings(e) == {f \in Event : f # e /\ PaymentOf[f] = PaymentOf[e]}

(* A payment has one provider.  A payment link's id is its event and its   *)
(* transaction; an adjustment has no transaction.                          *)
ASSUME PurchaseAssumption ==
  /\ PaymentOf \in [Event -> Payment] /\ NoEvent \notin Event
  /\ Senders \subseteq [Event -> Kind]
  /\ \A k \in Senders, e \in Event : \A f \in Siblings(e) :
       /\ k[e] \in Stripe <=> k[f] \in Stripe
       /\ k[e] \notin {"link", "adjust"}
  /\ MaxFails \in Nat

VARIABLES
  kind,      \* what sends the event
  acked,     \* events whose sender was answered 200
  pc, event, \* what each handler does, and for which event
  flushed,   \* events with an entry flushed and not committed
  ledger,    \* events with a committed ledger entry
  credited,  \* events whose amount is in paid_posted_balance
  account,   \* the account has a balance row
  bonus,     \* the signup bonus is granted: entry and amount
  raced,     \* history: events that passed both lookups while another
             \* handler was between its lookup and its commit
  fails

moneyVars == <<flushed, ledger, credited, account, bonus>>
vars == <<kind, acked, pc, event, moneyVars, raced, fails>>

PC == {"idle", "key", "txn", "user", "insert", "ensure", "create", "bonus",
       "update", "answer"}

TypeOK ==
  /\ kind \in [Event -> Kind]
  /\ acked \in SUBSET Event
  /\ pc \in [Handler -> PC]
  /\ event \in [Handler -> Event \cup {NoEvent}]
  /\ flushed \in SUBSET Event /\ ledger \in SUBSET Event
  /\ credited \in SUBSET Event /\ raced \in SUBSET Event
  /\ account \in BOOLEAN /\ bonus \in BOOLEAN
  /\ fails \in Nat

Init ==
  /\ kind \in Senders
  /\ acked = {}
  /\ pc = [h \in Handler |-> "idle"]
  /\ event = [h \in Handler |-> NoEvent]
  /\ flushed = {} /\ ledger = {} /\ credited = {} /\ raced = {}
  /\ account \in BOOLEAN /\ bonus = FALSE
  /\ fails = 0

------------------------------------------------------------------------------
(* Deliveries.                                                             *)

Goto(h, l) == pc' = [pc EXCEPT ![h] = l] /\ UNCHANGED event
Leave(h) ==
  pc' = [pc EXCEPT ![h] = "idle"] /\ event' = [event EXCEPT ![h] = NoEvent]

Begin(h, e, k) ==
  /\ pc[h] = "idle" /\ e \notin acked /\ kind[e] = k
  /\ event' = [event EXCEPT ![h] = e]
  /\ pc' = [pc EXCEPT ![h] = "key"]
  /\ UNCHANGED <<kind, acked, moneyVars, raced, fails>>

(* handle_stripe_webhook                                                   *)
Checkout(h, e) == Begin(h, e, "checkout")
InvoicePaid(h, e) == Begin(h, e, "invoice")
(* handle_coinbase_webhook, in its two formats                             *)
ChargeConfirmed(h, e) == Begin(h, e, "charge")
LinkPaid(h, e) == Begin(h, e, "link")
(* An administrator retries with the same key until he gets an answer.     *)
Adjust(h, e) == Begin(h, e, "adjust")

(* The session ends without a commit: what is flushed is rolled back.      *)
Rollback_KeepsFlush(h) == Leave(h) /\ UNCHANGED flushed
Rollback(h) ==
  /\ Leave(h)
  /\ flushed' = flushed \ (IF pc[h] \in {"ensure", "create", "bonus", "update"}
                             THEN {event[h]} ELSE {})

(* 500, a crash, a cancelled request: the sender tries again.              *)
Fail(h) ==
  /\ pc[h] # "idle" /\ fails < MaxFails
  /\ fails' = fails + 1
  /\ Rollback(h)
  /\ UNCHANGED <<kind, acked, ledger, credited, account, bonus, raced>>

------------------------------------------------------------------------------
(* Lookups.                                                                *)

(* By idempotency key: this event was processed.                           *)
CheckKey(h) ==
  /\ pc[h] = "key"
  /\ Goto(h, IF event[h] \in ledger THEN "answer"
             ELSE IF kind[event[h]] = "adjust" THEN "insert" ELSE "txn")
  /\ UNCHANGED <<kind, acked, moneyVars, raced, fails>>

(* Handlers between their lookup and their commit.                         *)
Racing(h) ==
  \E g \in Handler \ {h} :
    /\ event[g] \in Siblings(event[h])
    /\ pc[g] \in {"user", "insert", "ensure", "create", "bonus", "update"}

(* By transaction id, at the provider of the event: another event of this  *)
(* payment was processed.                                                  *)
StripeDuplicate_ByEvent(e) == FALSE
StripeDuplicate(e) == kind[e] \in Stripe /\ Siblings(e) \cap ledger # {}
CoinbaseDuplicate(e) == kind[e] \notin Stripe /\ Siblings(e) \cap ledger # {}

CheckPayment(h) ==
  /\ pc[h] = "txn"
  /\ IF StripeDuplicate(event[h]) \/ CoinbaseDuplicate(event[h])
       THEN Goto(h, "answer") /\ UNCHANGED raced
       ELSE /\ Goto(h, "user")
            /\ raced' = IF Racing(h) THEN raced \cup {event[h]} ELSE raced
  /\ UNCHANGED <<kind, acked, moneyVars, fails>>

(* _get_user_from_metadata, with a call to Stripe's API for an invoice,    *)
(* and the amount.  Refusals are answered 500: Fail.                       *)
StripeUser(h) ==
  /\ pc[h] = "user" /\ kind[event[h]] \in Stripe
  /\ Goto(h, "insert")
  /\ UNCHANGED <<kind, acked, moneyVars, raced, fails>>

CoinbaseUser(h) ==
  /\ pc[h] = "user" /\ kind[event[h]] \notin Stripe
  /\ Goto(h, "insert")
  /\ UNCHANGED <<kind, acked, moneyVars, raced, fails>>

------------------------------------------------------------------------------
(* The transaction.                                                        *)

(* create_ledger_entry(auto_commit=False): the unique key makes a second   *)
(* insert wait for the first one's transaction.                            *)
FlushEntry_Commits(h) ==
  /\ pc[h] = "insert" /\ event[h] \notin flushed \cup ledger
  /\ ledger' = ledger \cup {event[h]}
  /\ Goto(h, "ensure")
  /\ UNCHANGED <<kind, acked, flushed, credited, account, bonus, raced, fails>>
FlushEntry(h) ==
  /\ pc[h] = "insert" /\ event[h] \notin flushed \cup ledger
  /\ flushed' = flushed \cup {event[h]}
  /\ Goto(h, "ensure")
  /\ UNCHANGED <<kind, acked, ledger, credited, account, bonus, raced, fails>>

(* IntegrityError: a webhook answers 500, adjust_credits rolls back and    *)
(* returns the entry that is there.                                        *)
KeyTaken(h) ==
  /\ pc[h] = "insert" /\ event[h] \in ledger
  /\ IF kind[event[h]] = "adjust" THEN Goto(h, "answer") ELSE Leave(h)
  /\ UNCHANGED <<kind, acked, moneyVars, raced, fails>>

(* update_balance(ensure_exists=True): get_or_create_balance looks for the *)
(* row, in the cache or in the database.                                   *)
EnsureRow(h) ==
  /\ pc[h] = "ensure"
  /\ Goto(h, IF account THEN "update" ELSE "create")
  /\ UNCHANGED <<kind, acked, moneyVars, raced, fails>>

(* It creates the row and commits, the caller's ledger entry with it.      *)
CreateRow(h) ==
  /\ pc[h] = "create" /\ ~account
  /\ account' = TRUE
  /\ ledger' = ledger \cup {event[h]}
  /\ flushed' = flushed \ {event[h]}
  /\ Goto(h, "bonus")
  /\ UNCHANGED <<kind, acked, credited, bonus, raced, fails>>

(* Somebody else created it: a duplicate primary key, and 500.             *)
RowTaken(h) ==
  /\ pc[h] = "create" /\ account
  /\ Rollback(h)
  /\ UNCHANGED <<kind, acked, ledger, credited, account, bonus, raced, fails>>

(* grant_signup_bonus: granted, or skipped by its guards or by an error.   *)
GrantBonus(h) ==
  /\ pc[h] = "bonus"
  /\ bonus' \in {bonus, TRUE}
  /\ Goto(h, "update")
  /\ UNCHANGED <<kind, acked, flushed, ledger, credited, account, raced, fails>>

(* UPDATE balance + amount, and commit: both, or neither.                  *)
Post(h) ==
  /\ pc[h] = "update"
  /\ ledger' = ledger \cup {event[h]}
  /\ credited' = credited \cup {event[h]}
  /\ flushed' = flushed \ {event[h]}
  /\ Goto(h, "answer")
  /\ UNCHANGED <<kind, acked, account, bonus, raced, fails>>

(* 200, or the adjustment's answer.                                        *)
Answer_BeforeCommit(h) ==
  /\ pc[h] \in {"insert", "answer"}
  /\ acked' = acked \cup {event[h]}
  /\ Leave(h)
  /\ UNCHANGED <<kind, moneyVars, raced, fails>>
Answer(h) ==
  /\ pc[h] = "answer"
  /\ acked' = acked \cup {event[h]}
  /\ Leave(h)
  /\ UNCHANGED <<kind, moneyVars, raced, fails>>

(* Any other request of the user creates the row.                          *)
OpenAccount ==
  /\ ~account
  /\ account' = TRUE
  /\ bonus' \in BOOLEAN
  /\ UNCHANGED <<kind, acked, pc, event, flushed, ledger, credited, raced, fails>>

HandlerStep(h) ==
  \/ CheckKey(h) \/ CheckPayment(h) \/ StripeUser(h) \/ CoinbaseUser(h)
  \/ FlushEntry(h) \/ KeyTaken(h) \/ EnsureRow(h) \/ CreateRow(h)
  \/ RowTaken(h) \/ GrantBonus(h) \/ Post(h) \/ Answer(h)

Deliver(h, e) ==
  \/ Checkout(h, e) \/ InvoicePaid(h, e) \/ ChargeConfirmed(h, e)
  \/ LinkPaid(h, e) \/ Adjust(h, e)

Next ==
  \/ \E h \in Handler :
       HandlerStep(h) \/ Fail(h) \/ \E e \in Event : Deliver(h, e)
  \/ OpenAccount

Spec == Init /\ [][Next]_vars

(* Handlers run to their end; senders repeat what is not answered.         *)
Fairness ==
  /\ \A h \in Handler : WF_vars(HandlerStep(h))
  /\ \A e \in Event : SF_vars(\E h \in Handler : Deliver(h, e))
FairSpec == Spec /\ Fairness

------------------------------------------------------------------------------
(* Properties.                                                             *)

Inside(h) == pc[h] \in {"bonus", "update"}

(* Nothing is credited without an entry, and an entry is uncredited only   *)
(* while its handler goes on, or for one payment, the first of an account, *)
(* whose handler died after the commit in the middle of its transaction.   *)
Halfway ==
  {e \in ledger \ credited : ~\E h \in Handler : event[h] = e /\ Inside(h)}
LossBound == credited \subseteq ledger /\ Cardinality(Halfway) <= 1

(* A payment is credited twice only by events that were handled at once.   *)
PaidOnce ==
  \A e, f \in credited : f \in Siblings(e) => e \in raced \/ f \in raced

(* 200 only after the commit: an answered event's payment is in the ledger.*)
AnsweredIsPosted ==
  \A e \in acked : ({e} \cup Siblings(e)) \cap ledger # {}

(* Together with the types these are inductive.  A handler past its lookup *)
(* knows that the payment's other entries raced with it, the row is created*)
(* once, and an answer follows an entry of its payment.                    *)
Past(h) == pc[h] \in {"user", "insert", "ensure", "create", "bonus", "update"}
Raced(e, f) == e \in raced \/ f \in raced
LookedUp ==
  \A h \in Handler : Past(h) =>
    /\ \A f \in Siblings(event[h]) \cap ledger : Raced(event[h], f)
    /\ \A g \in Handler :
         Past(g) /\ event[g] \in Siblings(event[h]) => Raced(event[h], event[g])
EntriesRaced == \A e, f \in ledger : f \in Siblings(e) => Raced(e, f)
OneHalf ==
  /\ credited \subseteq ledger
  /\ \A e, f \in ledger \ credited : e = f
  /\ ~account => ledger \subseteq credited
AnswersPosted ==
  \A h \in Handler : pc[h] = "answer" =>
    ({event[h]} \cup Siblings(event[h])) \cap ledger # {}
Busy == \A h \in Handler : pc[h] # "idle" => event[h] \in Event

IInv ==
  /\ TypeOK /\ kind \in Senders /\ Busy
  /\ LookedUp /\ EntriesRaced /\ OneHalf /\ AnswersPosted /\ AnsweredIsPosted

(* Every event is answered in the end, through failures and repetitions.   *)
EventuallyAnswered == \A e \in Event : <>(e \in acked)

(* "Guards against multiple events for same payment."                      *)
PaymentOnce == \A e, f \in credited : f \notin Siblings(e)

(* "If either fails, neither is persisted."                                *)
EntryIsCredited == Halfway = {}

=============================================================================
