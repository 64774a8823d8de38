------------------------------- MODULE Stakes -------------------------------
(***************************************************************************)
(* Linked wallets and the daily staking allowance: link and unlink         *)
(* requests (api/v1/wallet, crud/wallet.py), and the daily sync, run by    *)
(* the replica that wins an advisory lock and, without it, by an           *)
(* administrator.  Billing has what becomes of an allowance; here is who   *)
(* gets one.  Stakes do not move during the days of the model.             *)
(***************************************************************************)
EXTENDS Naturals

CONSTANTS
  User, NoUser,
  Wallet, Staked,    \* Staked: the wallets the Builders API lists
  Nonce, NonceUser,  \* bound: one link for each nonce
  Req,               \* wallet requests that run at once
  Syncer,            \* replicas: each runs one sync at a time
  Asked,             \* bound: replicas an administrator asks to sync
  MaxFails           \* bound: errors, crashes and dropped locks

ASSUME StakesAssumption ==
  /\ NoUser \notin User /\ Staked \subseteq Wallet
  /\ Asked \subseteq Syncer
  /\ NonceUser \in [Nonce -> User] /\ MaxFails \in Nat

VARIABLES
  owner,     \* wallet_links: the user of each wallet
  amount,    \* wallets whose row has staked_amount > 0
  consumed,  \* nonces
  granted,   \* users with staking_daily_amount > 0
  flag,      \* users with is_staker
  fresh,     \* users with staking_refresh_date = today
  entries,   \* users with a staking_refresh entry of today
  pc, job,   \* requests: where each stands, for which nonce (its user)
             \* and wallet
  sync, snap, left, gone,  \* syncs: step, links loaded, users to do,
                           \* loaded links deleted since
  broken,    \* syncs whose loaded objects were expired by a rollback
  stale,     \* stale[s]: users the sync is about to zero
  lock,      \* who holds the advisory lock
  due,       \* replicas whose loop has to wake today
  clash,     \* history: users a sync failed without any fault of its own
  moved,     \* history: users that unlinked since their last refresh
  missed,    \* history: users whose is_staker was not cleared by an unlink
  fails

linkVars == <<owner, amount, consumed>>
grantVars == <<granted, flag, fresh, entries>>
reqVars == <<pc, job>>
loopVars == <<lock, due>>
hist == <<clash, moved, missed>>
syncVars == <<sync, snap, left, gone, broken, stale>>
vars == <<linkVars, grantVars, reqVars, loopVars, syncVars, hist, fails>>

NoJob == [user |-> NoUser]
Job == [user : User, nonce : Nonce, wallet : Wallet]
         \cup [user : User, wallet : Wallet] \cup {NoJob}

TypeOK ==
  /\ owner \in [Wallet -> User \cup {NoUser}] /\ amount \subseteq Wallet
  /\ consumed \subseteq Nonce /\ missed \subseteq User
  /\ granted \subseteq User /\ flag \subseteq User /\ fresh \subseteq User
  /\ entries \subseteq User /\ moved \subseteq User /\ clash \subseteq User
  /\ pc \in [Req -> {"idle", "nonce", "check", "insert", "mark",
                     "recheck", "unmark"}]
  /\ job \in [Req -> Job]
  /\ sync \in [Syncer -> {"off", "fetch", "users", "zeroing"}]
  /\ snap \in [Syncer -> [Wallet -> User \cup {NoUser}]]
  /\ left \in [Syncer -> SUBSET User] /\ gone \in [Syncer -> SUBSET Wallet]
  /\ broken \subseteq Syncer /\ stale \in [Syncer -> SUBSET User]
  /\ lock \subseteq Syncer /\ due \subseteq Syncer
  /\ fails \in Nat

NoLinks == [w \in Wallet |-> NoUser]

Init ==
  /\ owner \in [Wallet -> User \cup {NoUser}]
  /\ amount = {w \in Staked : owner[w] # NoUser}
  /\ consumed = {} /\ missed = {}
  /\ granted = {} /\ flag = {} /\ fresh = {} /\ entries = {}
  /\ moved = {} /\ clash = {}
  /\ pc = [q \in Req |-> "idle"] /\ job = [q \in Req |-> NoJob]
  /\ sync = [s \in Syncer |-> "off"] /\ snap = [s \in Syncer |-> NoLinks]
  /\ left = [s \in Syncer |-> {}] /\ gone = [s \in Syncer |-> {}]
  /\ broken = {} /\ stale = [s \in Syncer |-> {}]
  /\ lock = {} /\ due = Syncer
  /\ fails = 0

Fault == fails < MaxFails /\ fails' = fails + 1

------------------------------------------------------------------------------
(* Linking.                                                                *)

Goto(q, l) == pc' = [pc EXCEPT ![q] = l] /\ UNCHANGED job
Done(q) == pc' = [pc EXCEPT ![q] = "idle"] /\ job' = [job EXCEPT ![q] = NoJob]

(* verify_and_consume_nonce reads a nonce that is not consumed, or expired.*)
ReadNonce(q, n, w) ==
  /\ pc[q] = "idle" /\ n \notin consumed
  /\ pc' = [pc EXCEPT ![q] = "nonce"]
  /\ job' = [job EXCEPT ![q] = [user |-> NonceUser[n], nonce |-> n, wallet |-> w]]
  /\ UNCHANGED <<linkVars, grantVars, loopVars, syncVars, hist, fails>>

(* An UPDATE of the row by its id, whatever became of it, and a commit.    *)
ConsumeNonce(q) ==
  /\ pc[q] = "nonce"
  /\ consumed' = consumed \cup {job[q].nonce}
  /\ Goto(q, "check")
  /\ UNCHANGED <<owner, amount, grantVars, loopVars, syncVars, hist, fails>>

(* Message and signature are in order, and the wallet is free; its stake is*)
(* fetched.                                                                *)
Verify(q) ==
  /\ pc[q] = "check" /\ owner[job[q].wallet] = NoUser
  /\ Goto(q, "insert")
  /\ UNCHANGED <<linkVars, grantVars, loopVars, syncVars, hist, fails>>

(* One of the checks says no; the nonce is spent.                          *)
LinkRefused(q) ==
  /\ pc[q] = "check"
  /\ Done(q)
  /\ UNCHANGED <<linkVars, grantVars, loopVars, syncVars, hist, fails>>

(* create_wallet_link; the stake is 0 when the API was not reached.        *)
InsertLink(q) ==
  /\ pc[q] = "insert"
  /\ LET w == job[q].wallet IN
     IF owner[w] # NoUser
       THEN Done(q) /\ UNCHANGED <<owner, amount>>  \* IntegrityError: 409
       ELSE /\ owner' = [owner EXCEPT ![w] = job[q].user]
            /\ \/ w \in Staked /\ amount' = amount \cup {w} /\ Goto(q, "mark")
               \/ UNCHANGED amount /\ Done(q)
  /\ UNCHANGED <<consumed, grantVars, loopVars, syncVars, hist, fails>>

(* is_staker, on the row; or on a copy from the cache, which no commit     *)
(* writes.                                                                 *)
MarkStaker(q) ==
  /\ pc[q] = "mark"
  /\ LET u == job[q].user IN
     \/ /\ flag' = flag \cup {u}
        /\ missed' = IF owner[job[q].wallet] = u THEN missed ELSE missed \cup {u}
     \/ UNCHANGED <<flag, missed>>
  /\ Done(q)
  /\ UNCHANGED <<granted, fresh, entries, linkVars, loopVars, syncVars, clash, moved, fails>>

------------------------------------------------------------------------------
(* Unlinking, by the wallet's owner.                                       *)

DeleteLink(q, w) ==
  /\ pc[q] = "idle" /\ owner[w] # NoUser
  /\ owner' = [owner EXCEPT ![w] = NoUser]
  /\ amount' = amount \ {w}
  /\ gone' = [s \in Syncer |-> IF snap[s][w] = NoUser THEN gone[s] ELSE gone[s] \cup {w}]
  /\ moved' = moved \cup {owner[w]}
  /\ pc' = [pc EXCEPT ![q] = "recheck"]
  /\ job' = [job EXCEPT ![q] = [user |-> owner[w], wallet |-> w]]
  /\ UNCHANGED <<consumed, grantVars, loopVars, sync, snap, left, broken, stale,
                 clash, missed, fails>>

(* The links that remain, after the delete.                                *)
Remaining_BeforeDelete(q) ==
  {w \in amount : owner[w] = job[q].user} \cup {job[q].wallet}
Remaining(q) == {w \in amount : owner[w] = job[q].user}

Recheck(q) ==
  /\ pc[q] = "recheck"
  /\ IF Remaining(q) # {} THEN Done(q) ELSE Goto(q, "unmark")
  /\ UNCHANGED <<linkVars, grantVars, loopVars, syncVars, hist, fails>>

UnmarkStaker(q) ==
  /\ pc[q] = "unmark"
  /\ LET u == job[q].user IN
     \/ flag' = flag \ {u} /\ UNCHANGED missed
     \/ UNCHANGED flag /\ missed' = missed \cup {u}
  /\ Done(q)
  /\ UNCHANGED <<granted, fresh, entries, linkVars, loopVars, syncVars, clash, moved, fails>>

(* The client leaves, or an error: what is committed stays.                *)
RequestDies(q) ==
  /\ pc[q] # "idle" /\ Fault
  /\ missed' = missed \cup ({job[q].user} \cap flag)
  /\ Done(q)
  /\ UNCHANGED <<linkVars, grantVars, loopVars, syncVars, clash, moved>>

------------------------------------------------------------------------------
(* Who syncs.                                                              *)

Begin(s) == sync' = [sync EXCEPT ![s] = "fetch"]
syncRest == <<snap, left, gone, broken, stale>>

(* daily_staking_sync at 00:05: the lock is won, or somebody else syncs.   *)
Wake(s) ==
  /\ s \in due /\ sync[s] = "off"
  /\ due' = due \ {s}
  /\ IF lock = {} THEN lock' = {s} /\ Begin(s) ELSE UNCHANGED <<lock, sync>>
  /\ UNCHANGED <<linkVars, grantVars, reqVars, syncRest, hist, fails>>

(* POST /billing/admin/staking/refresh                                     *)
AdminSync(s) ==
  /\ s \in Asked /\ sync[s] = "off"
  /\ Begin(s)
  /\ UNCHANGED <<linkVars, grantVars, reqVars, loopVars, syncRest, hist, fails>>

(* The connection of the lock drops; the sync, on another one, goes on.    *)
LockDrops(s) ==
  /\ s \in lock /\ Fault
  /\ lock' = {}
  /\ UNCHANGED <<due, linkVars, grantVars, reqVars, syncVars, hist>>

(* What ends a sync ends the lock, too, and forgets what was loaded.       *)
Ends(s) ==
  /\ sync' = [sync EXCEPT ![s] = "off"]
  /\ snap' = [snap EXCEPT ![s] = NoLinks]
  /\ left' = [left EXCEPT ![s] = {}] /\ gone' = [gone EXCEPT ![s] = {}]
  /\ broken' = broken \ {s} /\ stale' = [stale EXCEPT ![s] = {}]
  /\ lock' = lock \ {s}

(* A crash, or an error before the users; the loop sleeps until tomorrow.  *)
SyncDies(s) ==
  /\ sync[s] # "off" /\ Fault
  /\ Ends(s)
  /\ UNCHANGED <<due, linkVars, grantVars, reqVars, hist>>

------------------------------------------------------------------------------
(* run_daily_sync.                                                         *)

(* After the API's stakers, total, price and emission: the links.          *)
Load(s) ==
  /\ sync[s] = "fetch"
  /\ sync' = [sync EXCEPT ![s] = "users"]
  /\ snap' = [snap EXCEPT ![s] = owner]
  /\ left' = [left EXCEPT ![s] = {u \in User : \E w \in Wallet : owner[w] = u}]
  /\ UNCHANGED <<gone, broken, stale, linkVars, grantVars, reqVars, loopVars, hist, fails>>

Wallets(s, u) == {w \in Wallet : snap[s][w] = u}
Pays(s, u) == Wallets(s, u) \cap Staked # {}

(* The stakes of u's links are flushed: a deleted row is a StaleDataError. *)
(* A loaded object that a rollback expired cannot be read either.          *)
Readable_Deleted(s, u) == s \notin broken
Readable(s, u) == s \notin broken /\ Wallets(s, u) \cap gone[s] = {}

Due_Always(u) == TRUE
Due(u) == u \notin fresh

WriteStakes(s, u) ==
  amount' = (amount \ Wallets(s, u)) \cup (Wallets(s, u) \cap Staked)

(* One transaction with u's balance row locked.                            *)
RefreshUser(s, u) ==
  /\ sync[s] = "users" /\ u \in left[s] /\ Readable(s, u) /\ Due(u)
  /\ Pays(s, u) => u \notin entries
  /\ WriteStakes(s, u)
  /\ entries' = IF Pays(s, u) THEN entries \cup {u} ELSE entries
  /\ granted' = IF Pays(s, u) THEN granted \cup {u} ELSE granted \ {u}
  /\ flag' = IF Pays(s, u) THEN flag \cup {u} ELSE flag \ {u}
  /\ fresh' = fresh \cup {u}
  /\ moved' = moved \ {u} /\ missed' = missed \ {u}
  /\ left' = [left EXCEPT ![s] = @ \ {u}]
  /\ UNCHANGED <<owner, consumed, reqVars, loopVars, sync, snap, gone, broken,
                 stale, clash, fails>>

SkipUser(s, u) ==
  /\ sync[s] = "users" /\ u \in left[s] /\ Readable(s, u) /\ ~Due(u)
  /\ WriteStakes(s, u)
  /\ left' = [left EXCEPT ![s] = @ \ {u}]
  /\ UNCHANGED <<owner, consumed, grantVars, reqVars, loopVars, sync, snap, gone,
                 broken, stale, hist, fails>>

(* Rollback and on to the next user: it expires every loaded object, and   *)
(* reading one outside an await is the next user's error.                  *)
UserFails(s, u) ==
  /\ sync[s] = "users" /\ u \in left[s]
  /\ \/ Fault /\ UNCHANGED clash
     \/ ~Readable(s, u) /\ UNCHANGED <<clash, fails>>
     \/ /\ Readable(s, u) /\ Due(u) /\ Pays(s, u) /\ u \in entries
        /\ clash' = clash \cup {u} /\ UNCHANGED fails
  /\ broken' = broken \cup {s}
  /\ left' = [left EXCEPT ![s] = @ \ {u}]
  /\ UNCHANGED <<linkVars, grantVars, reqVars, loopVars, sync, snap, gone, stale, moved, missed>>

(* All users are done: who has an allowance and no loaded link?            *)
ZeroRead(s) ==
  /\ sync[s] = "users" /\ left[s] = {}
  /\ stale' = [stale EXCEPT ![s] = {u \in granted : Wallets(s, u) = {}}]
  /\ sync' = [sync EXCEPT ![s] = "zeroing"]
  /\ UNCHANGED <<snap, left, gone, broken, linkVars, grantVars, reqVars, loopVars, hist, fails>>

ZeroCommit_KeepsDaily(s) ==
  /\ sync[s] = "zeroing"
  /\ flag' = flag \ stale[s]
  /\ fresh' = fresh \cup stale[s]
  /\ Ends(s)
  /\ UNCHANGED <<due, linkVars, granted, entries, reqVars, hist, fails>>
ZeroCommit(s) ==
  /\ sync[s] = "zeroing"
  /\ granted' = granted \ stale[s]
  /\ flag' = flag \ stale[s]
  /\ fresh' = fresh \cup stale[s]
  /\ Ends(s)
  /\ UNCHANGED <<due, linkVars, entries, reqVars, hist, fails>>

(* An error here is logged, and the sync is a success.                     *)
ZeroFails(s) ==
  /\ sync[s] = "zeroing" /\ Fault
  /\ Ends(s)
  /\ UNCHANGED <<due, linkVars, grantVars, reqVars, hist>>

(* A sync ends, and every loop has woken, before the next day begins.      *)
NewDay ==
  /\ due = {} /\ \A s \in Syncer : sync[s] = "off"
  /\ due' = Syncer
  /\ fresh' = {} /\ entries' = {}
  /\ UNCHANGED <<linkVars, granted, flag, reqVars, lock, syncVars, hist, fails>>

SyncStep(s) ==
  \/ Wake(s) \/ Load(s) \/ ZeroRead(s) \/ ZeroCommit(s)
  \/ \E u \in User : RefreshUser(s, u) \/ SkipUser(s, u) \/ UserFails(s, u)

RequestStep(q) ==
  \/ ConsumeNonce(q) \/ Verify(q) \/ LinkRefused(q) \/ InsertLink(q)
  \/ MarkStaker(q) \/ Recheck(q) \/ UnmarkStaker(q)

Next ==
  \/ \E q \in Req :
       \/ RequestStep(q) \/ RequestDies(q)
       \/ \E w \in Wallet : DeleteLink(q, w) \/ \E n \in Nonce : ReadNonce(q, n, w)
  \/ \E s \in Syncer :
       SyncStep(s) \/ AdminSync(s) \/ LockDrops(s) \/ SyncDies(s) \/ ZeroFails(s)
  \/ NewDay

Spec == Init /\ [][Next]_vars

(* Loops wake, awaits of a sync end, days pass, however often an           *)
(* administrator syncs.                                                    *)
Fairness == (\A s \in Syncer : WF_vars(SyncStep(s))) /\ SF_vars(NewDay)
FairSpec == Spec /\ Fairness

------------------------------------------------------------------------------
(* Properties.                                                             *)

(* Two syncs at once, by a lost lock or an administrator, do not make each *)
(* other's users fail.                                                     *)
NoSyncClash == clash = {}

(* Nobody has an allowance without a staked wallet, except from a wallet   *)
(* that was unlinked after the allowance was granted.                      *)
AllowanceBacked ==
  \A u \in granted : u \in moved \/ \E w \in Staked : owner[w] = u

(* is_staker ends with the last staked link.  A staker without overage is  *)
(* refused his paid credit, so it must not be left behind; it is until the *)
(* unlink has ended, and by one that was cut off, that met the cached      *)
(* balance, or that a late link request overtook.                          *)
FlagBacked ==
  \A u \in flag :
    \/ u \in missed
    \/ \E w \in Staked : owner[w] = u
    \/ \E q \in Req : job[q].user = u /\ pc[q] \in {"recheck", "unmark"}

(* Together with the types these are inductive.  A link that a sync loaded *)
(* is still there unless its deletion was noticed.                         *)
Snapped ==
  \A s \in Syncer, w \in Wallet :
    snap[s][w] # NoUser => w \in gone[s] \/ owner[w] = snap[s][w]
Jobs ==
  \A q \in Req : pc[q] # "idle" =>
    /\ job[q].user \in User /\ job[q].wallet \in Wallet
    /\ pc[q] = "nonce" => job[q].nonce \in Nonce
    /\ pc[q] = "mark" => job[q].wallet \in Staked

IInv ==
  /\ TypeOK /\ Jobs /\ Snapped /\ amount \subseteq Staked /\ entries \subseteq fresh
  /\ NoSyncClash /\ AllowanceBacked /\ FlagBacked

(* Who has unlinked everything loses the allowance, through failed syncs,  *)
(* crashed replicas and dropped locks.                                     *)
Linked(u) == \E w \in Wallet : owner[w] = u
AllowanceEnds == \A u \in User : u \in granted /\ ~Linked(u) ~> u \notin granted \/ Linked(u)
=============================================================================
