---------------------------- MODULE Stakes_proofs ----------------------------
(***************************************************************************)
(* Wallets and the daily sync for any number of users, wallets, nonces,    *)
(* requests, replicas and failures.                                        *)
(***************************************************************************)
EXTENDS Stakes, TLAPS

LEMMA InitInv == Init => IInv
<1> SUFFICES ASSUME Init PROVE IInv
  OBVIOUS
<1>1. TypeOK
  BY StakesAssumption DEF Init, TypeOK, Job, NoJob, NoLinks
<1>2. Jobs /\ Snapped
  BY DEF Init, Jobs, Snapped, NoLinks
<1>3. amount \subseteq Staked /\ entries \subseteq fresh
  BY DEF Init
<1>4. NoSyncClash /\ AllowanceBacked /\ FlagBacked
  BY DEF Init, NoSyncClash, AllowanceBacked, FlagBacked
<1> QED BY <1>1, <1>2, <1>3, <1>4 DEF IInv

------------------------------------------------------------------------------
(* Types.                                                                  *)

LEMMA TypeRequest ==
  ASSUME TypeOK, Jobs, NEW q \in Req, RequestStep(q) \/ RequestDies(q)
  PROVE  TypeOK'
<1> USE DEF TypeOK, Goto, Done, Jobs, linkVars, grantVars, loopVars, syncVars, hist
<1>1. NoJob \in Job
  BY DEF Job
<1>2. CASE ConsumeNonce(q)
  BY <1>2 DEF ConsumeNonce
<1>3. CASE Verify(q) \/ LinkRefused(q) \/ Recheck(q)
  BY <1>1, <1>3 DEF Verify, LinkRefused, Recheck
<1>4. CASE InsertLink(q)
  <2>1. job[q].user \in User /\ job[q].wallet \in Wallet
    BY <1>4 DEF InsertLink
  <2>2. CASE owner[job[q].wallet] # NoUser
    BY <1>1, <1>4, <2>2 DEF InsertLink
  <2>3. CASE owner[job[q].wallet] = NoUser
    <3>1. owner' = [owner EXCEPT ![job[q].wallet] = job[q].user]
      BY <1>4, <2>3 DEF InsertLink
    <3>2. owner' \in [Wallet -> User \cup {NoUser}]
      BY <2>1, <3>1
    <3>3. amount' \subseteq Wallet
      BY <1>4, <2>1, <2>3 DEF InsertLink
    <3>4. /\ pc' = [pc EXCEPT ![q] = "mark"] \/ pc' = [pc EXCEPT ![q] = "idle"]
          /\ job' = job \/ job' = [job EXCEPT ![q] = NoJob]
      BY <1>4, <2>3 DEF InsertLink
    <3> QED BY <1>1, <1>4, <3>2, <3>3, <3>4 DEF InsertLink
  <2> QED BY <2>2, <2>3
<1>5. CASE MarkStaker(q) \/ UnmarkStaker(q)
  BY <1>1, <1>5 DEF MarkStaker, UnmarkStaker
<1>6. CASE RequestDies(q)
  BY <1>1, <1>6, StakesAssumption DEF RequestDies, Fault
<1> QED BY <1>2, <1>3, <1>4, <1>5, <1>6 DEF RequestStep

LEMMA TypeArrival ==
  ASSUME TypeOK, NEW q \in Req, NEW w \in Wallet,
         DeleteLink(q, w) \/ \E n \in Nonce : ReadNonce(q, n, w)
  PROVE  TypeOK'
<1> USE DEF TypeOK, linkVars, grantVars, loopVars, syncVars, hist
<1>1. ASSUME NEW n \in Nonce, ReadNonce(q, n, w) PROVE TypeOK'
  <2>1. [user |-> NonceUser[n], nonce |-> n, wallet |-> w] \in Job
    BY StakesAssumption DEF Job
  <2> QED BY <1>1, <2>1 DEF ReadNonce
<1>2. CASE DeleteLink(q, w)
  <2>1. owner[w] \in User /\ [user |-> owner[w], wallet |-> w] \in Job
    BY <1>2 DEF DeleteLink, Job
  <2>2. gone' \in [Syncer -> SUBSET Wallet]
    BY <1>2 DEF DeleteLink
  <2> QED BY <1>2, <2>1, <2>2 DEF DeleteLink
<1> QED BY <1>1, <1>2

LEMMA TypeSync ==
  ASSUME TypeOK, NEW s \in Syncer,
         SyncStep(s) \/ AdminSync(s) \/ LockDrops(s) \/ SyncDies(s) \/ ZeroFails(s)
  PROVE  TypeOK'
<1> USE DEF TypeOK, linkVars, grantVars, reqVars, loopVars, syncVars, syncRest, hist
<1>1. NoLinks \in [Wallet -> User \cup {NoUser}]
  BY DEF NoLinks
<1>2. CASE Wake(s) \/ AdminSync(s)
  BY <1>2 DEF Wake, AdminSync, Begin
<1>3. CASE LockDrops(s)
  BY <1>3, StakesAssumption DEF LockDrops, Fault
<1>4. CASE SyncDies(s) \/ ZeroFails(s)
  <2>1. fails' \in Nat
    BY <1>4 DEF SyncDies, ZeroFails, Fault
  <2>2. Ends(s) /\ UNCHANGED <<due, owner, amount, consumed, granted, flag, fresh, entries,
                               pc, job, clash, moved, missed>>
    BY <1>4 DEF SyncDies, ZeroFails
  <2> QED BY <1>1, <2>1, <2>2 DEF Ends
<1>5. CASE Load(s)
  BY <1>5 DEF Load
<1>6. CASE ZeroRead(s)
  BY <1>6 DEF ZeroRead
<1>7. CASE ZeroCommit(s)
  BY <1>1, <1>7 DEF ZeroCommit, Ends
<1>8. ASSUME NEW u \in User, RefreshUser(s, u) PROVE TypeOK'
  BY <1>8 DEF RefreshUser, WriteStakes, Wallets
<1>9. ASSUME NEW u \in User, SkipUser(s, u) PROVE TypeOK'
  BY <1>9 DEF SkipUser, WriteStakes, Wallets
<1>10. ASSUME NEW u \in User, UserFails(s, u) PROVE TypeOK'
  BY <1>10, StakesAssumption DEF UserFails, Fault
<1> QED
  BY <1>2, <1>3, <1>4, <1>5, <1>6, <1>7, <1>8, <1>9, <1>10 DEF SyncStep

LEMMA TypeStep == TypeOK /\ Jobs /\ [Next]_vars => TypeOK'
<1> SUFFICES ASSUME TypeOK, Jobs, [Next]_vars PROVE TypeOK'
  OBVIOUS
<1>1. CASE NewDay
  BY <1>1
  DEF NewDay, TypeOK, linkVars, grantVars, reqVars, loopVars, syncVars, hist
<1>2. CASE UNCHANGED vars
  BY <1>2
  DEF vars, TypeOK, linkVars, grantVars, reqVars, loopVars, syncVars, hist
<1> QED BY <1>1, <1>2, TypeRequest, TypeArrival, TypeSync DEF Next

------------------------------------------------------------------------------
(* What a request knows.                                                   *)

LEMMA JobsStep ==
  ASSUME TypeOK, Jobs, [Next]_vars
  PROVE  Jobs'
<1> USE DEF Jobs, TypeOK, Goto, Done
<1>1. ASSUME NEW q \in Req, RequestStep(q) \/ RequestDies(q) PROVE Jobs'
  BY <1>1
  DEF RequestStep, RequestDies, ConsumeNonce, Verify, LinkRefused, InsertLink, MarkStaker,
      Recheck, UnmarkStaker
<1>2. ASSUME NEW q \in Req, NEW w \in Wallet, NEW n \in Nonce, ReadNonce(q, n, w)
      PROVE Jobs'
  BY <1>2, StakesAssumption DEF ReadNonce
<1>3. ASSUME NEW q \in Req, NEW w \in Wallet, DeleteLink(q, w) PROVE Jobs'
  BY <1>3 DEF DeleteLink
<1>4. ASSUME UNCHANGED reqVars PROVE Jobs'
  BY <1>4 DEF reqVars
<1>5. ASSUME NEW s \in Syncer,
             SyncStep(s) \/ AdminSync(s) \/ LockDrops(s) \/ SyncDies(s) \/ ZeroFails(s)
      PROVE UNCHANGED reqVars
  BY <1>5
  DEF SyncStep, Wake, Load, ZeroRead, ZeroCommit, RefreshUser, SkipUser, UserFails,
      AdminSync, LockDrops, SyncDies, ZeroFails, reqVars
<1>6. NewDay \/ UNCHANGED vars => UNCHANGED reqVars
  BY DEF NewDay, vars, reqVars
<1> QED BY <1>1, <1>2, <1>3, <1>4, <1>5, <1>6 DEF Next

------------------------------------------------------------------------------
(* Links.                                                                  *)

(* What a step may do to the links, to what syncs know of them and to who  *)
(* is said to have unlinked.                                               *)
LinksKept ==
  /\ \A w \in Wallet : owner[w] \in User => owner'[w] = owner[w]
  /\ \A s \in Syncer : gone[s] \subseteq gone'[s] \/ snap'[s] = NoLinks
  /\ \A s \in Syncer : snap'[s] = snap[s] \/ snap'[s] = NoLinks \/ snap'[s] = owner'

LEMMA LinksRequest ==
  ASSUME TypeOK, NEW q \in Req, RequestStep(q) \/ RequestDies(q)
  PROVE  LinksKept
  BY StakesAssumption
  DEF LinksKept, linkVars, syncVars, TypeOK, RequestStep, RequestDies, ConsumeNonce, Verify,
      LinkRefused, InsertLink, MarkStaker, Recheck, UnmarkStaker

LEMMA LinksStep ==
  ASSUME TypeOK, [Next]_vars
  PROVE  LinksKept \/ \E q \in Req, w \in Wallet : DeleteLink(q, w)
<1> USE DEF LinksKept, linkVars, syncVars, syncRest, TypeOK
<1>1. ASSUME NEW q \in Req, RequestStep(q) \/ RequestDies(q) PROVE LinksKept
  BY <1>1, LinksRequest
<1>2. ASSUME NEW q \in Req, NEW w \in Wallet, NEW n \in Nonce, ReadNonce(q, n, w)
      PROVE LinksKept
  BY <1>2 DEF ReadNonce
<1>3. ASSUME NEW s \in Syncer, Load(s) PROVE LinksKept
  BY <1>3 DEF Load
<1>4. ASSUME NEW s \in Syncer, ZeroCommit(s) \/ SyncDies(s) \/ ZeroFails(s) PROVE LinksKept
  BY <1>4 DEF ZeroCommit, SyncDies, ZeroFails, Ends
<1>5. ASSUME NEW s \in Syncer, Wake(s) \/ ZeroRead(s) \/ AdminSync(s) \/ LockDrops(s)
      PROVE LinksKept
  BY <1>5 DEF Wake, ZeroRead, AdminSync, LockDrops
<1>6. ASSUME NEW s \in Syncer, NEW u \in User,
             RefreshUser(s, u) \/ SkipUser(s, u) \/ UserFails(s, u)
      PROVE LinksKept
  BY <1>6 DEF RefreshUser, SkipUser, UserFails
<1>7. NewDay \/ UNCHANGED vars => LinksKept
  BY DEF NewDay, vars
<1> QED BY <1>1, <1>2, <1>3, <1>4, <1>5, <1>6, <1>7 DEF Next, SyncStep

LEMMA SnappedStep ==
  ASSUME TypeOK, Snapped, [Next]_vars
  PROVE  Snapped'
<1>1. ASSUME LinksKept PROVE Snapped'
  <2> SUFFICES ASSUME NEW s \in Syncer, NEW w \in Wallet, snap'[s][w] # NoUser
               PROVE  w \in gone'[s] \/ owner'[w] = snap'[s][w]
    BY DEF Snapped
  <2>1. snap'[s] # NoLinks
    BY DEF NoLinks
  <2>2. CASE snap'[s] = owner'
    BY <2>2
  <2>3. CASE snap'[s] = snap[s]
    <3>1. snap[s][w] \in User
      BY <2>3 DEF TypeOK
    <3> QED BY <1>1, <2>1, <2>3, <3>1 DEF LinksKept, Snapped
  <2> QED BY <1>1, <2>1, <2>2, <2>3 DEF LinksKept
<1>2. ASSUME NEW q \in Req, NEW w \in Wallet, DeleteLink(q, w) PROVE Snapped'
  BY <1>2 DEF DeleteLink, Snapped, TypeOK
<1> QED BY <1>1, <1>2, LinksStep

LEMMA AmountStep ==
  ASSUME Jobs, amount \subseteq Staked, [Next]_vars
  PROVE  amount' \subseteq Staked
<1> USE DEF linkVars
<1>1. ASSUME NEW q \in Req, RequestStep(q) \/ RequestDies(q) PROVE amount' \subseteq Staked
  BY <1>1
  DEF RequestStep, RequestDies, ConsumeNonce, Verify, LinkRefused, InsertLink, MarkStaker,
      Recheck, UnmarkStaker
<1>2. ASSUME NEW q \in Req, NEW w \in Wallet,
             DeleteLink(q, w) \/ \E n \in Nonce : ReadNonce(q, n, w)
      PROVE amount' \subseteq Staked
  BY <1>2 DEF DeleteLink, ReadNonce
<1>3. ASSUME NEW s \in Syncer,
             SyncStep(s) \/ AdminSync(s) \/ LockDrops(s) \/ SyncDies(s) \/ ZeroFails(s)
      PROVE amount' \subseteq Staked
  BY <1>3
  DEF SyncStep, Wake, Load, ZeroRead, ZeroCommit, RefreshUser, SkipUser, UserFails,
      WriteStakes, AdminSync, LockDrops, SyncDies, ZeroFails
<1>4. NewDay \/ UNCHANGED vars => amount' \subseteq Staked
  BY DEF NewDay, vars
<1> QED BY <1>1, <1>2, <1>3, <1>4 DEF Next

(* Who is paid by a sync still has the staked wallet.                      *)
LEMMA PaidIsLinked ==
  ASSUME Snapped, StakesAssumption, NEW s \in Syncer, NEW u \in User,
         Readable(s, u), Pays(s, u)
  PROVE  \E w \in Staked : owner[w] = u
  BY DEF Snapped, StakesAssumption, Readable, Pays, Wallets

------------------------------------------------------------------------------
(* Allowances.                                                             *)

LEMMA BackedIdle ==
  ASSUME AllowanceBacked, granted' \subseteq granted, moved \subseteq moved',
         \A w \in Staked : owner[w] \in User => owner'[w] = owner[w],
         granted \subseteq User
  PROVE  AllowanceBacked'
  BY DEF AllowanceBacked

LEMMA BackedStep ==
  ASSUME TypeOK, Snapped, AllowanceBacked, [Next]_vars
  PROVE  AllowanceBacked'
<1> USE DEF grantVars, hist
<1>1. ASSUME NEW s \in Syncer, NEW u \in User, RefreshUser(s, u) PROVE AllowanceBacked'
  <2>1. CASE Pays(s, u)
    <3>1. \E w \in Staked : owner[w] = u
      BY <1>1, <2>1, PaidIsLinked, StakesAssumption DEF RefreshUser
    <3> QED BY <1>1, <2>1, <3>1 DEF RefreshUser, AllowanceBacked
  <2>2. CASE ~Pays(s, u)
    BY <1>1, <2>2 DEF RefreshUser, AllowanceBacked
  <2> QED BY <2>1, <2>2
<1>2. ASSUME NEW q \in Req, NEW w \in Wallet, DeleteLink(q, w) PROVE AllowanceBacked'
  BY <1>2, StakesAssumption DEF DeleteLink, AllowanceBacked, TypeOK
<1>3. ASSUME LinksKept, granted' \subseteq granted, moved \subseteq moved'
      PROVE AllowanceBacked'
  BY <1>3, BackedIdle, StakesAssumption DEF LinksKept, TypeOK
<1>4. ASSUME NEW q \in Req, RequestStep(q) \/ RequestDies(q)
      PROVE granted' \subseteq granted /\ moved \subseteq moved'
  BY <1>4
  DEF RequestStep, RequestDies, ConsumeNonce, Verify, LinkRefused, InsertLink, MarkStaker,
      Recheck, UnmarkStaker
<1>5. ASSUME NEW q \in Req, NEW w \in Wallet, NEW n \in Nonce, ReadNonce(q, n, w)
      PROVE granted' \subseteq granted /\ moved \subseteq moved'
  BY <1>5 DEF ReadNonce
<1>6. ASSUME NEW s \in Syncer,
             \/ Wake(s) \/ Load(s) \/ ZeroRead(s) \/ ZeroCommit(s) \/ AdminSync(s)
             \/ LockDrops(s) \/ SyncDies(s) \/ ZeroFails(s)
             \/ \E u \in User : SkipUser(s, u) \/ UserFails(s, u)
      PROVE granted' \subseteq granted /\ moved \subseteq moved'
  BY <1>6
  DEF Wake, Load, ZeroRead, ZeroCommit, AdminSync, LockDrops, SyncDies, ZeroFails, SkipUser,
      UserFails
<1>7. NewDay \/ UNCHANGED vars => granted' \subseteq granted /\ moved \subseteq moved'
  BY DEF NewDay, vars
<1> QED BY <1>1, <1>2, <1>3, <1>4, <1>5, <1>6, <1>7, LinksStep DEF Next, SyncStep

(* A refresh and its entry are of one transaction, and of one day.         *)
LEMMA ClashStep ==
  ASSUME NoSyncClash, entries \subseteq fresh, [Next]_vars
  PROVE  NoSyncClash' /\ entries' \subseteq fresh'
<1> USE DEF NoSyncClash, grantVars, hist
<1>1. ASSUME NEW q \in Req,
             \/ RequestStep(q) \/ RequestDies(q)
             \/ \E w \in Wallet : DeleteLink(q, w) \/ \E n \in Nonce : ReadNonce(q, n, w)
      PROVE NoSyncClash' /\ entries' \subseteq fresh'
  BY <1>1
  DEF RequestStep, RequestDies, ConsumeNonce, Verify, LinkRefused, InsertLink, MarkStaker,
      Recheck, UnmarkStaker, DeleteLink, ReadNonce
<1>2. ASSUME NEW s \in Syncer, NEW u \in User,
             RefreshUser(s, u) \/ SkipUser(s, u) \/ UserFails(s, u)
      PROVE NoSyncClash' /\ entries' \subseteq fresh'
  BY <1>2 DEF RefreshUser, SkipUser, UserFails, Due
<1>3. ASSUME NEW s \in Syncer,
             \/ Wake(s) \/ Load(s) \/ ZeroRead(s) \/ ZeroCommit(s) \/ AdminSync(s)
             \/ LockDrops(s) \/ SyncDies(s) \/ ZeroFails(s)
      PROVE NoSyncClash' /\ entries' \subseteq fresh'
  BY <1>3
  DEF Wake, Load, ZeroRead, ZeroCommit, AdminSync, LockDrops, SyncDies, ZeroFails
<1>4. NewDay \/ UNCHANGED vars => NoSyncClash' /\ entries' \subseteq fresh'
  BY DEF NewDay, vars
<1> QED BY <1>1, <1>2, <1>3, <1>4 DEF Next, SyncStep

------------------------------------------------------------------------------
(* The staker flag.                                                        *)

Unlinking(u) == \E q \in Req : job[q].user = u /\ pc[q] \in {"recheck", "unmark"}
Staking(u) == \E w \in Staked : owner[w] = u

(* Links only grow, and nobody who unlinks has just ended.                 *)
LEMMA FlagIdle ==
  ASSUME TypeOK, FlagBacked, LinksKept, flag' \subseteq flag, missed \subseteq missed',
         \A u \in flag' : Unlinking(u) => Unlinking(u)' \/ Staking(u)' \/ u \in missed'
  PROVE  FlagBacked'
<1>1. \A u \in User : Staking(u) => Staking(u)'
  BY StakesAssumption DEF LinksKept, Staking
<1> QED BY <1>1 DEF FlagBacked, Unlinking, Staking, TypeOK

LEMMA FlagRequest ==
  ASSUME TypeOK, Jobs, FlagBacked, amount \subseteq Staked, LinksKept, NEW q \in Req,
         RequestStep(q) \/ RequestDies(q)
  PROVE  FlagBacked'
<1> USE DEF grantVars, hist, TypeOK, Goto, Done
<1>1. CASE ConsumeNonce(q) \/ Verify(q) \/ LinkRefused(q) \/ InsertLink(q)
  <2>1. /\ flag' = flag /\ missed' = missed /\ pc[q] \notin {"recheck", "unmark"}
        /\ \A r \in Req \ {q} : pc'[r] = pc[r] /\ job'[r] = job[r]
    BY <1>1 DEF ConsumeNonce, Verify, LinkRefused, InsertLink
  <2>2. \A u : Unlinking(u) => Unlinking(u)'
    BY <2>1 DEF Unlinking
  <2> QED BY <2>1, <2>2, FlagIdle
<1>2. CASE MarkStaker(q)
  <2>1. /\ pc[q] \notin {"recheck", "unmark"} /\ missed \subseteq missed'
        /\ owner' = owner
        /\ \A r \in Req \ {q} : pc'[r] = pc[r] /\ job'[r] = job[r]
    BY <1>2 DEF MarkStaker, linkVars
  <2>2. \A u : Unlinking(u) => Unlinking(u)'
    BY <2>1 DEF Unlinking
  <2>3. \A u \in flag' : u \in flag \/ u \in missed' \/ Staking(u)
    BY <1>2 DEF MarkStaker, Jobs, Staking
  <2> QED BY <2>1, <2>2, <2>3 DEF FlagBacked, Unlinking, Staking
<1>3. CASE Recheck(q)
  <2>1. /\ flag' = flag /\ missed' = missed /\ owner' = owner
        /\ \A r \in Req \ {q} : pc'[r] = pc[r] /\ job'[r] = job[r]
    BY <1>3 DEF Recheck, linkVars
  <2>2. \/ pc'[q] = "unmark" /\ job'[q] = job[q]
        \/ Staking(job[q].user)
    BY <1>3 DEF Recheck, Remaining, Staking
  <2>3. \A u : Unlinking(u) => Unlinking(u)' \/ Staking(u)'
    BY <2>1, <2>2 DEF Unlinking, Staking
  <2> QED BY <2>1, <2>3, FlagIdle
<1>4. CASE UnmarkStaker(q) \/ RequestDies(q)
  <2>1. /\ flag' \subseteq flag /\ missed \subseteq missed'
        /\ job[q].user \in flag' => job[q].user \in missed'
        /\ \A r \in Req \ {q} : pc'[r] = pc[r] /\ job'[r] = job[r]
    BY <1>4 DEF UnmarkStaker, RequestDies
  <2>2. \A u \in flag' : Unlinking(u) => Unlinking(u)' \/ u \in missed'
    BY <2>1 DEF Unlinking
  <2> QED BY <2>1, <2>2, FlagIdle
<1> QED BY <1>1, <1>2, <1>3, <1>4 DEF RequestStep

LEMMA FlagStep ==
  ASSUME TypeOK, Jobs, Snapped, FlagBacked, amount \subseteq Staked, [Next]_vars
  PROVE  FlagBacked'
<1> USE DEF grantVars, hist
<1>1. ASSUME NEW s \in Syncer, NEW u \in User, RefreshUser(s, u) PROVE FlagBacked'
  <2>1. UNCHANGED <<owner, pc, job>> /\ missed' = missed \ {u}
    BY <1>1 DEF RefreshUser, reqVars
  <2>2. CASE Pays(s, u)
    <3>1. Staking(u)
      BY <1>1, <2>2, PaidIsLinked, StakesAssumption DEF RefreshUser, Staking
    <3>2. flag' = flag \cup {u}
      BY <1>1, <2>2 DEF RefreshUser
    <3> QED BY <2>1, <3>1, <3>2 DEF FlagBacked, Staking
  <2>3. CASE ~Pays(s, u)
    <3>1. flag' = flag \ {u}
      BY <1>1, <2>3 DEF RefreshUser
    <3> QED BY <2>1, <3>1 DEF FlagBacked
  <2> QED BY <2>2, <2>3
<1>2. ASSUME NEW q \in Req, NEW w \in Wallet, DeleteLink(q, w) PROVE FlagBacked'
  <2>1. /\ flag' = flag /\ missed' = missed /\ pc[q] = "idle" /\ owner[w] \in User
        /\ pc'[q] = "recheck" /\ job'[q].user = owner[w]
        /\ \A r \in Req \ {q} : pc'[r] = pc[r] /\ job'[r] = job[r]
        /\ \A x \in Wallet \ {w} : owner'[x] = owner[x]
    BY <1>2 DEF DeleteLink, TypeOK
  <2>2. \A u : Unlinking(u) => Unlinking(u)'
    BY <2>1 DEF Unlinking
  <2>3. \A u : Staking(u) => Staking(u)' \/ Unlinking(u)'
    BY <2>1, StakesAssumption DEF Staking, Unlinking
  <2> QED BY <2>1, <2>2, <2>3 DEF FlagBacked, Staking, Unlinking
<1>3. ASSUME NEW q \in Req, RequestStep(q) \/ RequestDies(q) PROVE FlagBacked'
  BY <1>3, LinksRequest, FlagRequest
<1>4. ASSUME NEW q \in Req, NEW w \in Wallet, NEW n \in Nonce, ReadNonce(q, n, w)
      PROVE FlagBacked'
  <2>1. /\ UNCHANGED <<owner, flag, missed>> /\ pc[q] = "idle"
        /\ \A r \in Req \ {q} : pc'[r] = pc[r] /\ job'[r] = job[r]
    BY <1>4 DEF ReadNonce, TypeOK, linkVars
  <2> QED BY <2>1 DEF FlagBacked
<1>5. ASSUME UNCHANGED <<owner, pc, job, missed>>, flag' \subseteq flag PROVE FlagBacked'
  BY <1>5 DEF FlagBacked
<1>6. ASSUME NEW s \in Syncer,
             \/ Wake(s) \/ Load(s) \/ ZeroRead(s) \/ ZeroCommit(s) \/ AdminSync(s)
             \/ LockDrops(s) \/ SyncDies(s) \/ ZeroFails(s)
             \/ \E u \in User : SkipUser(s, u) \/ UserFails(s, u)
      PROVE UNCHANGED <<owner, pc, job, missed>> /\ flag' \subseteq flag
  BY <1>6
  DEF Wake, Load, ZeroRead, ZeroCommit, AdminSync, LockDrops, SyncDies, ZeroFails, SkipUser,
      UserFails, linkVars, reqVars
<1>7. NewDay \/ UNCHANGED vars => UNCHANGED <<owner, pc, job, missed>> /\ flag' \subseteq flag
  BY DEF NewDay, vars, linkVars, reqVars
<1> QED BY <1>1, <1>2, <1>3, <1>4, <1>5, <1>6, <1>7 DEF Next, SyncStep

------------------------------------------------------------------------------
(* Theorems.                                                               *)

(* The invariant of the module is inductive.                               *)
THEOREM Inductive == Spec => []IInv
<1>1. IInv /\ [Next]_vars => IInv'
  BY TypeStep, JobsStep, SnappedStep, AmountStep, ClashStep, BackedStep, FlagStep DEF IInv
<1> QED BY InitInv, <1>1, PTL DEF Spec

(* No sync makes another one's users fail.                                 *)
THEOREM SyncsAgree == Spec => []NoSyncClash
<1>1. IInv => NoSyncClash
  BY DEF IInv
<1> QED BY Inductive, <1>1, PTL

(* An allowance has a staked wallet, or is of one unlinked since.          *)
THEOREM AllowancesBacked == Spec => []AllowanceBacked
<1>1. IInv => AllowanceBacked
  BY DEF IInv
<1> QED BY Inductive, <1>1, PTL

(* The staker flag has a staked wallet, or a known miss.                   *)
THEOREM FlagsBacked == Spec => []FlagBacked
<1>1. IInv => FlagBacked
  BY DEF IInv
<1> QED BY Inductive, <1>1, PTL
=============================================================================
