------------------------------ MODULE Accounts ------------------------------
(***************************************************************************)
(* One Cognito identity, its row in users, its API keys and what Redis     *)
(* holds of them (dependencies.py, crud/user.py, crud/api_key.py,          *)
(* api/v1/auth/index.py, services/cache_service.py,                        *)
(* core/circuit_breaker.py).                                               *)
(*                                                                         *)
(* API-key requests authenticate from the cache or from the database and   *)
(* fill the cache; requests with a Cognito token create the row at first   *)
(* login, create and revoke keys and delete the account.  Every database   *)
(* statement and every Redis call is a step.  Each replica has a circuit   *)
(* breaker of its own before the one Redis: while it is open a get is a    *)
(* miss and a set or a delete does nothing and reports success.            *)
(***************************************************************************)
EXTENDS Integers, FiniteSets

CONSTANTS User,       \* ids a row of the identity can be given
          NoUser,     \* no row, or an empty cache entry
          Key,        \* API keys
          Caller,     \* requests with an API key
          Jwt,        \* requests with a token of the identity
          Replica,    \* processes, each with its breaker
          At,         \* the replica a request runs on
          MaxFails    \* bound: handlers that die half-way

ASSUME AccountsAssumption ==
  /\ NoUser \notin User
  /\ At \in [Caller \cup Jwt -> Replica]
  /\ MaxFails \in Nat

VARIABLES row,      \* the row of the identity in users
          used,     \* ids given out so far
          key,      \* what the row of each key says
          owner,    \* user_id of each key
          tomb,     \* the identity is in deleted_users
          cached,   \* keys with an entry cache:api_key:*
          userEntry,\* the entry cache:user:*
          up,       \* Redis can be reached
          client,   \* _redis and _initialized of each replica
          open,     \* is_open() of each breaker
          probing,  \* a run_reprobe task exists
          call,     \* where each API-key request is, and its key
          req,      \* where each token request is
          me,       \* current_user.id of a token request
          todo,     \* keys a token request is still to drop from the cache
          fails

db == <<row, used, key, owner, tomb>>
redis == <<cached, userEntry>>
conn == <<client, open, probing>>
vars == <<db, redis, up, conn, call, req, me, todo, fails>>

Place == {"idle", "query", "fill"}
Stage == {"idle", "load", "query", "check", "create", "store", "in", "drop",
          "dropAll", "keys", "user", "row", "tomb", "clear", "deleted"}

TypeOK ==
  /\ row \in User \cup {NoUser} /\ used \subseteq User
  /\ key \in [Key -> {"none", "active", "revoked", "deleted"}]
  /\ owner \in [Key -> User \cup {NoUser}]
  /\ tomb \in BOOLEAN /\ up \in BOOLEAN
  /\ cached \subseteq Key /\ userEntry \in User \cup {NoUser}
  /\ client \in [Replica -> BOOLEAN] /\ open \in [Replica -> BOOLEAN]
  /\ probing \in [Replica -> BOOLEAN]
  /\ call \in [Caller -> Place \X Key]
  /\ req \in [Jwt -> Stage] /\ me \in [Jwt -> User \cup {NoUser}]
  /\ todo \in [Jwt -> SUBSET Key]
  /\ fails \in 0..MaxFails

(* The primary key's sequence: an id is given once.                        *)
NextId(given) == CHOOSE u \in User : u \notin given

(* A row with one key, Redis connected at startup.                         *)
Init ==
  /\ row = NextId({}) /\ used = {row}
  /\ \E k \in Key : key = [x \in Key |-> IF x = k THEN "active" ELSE "none"]
  /\ owner = [k \in Key |-> IF key[k] = "active" THEN row ELSE NoUser]
  /\ tomb = FALSE /\ cached = {} /\ userEntry = NoUser /\ up = TRUE
  /\ client = [r \in Replica |-> TRUE] /\ open = [r \in Replica |-> FALSE]
  /\ probing = [r \in Replica |-> FALSE]
  /\ call \in [Caller -> {"idle"} \X Key]
  /\ req = [j \in Jwt |-> "idle"] /\ me = [j \in Jwt |-> NoUser]
  /\ todo = [j \in Jwt |-> {}] /\ fails = 0

(***************************************************************************)
(* The Redis client of a replica.                                          *)
(***************************************************************************)

(* A command reaches Redis: the breaker is closed; without a client the    *)
(* request dials first and the success closes the breaker for good.        *)
Reach(r) ==
  /\ ~open[r] /\ up
  /\ client' = [client EXCEPT ![r] = TRUE]
  /\ UNCHANGED <<open, probing>>

(* A failed operation that leaves recovery to the next request.            *)
Degrade_NoProbe(r) ==
  \/ open[r] /\ UNCHANGED conn
  \/ /\ ~open[r] /\ ~up
     /\ client' = [client EXCEPT ![r] = FALSE]
     /\ open' = [open EXCEPT ![r] = TRUE]
     /\ UNCHANGED probing

(* It does not: the breaker is open and nothing is tried, or the dial or   *)
(* the command fails, which opens the breaker and starts the probe.        *)
Degrade(r) ==
  \/ open[r] /\ UNCHANGED conn
  \/ /\ ~open[r] /\ ~up
     /\ client' = [client EXCEPT ![r] = FALSE]
     /\ open' = [open EXCEPT ![r] = TRUE]
     /\ probing' = [probing EXCEPT ![r] = TRUE]

(* The cooldown of a breaker runs out.                                     *)
CooldownEnds(r) ==
  /\ open[r]
  /\ open' = [open EXCEPT ![r] = FALSE]
  /\ UNCHANGED <<db, redis, up, client, probing, call, req, me, todo, fails>>

(* run_reprobe wakes with the breaker closed and dials once: success ends  *)
(* the task, failure opens the breaker for longer.                         *)
Probe(r) ==
  /\ probing[r] /\ ~open[r]
  /\ LET ok == client[r] \/ up
     IN  /\ client' = [client EXCEPT ![r] = ok]
         /\ open' = [open EXCEPT ![r] = ~ok]
         /\ probing' = [probing EXCEPT ![r] = ~ok]
  /\ UNCHANGED <<db, redis, up, call, req, me, todo, fails>>

(* Redis goes away, comes back with or without its data, drops an entry    *)
(* at the end of its lifetime.                                             *)
RedisDown ==
  /\ up /\ up' = FALSE
  /\ UNCHANGED <<db, redis, conn, call, req, me, todo, fails>>

RedisUp ==
  /\ ~up /\ up' = TRUE
  /\ \/ UNCHANGED redis
     \/ cached' = {} /\ userEntry' = NoUser
  /\ UNCHANGED <<db, conn, call, req, me, todo, fails>>

Expire(k) ==
  /\ k \in cached /\ cached' = cached \ {k}
  /\ UNCHANGED <<db, userEntry, up, conn, call, req, me, todo, fails>>

ExpireUser ==
  /\ userEntry # NoUser /\ userEntry' = NoUser
  /\ UNCHANGED <<db, cached, up, conn, call, req, me, todo, fails>>

(* cache_service.delete of a key's entry, of the user's entry.             *)
DropKey(r, k) ==
  \/ Reach(r) /\ cached' = cached \ {k}
  \/ Degrade(r) /\ UNCHANGED cached

DropUser(r) ==
  \/ Reach(r) /\ userEntry' = NoUser
  \/ Degrade(r) /\ UNCHANGED userEntry

(***************************************************************************)
(* A request with an API key.                                              *)
(***************************************************************************)

(* The cache is asked first: a hit admits the request on the copy, whose   *)
(* is_active is the one that was cached.                                   *)
Lookup(c, k) ==
  /\ call[c][1] = "idle" /\ key[k] # "none"
  /\ \/ Reach(At[c]) /\ call' = [call EXCEPT
          ![c] = <<IF k \in cached THEN "idle" ELSE "query", k>>]
     \/ Degrade(At[c]) /\ call' = [call EXCEPT ![c] = <<"query", k>>]
  /\ UNCHANGED <<db, redis, up, req, me, todo, fails>>

(* A lookup that forgets to look at is_active.                             *)
Valid_AnyKey(k) == key[k] \in {"active", "revoked"} /\ owner[k] # NoUser

(* The key's row joined to its user's: refused unless the key is active    *)
(* and the user exists.                                                    *)
Valid(k) == key[k] = "active" /\ owner[k] # NoUser

Query(c) ==
  /\ call[c][1] = "query"
  /\ call' = [call EXCEPT ![c][1] = IF Valid(call[c][2]) THEN "fill" ELSE "idle"]
  /\ UNCHANGED <<db, redis, up, conn, req, me, todo, fails>>

(* The write-through: the payload is the row as it was read.               *)
Fill(c) ==
  /\ call[c][1] = "fill"
  /\ call' = [call EXCEPT ![c][1] = "idle"]
  /\ \/ Reach(At[c]) /\ cached' = cached \cup {call[c][2]}
     \/ Degrade(At[c]) /\ UNCHANGED cached
  /\ UNCHANGED <<db, userEntry, up, req, me, todo, fails>>

(***************************************************************************)
(* A request with a token: who is it.                                      *)
(***************************************************************************)
Goto(j, s) == req' = [req EXCEPT ![j] = s]

(* The token is genuine; a tombstoned identity is refused and its cached   *)
(* user dropped.                                                           *)
Arrive(j) ==
  /\ req[j] = "idle"
  /\ me' = [me EXCEPT ![j] = NoUser]
  /\ \/ ~tomb /\ Goto(j, "load") /\ UNCHANGED <<userEntry, conn>>
     \/ tomb /\ DropUser(At[j]) /\ UNCHANGED req
  /\ UNCHANGED <<db, cached, up, call, todo, fails>>

LoadUser(j) ==
  /\ req[j] = "load"
  /\ \/ /\ Reach(At[j]) /\ userEntry # NoUser
        /\ me' = [me EXCEPT ![j] = userEntry] /\ Goto(j, "in")
     \/ /\ (Reach(At[j]) /\ userEntry = NoUser) \/ Degrade(At[j])
        /\ Goto(j, "query") /\ UNCHANGED me
  /\ UNCHANGED <<db, redis, up, call, todo, fails>>

QueryUser(j) ==
  /\ req[j] = "query"
  /\ me' = [me EXCEPT ![j] = row]
  /\ Goto(j, IF row = NoUser THEN "check" ELSE "store")
  /\ UNCHANGED <<db, redis, up, conn, call, todo, fails>>

(* A first login that trusts the look it had on arrival.                   *)
CheckTomb_Trusting(j) ==
  /\ req[j] = "check" /\ Goto(j, "create")
  /\ UNCHANGED <<db, redis, up, conn, call, me, todo, fails>>

(* First login: the tombstone is looked up again before the insert.        *)
CheckTomb(j) ==
  /\ req[j] = "check" /\ Goto(j, IF tomb THEN "idle" ELSE "create")
  /\ UNCHANGED <<db, redis, up, conn, call, me, todo, fails>>

CreateUser(j) ==
  /\ req[j] = "create"
  /\ \/ /\ row # NoUser /\ Goto(j, "idle")
        /\ UNCHANGED <<row, used, me>>
     \/ /\ row = NoUser /\ used # User /\ Goto(j, "store")
        /\ row' = NextId(used) /\ used' = used \cup {row'}
        /\ me' = [me EXCEPT ![j] = row']
  /\ UNCHANGED <<key, owner, tomb, redis, up, conn, call, todo, fails>>

StoreUser(j) ==
  /\ req[j] = "store" /\ Goto(j, "in")
  /\ \/ Reach(At[j]) /\ userEntry' = me[j]
     \/ Degrade(At[j]) /\ UNCHANGED userEntry
  /\ UNCHANGED <<db, cached, up, call, me, todo, fails>>

(***************************************************************************)
(* What it asks for.                                                       *)
(***************************************************************************)
CreateKey(j, k) ==
  /\ req[j] = "in" /\ Goto(j, "idle")
  /\ \/ /\ row = me[j] /\ key[k] = "none"
        /\ key' = [key EXCEPT ![k] = "active"]
        /\ owner' = [owner EXCEPT ![k] = me[j]]
     \/ row # me[j] /\ UNCHANGED <<key, owner>>
  /\ UNCHANGED <<row, used, tomb, redis, up, conn, call, me, todo, fails>>

(* deactivate_api_key commits and then drops the entry.                    *)
Mine(j) == {k \in Key : key[k] \in {"active", "revoked"} /\ owner[k] = me[j]}

RevokeKey(j, k) ==
  /\ req[j] = "in"
  /\ \/ /\ k \in Mine(j) /\ Goto(j, "drop")
        /\ key' = [key EXCEPT ![k] = "revoked"]
        /\ todo' = [todo EXCEPT ![j] = {k}]
     \/ k \notin Mine(j) /\ Goto(j, "idle") /\ UNCHANGED <<key, todo>>
  /\ UNCHANGED <<row, used, owner, tomb, redis, up, conn, call, me, fails>>

DropRevoked(j) ==
  /\ req[j] = "drop" /\ Goto(j, "idle")
  /\ \E k \in todo[j] : DropKey(At[j], k)
  /\ todo' = [todo EXCEPT ![j] = {}]
  /\ UNCHANGED <<db, userEntry, up, call, me, fails>>

(* delete_all_user_api_keys drops the entries first, deletes afterwards.   *)
DeleteAccount(j) ==
  /\ req[j] = "in" /\ Goto(j, "dropAll")
  /\ todo' = [todo EXCEPT ![j] = Mine(j)]
  /\ UNCHANGED <<db, redis, up, conn, call, me, fails>>

DropOne(j) ==
  /\ req[j] = "dropAll"
  /\ \/ \E k \in todo[j] :
          /\ DropKey(At[j], k)
          /\ todo' = [todo EXCEPT ![j] = @ \ {k}] /\ UNCHANGED req
     \/ /\ todo[j] = {} /\ Goto(j, "keys")
        /\ UNCHANGED <<todo, cached, conn>>
  /\ UNCHANGED <<db, userEntry, up, call, me, fails>>

DeleteKeys(j) ==
  /\ req[j] = "keys" /\ Goto(j, "user")
  /\ key' = [k \in Key |-> IF k \in Mine(j) THEN "deleted" ELSE key[k]]
  /\ UNCHANGED <<row, used, owner, tomb, redis, up, conn, call, me, todo, fails>>

(* delete_user: the row is looked up (404 if it is gone), its entry        *)
(* dropped, then the row deleted; keys made meanwhile lose their user.     *)
FindUser(j) ==
  /\ req[j] = "user"
  /\ \/ row # me[j] /\ Goto(j, "idle") /\ UNCHANGED <<userEntry, conn>>
     \/ row = me[j] /\ Goto(j, "row") /\ DropUser(At[j])
  /\ UNCHANGED <<db, cached, up, call, me, todo, fails>>

DeleteUser(j) ==
  /\ req[j] = "row" /\ Goto(j, "tomb")
  /\ row' = IF row = me[j] THEN NoUser ELSE row
  /\ owner' = [k \in Key |-> IF owner[k] = me[j] THEN NoUser ELSE owner[k]]
  /\ UNCHANGED <<used, key, tomb, redis, up, conn, call, me, todo, fails>>

Tombstone(j) ==
  /\ req[j] = "tomb" /\ Goto(j, "clear")
  /\ tomb' = TRUE
  /\ UNCHANGED <<row, used, key, owner, redis, up, conn, call, me, todo, fails>>

ClearUser(j) ==
  /\ req[j] = "clear" /\ Goto(j, "deleted")
  /\ DropUser(At[j])
  /\ UNCHANGED <<db, cached, up, call, me, todo, fails>>

(* The account is deleted and the answer sent.                             *)
Answer(j) ==
  /\ req[j] = "deleted" /\ Goto(j, "idle")
  /\ UNCHANGED <<db, redis, up, conn, call, me, todo, fails>>

(* The process stops or a statement fails: what was committed stays.       *)
Dies(j) ==
  /\ req[j] # "idle" /\ fails < MaxFails
  /\ fails' = fails + 1 /\ Goto(j, "idle")
  /\ todo' = [todo EXCEPT ![j] = {}]
  /\ UNCHANGED <<db, redis, up, conn, call, me>>

-----------------------------------------------------------------------------
CallerStep(c) == Query(c) \/ Fill(c)

(* Steps a token request takes once it has begun.                          *)
JwtStep(j) ==
  \/ LoadUser(j) \/ QueryUser(j) \/ CheckTomb(j) \/ CreateUser(j)
  \/ StoreUser(j) \/ DropRevoked(j) \/ DropOne(j) \/ DeleteKeys(j)
  \/ FindUser(j) \/ DeleteUser(j) \/ Tombstone(j) \/ ClearUser(j) \/ Answer(j)

Ask(j) ==
  \/ DeleteAccount(j)
  \/ \E k \in Key : CreateKey(j, k) \/ RevokeKey(j, k)

Next ==
  \/ \E c \in Caller : CallerStep(c) \/ \E k \in Key : Lookup(c, k)
  \/ \E j \in Jwt : Arrive(j) \/ JwtStep(j) \/ Ask(j) \/ Dies(j)
  \/ \E r \in Replica : CooldownEnds(r) \/ Probe(r)
  \/ \E k \in Key : Expire(k)
  \/ RedisDown \/ RedisUp \/ ExpireUser

Spec == Init /\ [][Next]_vars

(* Requests on their way end (their calls have timeouts), an entry is      *)
(* dropped at the end of its lifetime, a cooldown is a time and the probe  *)
(* is a task of the event loop.  No request need ever arrive.              *)
FairSpec ==
  /\ Spec
  /\ \A c \in Caller : WF_vars(CallerStep(c))
  /\ \A j \in Jwt : WF_vars(JwtStep(j))
  /\ \A r \in Replica : WF_vars(CooldownEnds(r)) /\ WF_vars(Probe(r))
  /\ \A k \in Key : WF_vars(Expire(k))

(***************************************************************************)
(* Properties.                                                             *)
(***************************************************************************)

(* The key was revoked or deleted, or its account is gone.                 *)
Dead(k) ==
  \/ key[k] \in {"revoked", "deleted"}
  \/ key[k] = "active" /\ owner[k] = NoUser

(* A key that was revoked or deleted, or whose account is gone, in the end *)
(* leaves the cache and never comes back, so that requests with it are     *)
(* refused from then on -- although the entry's delete may be skipped by   *)
(* an open breaker, lost with the handler, run before the commit, or       *)
(* undone by a request that read the row earlier and fills the cache late. *)
(* (cache_service.delete, deactivate_api_key, delete_all_user_api_keys.)   *)
RevokedEnds == \A k \in Key : Dead(k) ~> [](k \notin cached)

(* When Redis is back to stay, every replica has its client again, also    *)
(* one that no request reaches: the probe of run_reprobe is enough.        *)
ClientReturns == \A r \in Replica : <>[]up => []<>client[r]

(* A tombstoned identity without a row never has one again, once nobody is *)
(* between create_user_from_cognito's look at the tombstone and its insert:*)
(* whatever other requests read before the deletion.                       *)
Buried == tomb /\ row = NoUser /\ \A j \in Jwt : req[j] # "create"
TombstoneFinal == [][Buried => Buried']_vars

(* "Deleted accounts cannot be recreated from a lingering JWT."            *)
(* (get_current_user): when the deletion has answered, the identity has no *)
(* row.                                                                    *)
NotRecreated == \A j \in Jwt : req[j] = "deleted" => row = NoUser
=============================================================================
