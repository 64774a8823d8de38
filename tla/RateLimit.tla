------------------------------ MODULE RateLimit ------------------------------
(***************************************************************************)
(* Rate limiting of one API key (services/rate_limiting): a script counts  *)
(* requests in the key of the current window, the tokens of the window are *)
(* compared with the limit, and what a request used is added when it is    *)
(* done, to the window of that time.  Each replica reaches the one Redis   *)
(* through a breaker of its own and lets requests through without it.      *)
(*                                                                         *)
(* A key is stamped with its window when a command is sent, and a command  *)
(* is answered or times out within a window: only the counters of this     *)
(* window and of the one before are ever touched.                          *)
(***************************************************************************)
EXTENDS Naturals, FiniteSets

CONSTANTS
  Req, Replica, At,  \* At[q]: the replica that serves q
  Rpm, Tpm,          \* limits of the key, scaled
  MaxTok,            \* bound: tokens of one request
  FailClosed         \* RATE_LIMIT_FAIL_CLOSED

ASSUME RateAssumption ==
  /\ At \in [Req -> Replica] /\ IsFiniteSet(Req)
  /\ Rpm \in Nat \ {0} /\ Tpm \in Nat \ {0} /\ MaxTok \in Nat \ {0}
  /\ FailClosed \in BOOLEAN

VARIABLES
  pc,        \* where each request stands
  stamp,     \* the window its command is for
  passed,    \* requests the script, or its absence, let through
  blind,     \* history: requests let through without a look at the tokens
  rpm, tpm,  \* the counters of a window, in Redis
  hidden,    \* history: windows with tokens the counter or a look missed
  up,        \* Redis answers
  script,    \* it has the script
  client, open, probing  \* _redis, breaker and run_reprobe of each replica

reqVars == <<pc, stamp, passed, blind>>
winVars == <<rpm, tpm, hidden>>
conn == <<client, open, probing>>
vars == <<reqVars, winVars, up, script, conn>>

Window == {"old", "now"}
(* The requests that run at once may each add once more to a full window.  *)
Cap == Tpm + Cardinality(Req) * MaxTok

TypeOK ==
  /\ pc \in [Req -> {"idle", "count", "counting", "look", "looking", "serving",
                     "add", "adding", "report"}]
  /\ stamp \in [Req -> Window]
  /\ passed \subseteq Req /\ blind \subseteq Req
  /\ rpm \in [Window -> 0..Rpm] /\ tpm \in [Window -> 0..Cap]
  /\ hidden \subseteq Window
  /\ up \in BOOLEAN /\ script \in BOOLEAN
  /\ client \in [Replica -> BOOLEAN] /\ open \in [Replica -> BOOLEAN]
  /\ probing \in [Replica -> BOOLEAN]

Init ==
  /\ pc = [q \in Req |-> "idle"] /\ stamp = [q \in Req |-> "now"]
  /\ passed = {} /\ blind = {}
  /\ rpm = [w \in Window |-> 0] /\ tpm = [w \in Window |-> 0] /\ hidden = {}
  /\ up = TRUE /\ script = TRUE
  /\ client = [r \in Replica |-> TRUE]
  /\ open = [r \in Replica |-> FALSE] /\ probing = [r \in Replica |-> FALSE]

Goto(q, l) == pc' = [pc EXCEPT ![q] = l]

------------------------------------------------------------------------------
(* The Redis client of a replica.                                          *)

(* A dial that leaves the script to the start of the process.              *)
Connect_NoScript(r) ==
  /\ up /\ UNCHANGED script
  /\ client' = [client EXCEPT ![r] = TRUE]

(* A dial that succeeds also loads the script.                             *)
Connect(r) ==
  /\ up /\ script' = TRUE
  /\ client' = [client EXCEPT ![r] = TRUE]

Trip(r) ==
  /\ client' = [client EXCEPT ![r] = FALSE]
  /\ open' = [open EXCEPT ![r] = TRUE]
  /\ probing' = [probing EXCEPT ![r] = TRUE]

(* _acquire_redis: a client, perhaps after a dial, or none.                *)
Acquired(r) ==
  /\ ~open[r]
  /\ \/ client[r] /\ UNCHANGED <<client, script>>
     \/ ~client[r] /\ Connect(r)
  /\ UNCHANGED <<open, probing>>

NotAcquired(r) ==
  /\ \/ open[r] /\ UNCHANGED conn
     \/ ~open[r] /\ ~client[r] /\ ~up /\ Trip(r)
  /\ UNCHANGED script

(* _note_op_error; a missing script is a RedisError as well.               *)
OpError(r) ==
  /\ IF open[r] THEN UNCHANGED conn ELSE Trip(r)
  /\ UNCHANGED script

CooldownEnds(r) ==
  /\ open[r] /\ open' = [open EXCEPT ![r] = FALSE]
  /\ UNCHANGED <<reqVars, winVars, up, script, client, probing>>

(* run_reprobe wakes with the breaker closed and attempts once.            *)
Probe(r) ==
  /\ probing[r] /\ ~open[r]
  /\ \/ /\ client[r] /\ probing' = [probing EXCEPT ![r] = FALSE]
        /\ UNCHANGED <<client, open, script>>
     \/ /\ ~client[r] /\ Connect(r)
        /\ probing' = [probing EXCEPT ![r] = FALSE] /\ UNCHANGED open
     \/ /\ ~client[r] /\ ~up /\ open' = [open EXCEPT ![r] = TRUE]
        /\ UNCHANGED <<client, probing, script>>
  /\ UNCHANGED <<reqVars, winVars, up>>

(* Redis stops answering; it was cut off, or is started again without its  *)
(* scripts, perhaps without its data.                                      *)
RedisDown == up /\ up' = FALSE /\ UNCHANGED <<reqVars, winVars, script, conn>>

RedisUp ==
  /\ ~up /\ up' = TRUE
  /\ \/ UNCHANGED <<script, winVars>>
     \/ script' = FALSE /\ UNCHANGED winVars
     \/ /\ script' = FALSE
        /\ rpm' = [w \in Window |-> 0] /\ tpm' = [w \in Window |-> 0]
        /\ hidden' = Window
  /\ UNCHANGED <<reqVars, conn>>

(* The clock enters the next window, whose keys are fresh.                 *)
NewWindow ==
  /\ \A q \in Req : pc[q] \in {"counting", "looking", "adding"} => stamp[q] = "now"
  /\ stamp' = [q \in Req |->
       IF pc[q] \in {"counting", "looking", "adding"} THEN "old" ELSE "now"]
  /\ rpm' = [old |-> rpm["now"], now |-> 0]
  /\ tpm' = [old |-> tpm["now"], now |-> 0]
  /\ hidden' = {w \in {"old"} : "now" \in hidden}
  /\ UNCHANGED <<pc, passed, blind, up, script, conn>>

------------------------------------------------------------------------------
(* check_rate_limit.                                                       *)

Arrive(q) ==
  /\ pc[q] = "idle" /\ Goto(q, "count")
  /\ UNCHANGED <<stamp, passed, blind, winVars, up, script, conn>>

(* A command is sent for the key of the window of this moment.             *)
Send(q) ==
  /\ \/ pc[q] = "count" /\ Goto(q, "counting")
     \/ pc[q] = "look" /\ Goto(q, "looking")
     \/ pc[q] = "add" /\ Goto(q, "adding")
  /\ Acquired(At[q])
  /\ UNCHANGED <<stamp, passed, blind, winVars, up>>

Answered(q) == stamp' = [stamp EXCEPT ![q] = "now"]

(* FIXED_WINDOW_SCRIPT tests before it adds.                               *)
Room(w) == rpm[w] + 1 <= Rpm

(* A refused request reads the tokens too, for its headers.                *)
Count(q) ==
  /\ pc[q] = "counting" /\ up /\ script
  /\ \/ /\ Room(stamp[q])
        /\ rpm' = [rpm EXCEPT ![stamp[q]] = @ + 1]
        /\ passed' = passed \cup {q}
     \/ ~Room(stamp[q]) /\ UNCHANGED <<rpm, passed>>
  /\ Goto(q, "look") /\ Answered(q)
  /\ UNCHANGED <<blind, tpm, hidden, up, script, conn>>

(* A look that forgets the estimate.                                       *)
Full_Used(w) == tpm[w] > Tpm

(* The estimate is one token at least.                                     *)
Full(w) == tpm[w] + 1 > Tpm

Refuse(q) == Goto(q, "idle") /\ passed' = passed \ {q}

Look(q) ==
  /\ pc[q] = "looking" /\ up
  /\ IF q \notin passed \/ Full(stamp[q]) THEN Refuse(q)
     ELSE Goto(q, "serving") /\ UNCHANGED passed
  /\ Answered(q)
  /\ UNCHANGED <<blind, winVars, up, script, conn>>

------------------------------------------------------------------------------
(* record_token_usage.                                                     *)

(* The request failed, or reported no tokens.                              *)
Unused(q) ==
  /\ pc[q] = "serving" /\ Refuse(q) /\ blind' = blind \ {q}
  /\ UNCHANGED <<stamp, winVars, up, script, conn>>

Used(q) ==
  /\ pc[q] = "serving" /\ Goto(q, "add")
  /\ UNCHANGED <<stamp, passed, blind, winVars, up, script, conn>>

Hide(q, w, missed) ==
  hidden' = IF missed \/ q \in blind THEN hidden \cup {w} ELSE hidden

Add(q) ==
  /\ pc[q] = "adding" /\ up
  /\ \E n \in 1..MaxTok : tpm' =
       [tpm EXCEPT ![stamp[q]] = IF @ + n > Cap THEN Cap ELSE @ + n]
  /\ Hide(q, stamp[q], FALSE) /\ Goto(q, "report") /\ Answered(q)
  /\ UNCHANGED <<passed, blind, rpm, up, script, conn>>

(* The usage read again for the headers.                                   *)
Report(q) ==
  /\ pc[q] = "report" /\ Refuse(q) /\ blind' = blind \ {q}
  /\ \/ up /\ Acquired(At[q])
     \/ NotAcquired(At[q])
     \/ ~up /\ client[At[q]] /\ OpError(At[q])
  /\ UNCHANGED <<stamp, winVars, up>>

------------------------------------------------------------------------------
(* Without Redis.                                                          *)

(* Before it is sent a command finds no client; afterwards Redis may be    *)
(* gone or, for the script, may not have it.                               *)
OpFails(q) ==
  \/ pc[q] \in {"count", "look", "add"} /\ NotAcquired(At[q])
  \/ /\ \/ pc[q] \in {"counting", "looking", "adding"} /\ ~up
        \/ pc[q] = "counting" /\ ~script
     /\ OpError(At[q])

(* The request is not counted.                                             *)
CountFails(q) ==
  /\ pc[q] \in {"count", "counting"} /\ OpFails(q)
  /\ Goto(q, "look") /\ Answered(q)
  /\ passed' = IF FailClosed THEN passed ELSE passed \cup {q}
  /\ UNCHANGED <<blind, winVars, up>>

(* Its tokens are not compared, whatever RATE_LIMIT_FAIL_CLOSED says.      *)
LookFails(q) ==
  /\ pc[q] \in {"look", "looking"} /\ OpFails(q) /\ Answered(q)
  /\ \/ q \notin passed /\ Refuse(q) /\ UNCHANGED blind
     \/ /\ q \in passed /\ Goto(q, "serving") /\ UNCHANGED passed
        /\ blind' = blind \cup {q}
  /\ UNCHANGED <<winVars, up>>

(* Its tokens are not added.                                               *)
AddFails(q) ==
  /\ pc[q] \in {"add", "adding"} /\ OpFails(q)
  /\ Hide(q, stamp[q], TRUE) /\ Goto(q, "report") /\ Answered(q)
  /\ UNCHANGED <<passed, blind, rpm, tpm, up>>

------------------------------------------------------------------------------
LimiterStep(q) ==
  \/ Send(q) \/ Count(q) \/ Look(q) \/ Add(q) \/ Report(q)
  \/ CountFails(q) \/ LookFails(q) \/ AddFails(q)

Next ==
  \/ \E q \in Req : Arrive(q) \/ LimiterStep(q) \/ Used(q) \/ Unused(q)
  \/ \E r \in Replica : CooldownEnds(r) \/ Probe(r)
  \/ RedisDown \/ RedisUp \/ NewWindow

Spec == Init /\ [][Next]_vars

(* Commands are answered or time out, a cooldown is a time, the probe is a *)
(* task of the event loop.  No request need arrive or end.                 *)
FairSpec ==
  /\ Spec
  /\ \A q \in Req : WF_vars(LimiterStep(q))
  /\ \A r \in Replica : WF_vars(CooldownEnds(r)) /\ WF_vars(Probe(r))

------------------------------------------------------------------------------
(* Properties.                                                             *)

(* A window's tokens pass its limit by at most one use of each request     *)
(* that runs at once, those admitted in an earlier window included, unless *)
(* Redis was missed at an admission or an addition, or lost its data.      *)
WindowBound == \A w \in Window : tpm[w] < Cap \/ w \in hidden

(* When Redis is back to stay, with or without the script, in the end      *)
(* every replica counts each request again, and nothing passes unmetered.  *)
Missed(q) == CountFails(q) \/ LookFails(q) \/ AddFails(q)
CountsAgain == <>[]up => <>[][\A q \in Req : ~Missed(q)]_vars

(* "with RATE_LIMIT_FAIL_CLOSED a degraded limiter blocks too instead of   *)
(* granting unmetered access."                                             *)
DegradedBlocks == FailClosed => blind = {}

------------------------------------------------------------------------------
(* The inductive invariant behind the theorems of RateLimit_proofs.        *)

(* Only a command on its way can be of the window before.                  *)
Sent(q) == pc[q] \in {"counting", "looking", "adding"}
StampInv == \A q \in Req : stamp[q] = "now" \/ Sent(q)

(* The requests whose tokens may still be added to a window on the word of *)
(* a look: of this window those admitted, and those that look at the one   *)
(* before; of the one before those whose addition is on its way.           *)
Due(w) ==
  {q \in Req \ blind :
     \/ w = "now" /\ pc[q] \in {"serving", "add"}
     \/ w = "now" /\ pc[q] = "looking" /\ stamp[q] = "old"
     \/ pc[q] = "adding" /\ stamp[q] = w}

(* There is room for what they may use.                                    *)
RoomInv == \A w \in Window \ hidden : tpm[w] + MaxTok * Cardinality(Due(w)) < Cap

IInv == TypeOK /\ StampInv /\ RoomInv
=============================================================================
