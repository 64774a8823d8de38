----------------------------- MODULE ChatRequest -----------------------------
(***************************************************************************)
(* The life of one inference request, from its billing hold to its last    *)
(* cleanup, for the three handlers that have one: a streamed chat          *)
(* completion, a plain one and an embeddings call.  It composes what the   *)
(* other modules promise: the session pool as SessionLease sees it, the    *)
(* ledger entry as Billing settles it, the sweeper that voids old holds.   *)
(*                                                                         *)
(* A client may go away at any await: CancelledError is then raised at     *)
(* every await that is not shielded, so shielded coroutines become tasks   *)
(* that outlive the handler, and nothing else does.                        *)
(***************************************************************************)
EXTENDS Naturals, Sequences, FiniteSets

CONSTANTS Req, Session

VARIABLES
  kind,      \* the handler that serves the request
  pc,        \* where the handler stands
  path,      \* the sessions route_request gave it, in order, at most two
  entry,     \* status of its ledger entry
  sources,   \* the sessions whose bytes the client has been sent
  billable,  \* requests with accumulator.has_billable_output()
  good,      \* requests whose provider call completed
  tasks,     \* shielded coroutines that still run
  active,    \* routed_sessions.active_requests
  held,      \* held[r]: assignments r was given and has not given back
  retired,   \* the sessions that are not OPEN
  lost,      \* history: assignments no code will release
  stranded,  \* history: holds no code of the request will settle
  stale,     \* the ids void_stale_holds has selected
  swept      \* the entries it has voided, with failure_code "hold_expired"

poolVars == <<active, held, retired, lost>>
sweepVars == <<stale, swept>>
holdVars == <<entry, stranded, sweepVars>>
outVars  == <<sources, billable, good>>
vars == <<kind, pc, path, tasks, poolVars, holdVars, outVars>>

Kind == {"stream", "plain", "embed"}
PC   == {"idle", "holding", "routing", "granted", "handoff", "calling",
         "renewing", "failing", "rerouting", "settling", "finalizing",
         "posted", "voiding", "leaving", "over"}
Task == {"void", "release", "releaseRetry", "cleanup", "settle"}

TypeOK ==
  /\ kind \in [Req -> Kind]
  /\ pc \in [Req -> PC]
  /\ path \in [Req -> Seq(Session)]
  /\ entry \in [Req -> {"absent", "pending", "posted", "voided"}]
  /\ sources \in [Req -> SUBSET Session]
  /\ billable \in SUBSET Req /\ good \in SUBSET Req
  /\ tasks \in [Req -> SUBSET Task]
  /\ active \in [Session -> Nat]
  /\ held \in [Req -> SUBSET Session]
  /\ retired \in SUBSET Session /\ lost \in SUBSET Session
  /\ stranded \in SUBSET Req
  /\ stale \in SUBSET Req /\ swept \in SUBSET Req

Init ==
  /\ kind \in [Req -> Kind]
  /\ pc = [r \in Req |-> "idle"]
  /\ path = [r \in Req |-> <<>>]
  /\ entry = [r \in Req |-> "absent"]
  /\ sources = [r \in Req |-> {}]
  /\ billable = {} /\ good = {}
  /\ tasks = [r \in Req |-> {}]
  /\ active = [s \in Session |-> 0]
  /\ held = [r \in Req |-> {}]
  /\ retired = {} /\ lost = {}
  /\ stranded = {} /\ stale = {} /\ swept = {}

------------------------------------------------------------------------------
(* What the handlers call.                                                 *)

Goto(r, l) == pc' = [pc EXCEPT ![r] = l]
Spawn(r, T) == tasks' = [tasks EXCEPT ![r] = @ \cup T]
Ends(r, T) == Goto(r, "over") /\ Spawn(r, T)

(* route_request assigns s: an idle OPEN row, or a row born assigned.      *)
Grant(r, s) ==
  /\ active[s] = 0 /\ s \notin retired
  /\ active' = [active EXCEPT ![s] = 1]
  /\ held' = [held EXCEPT ![r] = @ \cup {s}]
  /\ path' = [path EXCEPT ![r] = Append(@, s)]
  /\ UNCHANGED <<retired, lost>>

(* release_session: decrement where positive.                              *)
GiveBack(r, s) ==
  /\ active' = IF active[s] > 0 THEN [active EXCEPT ![s] = @ - 1] ELSE active
  /\ held' = [held EXCEPT ![r] = @ \ {s}]
  /\ UNCHANGED <<retired, lost>>

(* The release raises and is logged, or is cancelled.                      *)
Forget(r, S) ==
  /\ held' = [held EXCEPT ![r] = @ \ S]
  /\ lost' = lost \cup S
  /\ UNCHANGED <<active, retired>>

Current(r) == path[r][Len(path[r])]

(* route_request is cut off, before it assigned a session or after: then   *)
(* the id reaches nobody.  n: how many sessions the request had been given.*)
RouteCut(r, n) ==
  \/ /\ pc[r] \in {"routing", "rerouting"} /\ Len(path[r]) = n
     /\ UNCHANGED <<path, poolVars>>
  \/ /\ pc[r] = "granted" /\ Len(path[r]) = n + 1
     /\ Forget(r, {Current(r)})
     /\ path' = [path EXCEPT ![r] = SubSeq(@, 1, n)]

(* finalize_usage posts what is not posted already, a swept entry too.     *)
PostEntry(r) ==
  /\ entry' = [entry EXCEPT ![r] = "posted"]
  /\ UNCHANGED <<stranded, sweepVars>>

(* void_usage voids a pending entry and refuses a posted one.              *)
VoidEntry_Posted(r) ==
  /\ entry' = [entry EXCEPT ![r] = "voided"]
  /\ UNCHANGED <<stranded, sweepVars>>
VoidEntry(r) ==
  /\ entry' = [entry EXCEPT ![r] = IF @ = "pending" THEN "voided" ELSE @]
  /\ UNCHANGED <<stranded, sweepVars>>

(* Whatever should have settled the entry raises, or never runs.           *)
Strand(r) ==
  /\ stranded' = stranded \cup {r}
  /\ UNCHANGED <<entry, sweepVars>>

------------------------------------------------------------------------------
(* Hold and routing.                                                       *)

(* The handler starts; its rate limit check passes.                        *)
Arrive(r) ==
  /\ pc[r] = "idle"
  /\ Goto(r, "holding")
  /\ UNCHANGED <<kind, path, tasks, poolVars, holdVars, outVars>>

(* _check_rate_limits raises; nothing is held yet.                         *)
RateLimited(r) ==
  /\ pc[r] = "idle"
  /\ Goto(r, "over")
  /\ UNCHANGED <<kind, path, tasks, poolVars, holdVars, outVars>>

TakeHold(r) ==
  /\ pc[r] = "holding"
  /\ entry' = [entry EXCEPT ![r] = "pending"]
  /\ Goto(r, "routing")
  /\ UNCHANGED <<kind, path, tasks, poolVars, stranded, sweepVars, outVars>>

(* Unknown model, no pricing, no credit, or an error: no hold.  Or an      *)
(* error or cancellation after the commit, before the handler knows it.    *)
HoldRefused(r) ==
  /\ pc[r] = "holding"
  /\ Goto(r, "over")
  /\ \/ UNCHANGED holdVars
     \/ /\ entry' = [entry EXCEPT ![r] = "pending"]
        /\ stranded' = stranded \cup {r}
        /\ UNCHANGED sweepVars
  /\ UNCHANGED <<kind, path, tasks, poolVars, outVars>>

(* route_request commits the assignment, the first one or a recovery's.    *)
Route(r, s) ==
  /\ pc[r] \in {"routing", "rerouting"}
  /\ Grant(r, s)
  /\ Goto(r, "granted")
  /\ UNCHANGED <<kind, tasks, holdVars, outVars>>

(* It returns the id.  A stream then returns its StreamingResponse; a      *)
(* recovery sleeps for a second.                                           *)
Routed(r) ==
  /\ pc[r] = "granted"
  /\ Goto(r, IF Len(path[r]) = 2 THEN "settling"
             ELSE IF kind[r] = "stream" THEN "handoff" ELSE "calling")
  /\ UNCHANGED <<kind, path, tasks, poolVars, holdVars, outVars>>

(* route_request raises one of its errors; the handler voids the hold.     *)
RouteFails(r) ==
  /\ pc[r] = "routing"
  /\ Goto(r, "voiding")
  /\ UNCHANGED <<kind, path, tasks, poolVars, holdVars, outVars>>

(* Cancelled in route_request: chat voids in a shielded task.              *)
RoutingCut(r) ==
  /\ kind[r] # "embed"
  /\ RouteCut(r, 0)
  /\ Ends(r, {"void"})
  /\ UNCHANGED <<kind, holdVars, outVars>>

------------------------------------------------------------------------------
(* Streamed completions.                                                   *)

Iterate(r) ==
  /\ pc[r] = "handoff"
  /\ Goto(r, "calling")
  /\ UNCHANGED <<kind, path, tasks, poolVars, holdVars, outVars>>

(* The response is dropped before its generator runs: no finally of it.    *)
NeverIterated(r) ==
  /\ pc[r] = "handoff"
  /\ Goto(r, "over")
  /\ Forget(r, held[r])
  /\ Strand(r)
  /\ UNCHANGED <<kind, path, tasks, outVars>>

(* A chunk is forwarded; b: it makes the output billable.                  *)
Chunk(r, b) ==
  /\ pc[r] = "calling" /\ kind[r] = "stream"
  /\ sources' = [sources EXCEPT ![r] = @ \cup {Current(r)}]
  /\ billable' = IF b THEN billable \cup {r} ELSE billable
  /\ UNCHANGED <<kind, pc, path, tasks, poolVars, holdVars, good>>

(* The finally blocks that run, from the retry's to the generator's own.   *)
OwnsRetry(r) == pc[r] \in {"calling", "settling"} /\ Len(path[r]) = 2
RetryTask_Leaked(r) == {}
RetryTask(r) == IF OwnsRetry(r) THEN {"releaseRetry"} ELSE {}
StreamTasks_ReleaseTwice(r) == {"cleanup", "release"} \cup RetryTask(r)
StreamTasks(r) == {"cleanup"} \cup RetryTask(r)

StreamEnds(r) ==
  /\ pc[r] = "calling" /\ kind[r] = "stream"
  /\ good' = good \cup {r}
  /\ Ends(r, StreamTasks(r))
  /\ UNCHANGED <<kind, path, poolVars, holdVars, sources, billable>>

(* An error the client is told about: after the first chunk, in the second *)
(* attempt, not recoverable, or a recovery that found no other session.    *)
StreamFails(r) ==
  /\ pc[r] \in {"calling", "failing", "rerouting"} /\ kind[r] = "stream"
  /\ Ends(r, StreamTasks(r))
  /\ UNCHANGED <<kind, path, poolVars, holdVars, outVars>>

(* The client disconnects from a running generator.                        *)
StreamCut(r) ==
  /\ kind[r] = "stream"
  /\ \/ /\ pc[r] \in {"calling", "renewing", "failing", "settling"}
        /\ UNCHANGED <<path, poolVars>>
     \/ RouteCut(r, 1)
  /\ Ends(r, StreamTasks(r))
  /\ UNCHANGED <<kind, holdVars, outVars>>

(* _stream_cleanup: release the original session, then settle the hold.    *)
CleanupRelease(r) ==
  /\ "cleanup" \in tasks[r]
  /\ GiveBack(r, path[r][1])
  /\ tasks' = [tasks EXCEPT ![r] = (@ \ {"cleanup"}) \cup {"settle"}]
  /\ UNCHANGED <<kind, pc, path, holdVars, outVars>>

CleanupReleaseFails(r) ==
  /\ "cleanup" \in tasks[r]
  /\ Forget(r, {path[r][1]})
  /\ tasks' = [tasks EXCEPT ![r] = (@ \ {"cleanup"}) \cup {"settle"}]
  /\ UNCHANGED <<kind, pc, path, holdVars, outVars>>

(* Charge what was delivered, void what was not.                           *)
Billable_CompleteOnly(r) == r \in good
Billable_Always(r) == TRUE
Billable(r) == r \in good \cup billable

CleanupSettle(r) ==
  /\ "settle" \in tasks[r]
  /\ IF Billable(r) THEN PostEntry(r) ELSE VoidEntry(r)
  /\ tasks' = [tasks EXCEPT ![r] = @ \ {"settle"}]
  /\ UNCHANGED <<kind, pc, path, poolVars, outVars>>

CleanupSettleFails(r) ==
  /\ "settle" \in tasks[r]
  /\ Strand(r)
  /\ tasks' = [tasks EXCEPT ![r] = @ \ {"settle"}]
  /\ UNCHANGED <<kind, pc, path, poolVars, outVars>>

------------------------------------------------------------------------------
(* Recovery of a chat request: one renewal or one failover.                *)

(* Only the first attempt recovers, and a stream only before its first     *)
(* chunk.                                                                  *)
MayRecover_AnyTime(r) == Len(path[r]) = 1
MayRecover(r) == Len(path[r]) = 1 /\ sources[r] = {}

(* "session expired": the session is replaced.                             *)
Renew(r) ==
  /\ pc[r] = "calling" /\ kind[r] # "embed" /\ MayRecover(r)
  /\ Goto(r, "renewing")
  /\ UNCHANGED <<kind, path, tasks, poolVars, holdVars, outVars>>

(* The provider is unavailable or impaired.                                *)
FailOver(r) ==
  /\ pc[r] = "calling" /\ kind[r] # "embed" /\ MayRecover(r)
  /\ Goto(r, "failing")
  /\ UNCHANGED <<kind, path, tasks, poolVars, holdVars, outVars>>

(* invalidate_session, whose database error is swallowed.  For a failover  *)
(* it comes after the check for alternate bids.                            *)
Invalidate(r) ==
  /\ pc[r] \in {"renewing", "failing"}
  /\ \/ retired' = retired \cup {Current(r)}
     \/ UNCHANGED retired
  /\ Goto(r, "rerouting")
  /\ UNCHANGED <<kind, path, tasks, active, held, lost, holdVars, outVars>>

(* The second of sleep is over; the retry owns the new session.            *)
RetryStarts(r) ==
  /\ pc[r] = "settling"
  /\ Goto(r, "calling")
  /\ UNCHANGED <<kind, path, tasks, poolVars, holdVars, outVars>>

------------------------------------------------------------------------------
(* Plain completions.                                                      *)

(* Status 200, of the first attempt or of the retry, whose own finally     *)
(* releases its session.                                                   *)
PlainAnswer(r) ==
  /\ pc[r] = "calling" /\ kind[r] = "plain"
  /\ good' = good \cup {r}
  /\ Goto(r, "finalizing") /\ Spawn(r, RetryTask(r))
  /\ UNCHANGED <<kind, path, poolVars, holdVars, sources, billable>>

(* Any other status, or no session to retry with.                          *)
PlainFails(r) ==
  /\ pc[r] \in {"calling", "failing", "rerouting"} /\ kind[r] = "plain"
  /\ Goto(r, "voiding") /\ Spawn(r, RetryTask(r))
  /\ UNCHANGED <<kind, path, poolVars, holdVars, outVars>>

(* CancelledError anywhere in the handler: void and release are shielded,  *)
(* and so is the release of a second session, by the retry or by whoever   *)
(* sleeps on it.                                                           *)
PlainCut(r) ==
  /\ kind[r] = "plain" /\ path[r] # <<>>
  /\ \/ /\ pc[r] \in {"calling", "renewing", "failing", "settling",
                      "finalizing", "posted", "voiding"}
        /\ UNCHANGED <<path, poolVars>>
     \/ RouteCut(r, 1)
  /\ Ends(r, {"void", "release"} \cup RetryTask(r))
  /\ UNCHANGED <<kind, holdVars, outVars>>

(* The same between the return of _create_new_session and its caller: the  *)
(* exit of get_db is cancelled and the new id is dropped.                  *)
RenewalCut(r) ==
  /\ kind[r] = "plain" /\ pc[r] = "settling"
  /\ Forget(r, {Current(r)})
  /\ Ends(r, {"void", "release"})
  /\ UNCHANGED <<kind, path, holdVars, outVars>>

------------------------------------------------------------------------------
(* Plain and embeddings: finalize or void, then release.                   *)

(* What remains after the hold is settled.                                 *)
Leaving(r) ==
  IF path[r] = <<>> THEN Ends(r, {})
  ELSE IF kind[r] = "embed" THEN Goto(r, "leaving") /\ UNCHANGED tasks
  ELSE Ends(r, {"release"})

(* finalize_usage commits; _finalize_billing has awaits left.              *)
Finalize(r) ==
  /\ pc[r] = "finalizing"
  /\ PostEntry(r)
  /\ Goto(r, "posted")
  /\ UNCHANGED <<kind, path, tasks, poolVars, outVars>>

(* _finalize_billing logs the error and the answer is sent all the same.   *)
FinalizeFails(r) ==
  /\ pc[r] = "finalizing"
  /\ Strand(r)
  /\ Leaving(r)
  /\ UNCHANGED <<kind, path, poolVars, outVars>>

Respond(r) ==
  /\ pc[r] = "posted"
  /\ Leaving(r)
  /\ UNCHANGED <<kind, path, poolVars, holdVars, outVars>>

Void(r) ==
  /\ pc[r] = "voiding"
  /\ VoidEntry(r)
  /\ Leaving(r)
  /\ UNCHANGED <<kind, path, poolVars, outVars>>

(* _void_billing_hold logs an error; a void in an except block is not      *)
(* shielded and may be cancelled.                                          *)
VoidFails(r) ==
  /\ pc[r] = "voiding"
  /\ Strand(r)
  /\ Leaving(r)
  /\ UNCHANGED <<kind, path, poolVars, outVars>>

(* The shielded void, release and release of the retry's session.          *)
TaskVoid(r) ==
  /\ "void" \in tasks[r]
  /\ tasks' = [tasks EXCEPT ![r] = @ \ {"void"}]
  /\ VoidEntry(r) \/ Strand(r)
  /\ UNCHANGED <<kind, pc, path, poolVars, outVars>>

TaskRelease(r) ==
  /\ "release" \in tasks[r]
  /\ tasks' = [tasks EXCEPT ![r] = @ \ {"release"}]
  /\ GiveBack(r, path[r][1]) \/ Forget(r, {path[r][1]})
  /\ UNCHANGED <<kind, pc, path, holdVars, outVars>>

TaskReleaseRetry(r) ==
  /\ "releaseRetry" \in tasks[r]
  /\ tasks' = [tasks EXCEPT ![r] = @ \ {"releaseRetry"}]
  /\ GiveBack(r, path[r][2]) \/ Forget(r, {path[r][2]})
  /\ UNCHANGED <<kind, pc, path, holdVars, outVars>>

------------------------------------------------------------------------------
(* Embeddings: nothing is shielded, and a cancellation is not caught.      *)

EmbedAnswer(r) ==
  /\ pc[r] = "calling" /\ kind[r] = "embed"
  /\ good' = good \cup {r}
  /\ Goto(r, "finalizing")
  /\ UNCHANGED <<kind, path, tasks, poolVars, holdVars, sources, billable>>

EmbedFails(r) ==
  /\ pc[r] = "calling" /\ kind[r] = "embed"
  /\ Goto(r, "voiding")
  /\ UNCHANGED <<kind, path, tasks, poolVars, holdVars, outVars>>

EmbedRelease(r) ==
  /\ pc[r] = "leaving"
  /\ Goto(r, "over")
  /\ GiveBack(r, path[r][1]) \/ Forget(r, {path[r][1]})
  /\ UNCHANGED <<kind, path, tasks, holdVars, outVars>>

EmbedCut(r) ==
  /\ kind[r] = "embed"
  /\ \/ RouteCut(r, 0)
     \/ /\ pc[r] \in {"calling", "finalizing", "posted"}
        /\ \/ Forget(r, held[r])
           \/ \E s \in held[r] : GiveBack(r, s)
        /\ UNCHANGED path
  /\ Goto(r, "over")
  /\ Strand(r)
  /\ UNCHANGED <<kind, tasks, outVars>>

------------------------------------------------------------------------------
(* The world.                                                              *)

(* The replica dies.                                                       *)
Die(r) ==
  /\ pc[r] # "idle" /\ (pc[r] # "over" \/ tasks[r] # {})
  /\ Goto(r, "over")
  /\ tasks' = [tasks EXCEPT ![r] = {}]
  /\ Forget(r, held[r])
  /\ Strand(r)
  /\ UNCHANGED <<kind, path, outVars>>

(* void_stale_holds selects what is pending for too long, in use or not,   *)
(* and then writes every id it has selected, posted meanwhile or not.  Its *)
(* statements are of many entries; no request sees another one's.          *)
SweepSelect(r) ==
  /\ entry[r] = "pending" /\ r \notin stale
  /\ stale' = stale \cup {r}
  /\ UNCHANGED <<kind, pc, path, tasks, poolVars, entry, stranded, swept, outVars>>

SweepVoid(r) ==
  /\ r \in stale
  /\ entry' = [entry EXCEPT ![r] = "voided"]
  /\ stale' = stale \ {r} /\ swept' = swept \cup {r}
  /\ UNCHANGED <<kind, pc, path, tasks, poolVars, stranded, outVars>>

Sweep(r) == SweepSelect(r) \/ SweepVoid(r)

ChatNext(r) ==
  \/ RoutingCut(r) \/ Renew(r) \/ FailOver(r) \/ Invalidate(r) \/ RetryStarts(r)

StreamNext(r) ==
  \/ Iterate(r) \/ NeverIterated(r)
  \/ \E b \in BOOLEAN : Chunk(r, b)
  \/ StreamEnds(r) \/ StreamFails(r) \/ StreamCut(r)
  \/ CleanupRelease(r) \/ CleanupReleaseFails(r)
  \/ CleanupSettle(r) \/ CleanupSettleFails(r)

PlainNext(r) == PlainAnswer(r) \/ PlainFails(r) \/ PlainCut(r) \/ RenewalCut(r)

EmbedNext(r) == EmbedAnswer(r) \/ EmbedFails(r) \/ EmbedRelease(r) \/ EmbedCut(r)

CommonNext(r) ==
  \/ Arrive(r) \/ RateLimited(r) \/ TakeHold(r) \/ HoldRefused(r)
  \/ \E s \in Session : Route(r, s)
  \/ Routed(r) \/ RouteFails(r)
  \/ Finalize(r) \/ FinalizeFails(r) \/ Respond(r) \/ Void(r) \/ VoidFails(r)
  \/ TaskVoid(r) \/ TaskRelease(r) \/ TaskReleaseRetry(r)

Next == \E r \in Req :
  CommonNext(r) \/ ChatNext(r) \/ StreamNext(r) \/ PlainNext(r) \/ EmbedNext(r)
    \/ Die(r) \/ Sweep(r)

Spec == Init /\ [][Next]_vars

------------------------------------------------------------------------------
(* Properties.                                                             *)

Over(r) == pc[r] = "over" /\ tasks[r] = {}

(* When nothing of a request runs any more, its hold is settled and its    *)
(* assignments are given back, whatever was cut off where, except what a   *)
(* crash, a failed statement or an unshielded await is known to have left. *)
Settled ==
  \A r \in Req : Over(r) =>
    /\ entry[r] = "pending" => r \in stranded
    /\ held[r] = {}

(* A stream that delivered billable output is not voided by its cleanup:   *)
(* a disconnect does not make delivered inference free.                    *)
DeliveredIsCharged ==
  \A r \in Req :
    kind[r] = "stream" /\ r \in billable /\ entry[r] = "voided" => r \in swept

(* Nobody pays for nothing: a charge is posted only for a call that        *)
(* completed or a stream that delivered.                                   *)
ChargedWasServed ==
  \A r \in Req : entry[r] = "posted" => r \in good \cup billable

(* A client never receives bytes of two providers in one answer.           *)
OneSource == \A r \in Req : Cardinality(sources[r]) <= 1

(* Through every cancellation and cleanup an entry is settled once, as the *)
(* ledger demands of its callers: no void after a charge, no charge after  *)
(* a void, and only the sweep takes a charge back.                         *)
Ledger == INSTANCE HoldLedger WITH Hold <- Req, status <- entry, expired <- swept
ImplementsLedger == Ledger!Spec

(* Together with the types these are inductive.  How many sessions a       *)
(* handler has been given tells where it can stand, and conversely.        *)
Given(r) == Len(path[r])
Placed(r) ==
  /\ Given(r) <= IF kind[r] = "embed" THEN 1 ELSE 2
  /\ pc[r] \in {"idle", "holding", "routing"} => Given(r) = 0
  /\ pc[r] \in {"granted", "calling", "finalizing", "posted"} => Given(r) >= 1
  /\ pc[r] \in {"handoff", "leaving", "renewing", "failing", "rerouting"} => Given(r) = 1
  /\ pc[r] = "settling" => Given(r) = 2
  /\ pc[r] \in {"renewing", "failing", "rerouting"} => kind[r] # "embed"
  /\ pc[r] = "leaving" => kind[r] = "embed"
  /\ pc[r] = "handoff" => kind[r] = "stream"
  /\ pc[r] \in {"finalizing", "posted"} => kind[r] # "stream"
  /\ pc[r] = "voiding" /\ kind[r] = "stream" => Given(r) = 0

(* A task has the session it releases; only the retry's release starts     *)
(* before the handler is over, when its call is.                           *)
TasksPlaced(r) ==
  /\ pc[r] # "over" => tasks[r] \subseteq {"releaseRetry"}
  /\ tasks[r] \cap {"release", "cleanup"} # {} => Given(r) >= 1
  /\ "releaseRetry" \in tasks[r] =>
       Given(r) = 2 /\ pc[r] \in {"finalizing", "posted", "voiding", "over"}

(* What is held was given, and somebody is left to release it.             *)
First(r, s) == Given(r) >= 1 /\ s = path[r][1]
Second(r, s) == Given(r) = 2 /\ s = path[r][2]
Accounted(r) ==
  \A s \in held[r] :
    /\ First(r, s) \/ Second(r, s)
    /\ pc[r] \in {"finalizing", "posted", "voiding"} =>
         First(r, s) \/ "releaseRetry" \in tasks[r]
    /\ pc[r] = "over" =>
         \/ First(r, s) /\ tasks[r] \cap {"release", "cleanup"} # {}
         \/ Second(r, s) /\ "releaseRetry" \in tasks[r]

(* A pending entry has somebody left to settle it; the sweep has selected  *)
(* only entries.                                                           *)
Awaited(r) ==
  /\ pc[r] \in {"idle", "holding"} => entry[r] = "absent"
  /\ r \in stale => entry[r] # "absent"
  /\ pc[r] = "posted" => entry[r] # "pending"
  /\ pc[r] = "leaving" /\ entry[r] = "pending" => r \in stranded
  /\ pc[r] = "over" /\ entry[r] = "pending" =>
       r \in stranded \/ tasks[r] \cap {"void", "cleanup", "settle"} # {}

Served(r) ==
  /\ pc[r] \in {"finalizing", "posted"} => r \in good
  /\ entry[r] = "posted" => r \in good \cup billable

(* Output comes from the last session, while or after it is called.        *)
Output(r) ==
  /\ r \in billable => sources[r] # {}
  /\ sources[r] # {} =>
       /\ kind[r] = "stream" /\ pc[r] \in {"calling", "over"}
       /\ Given(r) >= 1 /\ sources[r] = {Current(r)}
  /\ kind[r] = "stream" /\ "void" \in tasks[r] => r \notin billable
  /\ kind[r] = "stream" /\ entry[r] = "voided" =>
       r \in swept \/ (pc[r] = "over" /\ r \notin billable)

RequestInv(r) ==
  /\ Placed(r) /\ TasksPlaced(r) /\ Accounted(r)
  /\ Awaited(r) /\ Served(r) /\ Output(r)
IInv == TypeOK /\ \A r \in Req : RequestInv(r)

(* Whoever may still charge the entry finds it as its request left it, or  *)
(* swept; and one of the tasks that settle a hold runs at most.            *)
Unsettled(r) == entry[r] = "pending" \/ (entry[r] = "voided" /\ r \in swept)
Charging(r) ==
  \/ pc[r] \in {"routing", "granted", "handoff", "calling", "renewing", "failing",
                "rerouting", "settling", "finalizing"}
  \/ tasks[r] \cap {"cleanup", "settle"} # {}
SettledOnce(r) ==
  /\ Charging(r) => Unsettled(r)
  /\ \A t, u \in tasks[r] \cap {"void", "cleanup", "settle"} : t = u
LedgerInv == \A r \in Req : SettledOnce(r)

(* What a request holds is what it still has to give back, and a slot is   *)
(* taken by its one holder or by a lost lease.                             *)
OwesFirst(r) ==
  Given(r) >= 1 /\ (pc[r] = "over" => tasks[r] \cap {"release", "cleanup"} # {})
OwesSecond(r) ==
  /\ Given(r) = 2
  /\ pc[r] \in {"granted", "settling", "calling"} \/ "releaseRetry" \in tasks[r]
Exact(r) ==
  /\ \A s \in Session :
       s \in held[r] <=> (OwesFirst(r) /\ First(r, s)) \/ (OwesSecond(r) /\ Second(r, s))
  /\ OwesFirst(r) /\ OwesSecond(r) => path[r][1] # path[r][2]
  /\ ~({"release", "cleanup"} \subseteq tasks[r])
Lent(s) ==
  /\ \A q, r \in Req : s \in held[q] \cap held[r] => q = r
  /\ active[s] <= 1
  /\ \A r \in Req : s \in held[r] => s \notin lost /\ active[s] = 1
  /\ s \in lost => active[s] = 1
LeaseInv == (\A r \in Req : Exact(r)) /\ \A s \in Session : Lent(s)

(* The handlers are well-behaved clients of the pool: through renewal,     *)
(* failover and cancellation each assignment is given back once.           *)
Lease == INSTANCE SessionLease WITH
  holders <- [s \in Session |-> {r \in Req : s \in held[r]}], wedged <- lost
ImplementsLease == Lease!Spec
=============================================================================
