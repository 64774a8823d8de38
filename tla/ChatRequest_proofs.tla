------------------------- MODULE ChatRequest_proofs -------------------------
(***************************************************************************)
(* The life of a request, for any number of requests and sessions.  A step *)
(* is of one request, and changes no other one's state; so the invariant   *)
(* is proved request by request.                                           *)
(***************************************************************************)
EXTENDS ChatRequest, FiniteSetTheorems, TLAPS

LEMMA InitInv == Init => IInv
<1> SUFFICES ASSUME Init PROVE IInv
  OBVIOUS
<1>1. TypeOK
  BY DEF Init, TypeOK, Kind, PC, Task
<1>2. ASSUME NEW r \in Req PROVE RequestInv(r)
  BY DEF Init, RequestInv, Placed, TasksPlaced, Accounted, Awaited, Served, Output, Given
<1> QED BY <1>1, <1>2 DEF IInv

(* The state of a request.                                                 *)
Same(r) ==
  /\ kind'[r] = kind[r] /\ pc'[r] = pc[r] /\ path'[r] = path[r]
  /\ entry'[r] = entry[r] /\ sources'[r] = sources[r] /\ tasks'[r] = tasks[r]
  /\ held'[r] = held[r]
  /\ r \in billable' <=> r \in billable
  /\ r \in good' <=> r \in good
  /\ r \in stranded' <=> r \in stranded
  /\ r \in stale' <=> r \in stale
  /\ r \in swept' <=> r \in swept

LEMMA Frame ==
  ASSUME NEW r \in Req, RequestInv(r), Same(r)
  PROVE  RequestInv(r)'
  BY DEF RequestInv, Same, Placed, TasksPlaced, Accounted, Awaited, Served, Output,
         Given, First, Second, Current

------------------------------------------------------------------------------
(* What the helpers do.                                                    *)

LEMMA GrantDoes ==
  ASSUME TypeOK, NEW q \in Req, NEW s \in Session, Grant(q, s)
  PROVE  /\ active' \in [Session -> Nat]
         /\ held' = [held EXCEPT ![q] = @ \cup {s}]
         /\ held' \in [Req -> SUBSET Session]
         /\ path' = [path EXCEPT ![q] = Append(@, s)]
         /\ path' \in [Req -> Seq(Session)]
         /\ Given(q)' = Given(q) + 1 /\ path'[q][Given(q)'] = s
         /\ Given(q) = 1 => path'[q][1] = path[q][1]
         /\ UNCHANGED <<retired, lost>>
<1>1. path[q] \in Seq(Session)
  BY DEF TypeOK
<1>2. /\ Append(path[q], s) \in Seq(Session)
      /\ Len(Append(path[q], s)) = Len(path[q]) + 1
      /\ Append(path[q], s)[Len(path[q]) + 1] = s
      /\ Len(path[q]) = 1 => Append(path[q], s)[1] = path[q][1]
  BY <1>1
<1> QED BY <1>1, <1>2 DEF Grant, TypeOK, Given

LEMMA GiveBackDoes ==
  ASSUME TypeOK, NEW q \in Req, NEW s \in Session, GiveBack(q, s)
  PROVE  /\ active' \in [Session -> Nat]
         /\ held' = [held EXCEPT ![q] = @ \ {s}]
         /\ held' \in [Req -> SUBSET Session]
         /\ UNCHANGED <<retired, lost>>
  BY DEF GiveBack, TypeOK

LEMMA ForgetDoes ==
  ASSUME TypeOK, NEW q \in Req, NEW S \in SUBSET Session, Forget(q, S)
  PROVE  /\ held' = [held EXCEPT ![q] = @ \ S]
         /\ held' \in [Req -> SUBSET Session]
         /\ lost' \in SUBSET Session
         /\ UNCHANGED <<active, retired>>
  BY DEF Forget, TypeOK

(* A cut route leaves the request with its first n sessions.               *)
LEMMA RouteCutDoes ==
  ASSUME TypeOK, NEW q \in Req, RequestInv(q), NEW n \in {0, 1}, RouteCut(q, n)
  PROVE  /\ path' \in [Req -> Seq(Session)] /\ Given(q)' = n
         /\ n = 1 => path'[q][1] = path[q][1]
         /\ \A s \in held'[q] : n = 1 /\ s = path[q][1]
         /\ held' \in [Req -> SUBSET Session] /\ lost' \in SUBSET Session
         /\ UNCHANGED <<active, retired>>
         /\ \A r \in Req \ {q} : path'[r] = path[r] /\ held'[r] = held[r]
         /\ pc[q] \in {"routing", "granted", "rerouting"}
         /\ pc[q] = "granted" => Given(q) = n + 1
         /\ pc[q] # "granted" => Given(q) = n
<1>1. path[q] \in Seq(Session)
  BY DEF TypeOK
<1>2. \A s \in held[q] : First(q, s) \/ Second(q, s)
  BY DEF RequestInv, Accounted
<1>3. CASE pc[q] \in {"routing", "rerouting"} /\ Len(path[q]) = n /\ UNCHANGED <<path, poolVars>>
  BY <1>1, <1>2, <1>3 DEF TypeOK, poolVars, Given, First, Second
<1>4. CASE /\ pc[q] = "granted" /\ Len(path[q]) = n + 1
           /\ Forget(q, {Current(q)})
           /\ path' = [path EXCEPT ![q] = SubSeq(@, 1, n)]
  <2>1. Current(q) \in Session /\ Current(q) = path[q][n + 1]
    BY <1>1, <1>4 DEF Current
  <2>2. /\ SubSeq(path[q], 1, n) \in Seq(Session) /\ Len(SubSeq(path[q], 1, n)) = n
        /\ n = 1 => SubSeq(path[q], 1, n)[1] = path[q][1]
    BY <1>1, <1>4
  <2>3. /\ held' = [held EXCEPT ![q] = @ \ {Current(q)}]
        /\ held' \in [Req -> SUBSET Session]
        /\ lost' \in SUBSET Session
        /\ UNCHANGED <<active, retired>>
    BY <1>4, <2>1, ForgetDoes
  <2>4. \A s \in held'[q] : n = 1 /\ s = path[q][1]
    BY <1>2, <1>4, <2>1, <2>3 DEF First, Second, Given, TypeOK
  <2> QED BY <1>4, <2>2, <2>3, <2>4 DEF TypeOK, Given
<1> QED BY <1>3, <1>4 DEF RouteCut

------------------------------------------------------------------------------
(* Types.                                                                  *)

LEMMA GivenNat == ASSUME TypeOK, NEW q \in Req PROVE Given(q) \in Nat
  BY DEF TypeOK, Given

LEMMA SessionOf ==
  ASSUME TypeOK, NEW q \in Req
  PROVE  /\ Given(q) >= 1 => path[q][1] \in Session /\ Current(q) \in Session
         /\ Given(q) = 2 => path[q][2] \in Session
  BY DEF TypeOK, Given, Current

LEMMA LeavingDoes ==
  ASSUME TypeOK, NEW q \in Req, Leaving(q)
  PROVE  /\ pc' \in [Req -> PC] /\ tasks' \in [Req -> SUBSET Task]
         /\ \A r \in Req \ {q} : pc'[r] = pc[r] /\ tasks'[r] = tasks[r]
         /\ \/ Given(q) = 0 /\ pc'[q] = "over" /\ tasks'[q] = tasks[q]
            \/ /\ Given(q) # 0 /\ kind[q] = "embed"
               /\ pc'[q] = "leaving" /\ tasks'[q] = tasks[q]
            \/ /\ Given(q) # 0 /\ kind[q] # "embed"
               /\ pc'[q] = "over" /\ tasks'[q] = tasks[q] \cup {"release"}
<1>1. CASE path[q] = <<>>
  <2>1. Given(q) = 0
    BY <1>1 DEF Given
  <2>2. pc' = [pc EXCEPT ![q] = "over"] /\ tasks' = [tasks EXCEPT ![q] = @ \cup {}]
    BY <1>1 DEF Leaving, Ends, Goto, Spawn
  <2> QED BY <2>1, <2>2 DEF TypeOK, PC
<1>2. CASE path[q] # <<>> /\ kind[q] = "embed"
  <2>1. Given(q) # 0
    BY <1>2 DEF Given, TypeOK
  <2>2. pc' = [pc EXCEPT ![q] = "leaving"] /\ tasks' = tasks
    BY <1>2 DEF Leaving, Goto
  <2> QED BY <1>2, <2>1, <2>2 DEF TypeOK, PC
<1>3. CASE path[q] # <<>> /\ kind[q] # "embed"
  <2>1. Given(q) # 0
    BY <1>3 DEF Given, TypeOK
  <2>2. pc' = [pc EXCEPT ![q] = "over"] /\ tasks' = [tasks EXCEPT ![q] = @ \cup {"release"}]
    BY <1>3 DEF Leaving, Ends, Goto, Spawn
  <2> QED BY <1>3, <2>1, <2>2 DEF TypeOK, PC, Task
<1> QED BY <1>1, <1>2, <1>3

LEMMA RetryTasks ==
  ASSUME NEW q
  PROVE  RetryTask(q) \subseteq Task /\ StreamTasks(q) \subseteq Task
  BY DEF RetryTask, StreamTasks, Task

(* Tasks of one request are added, or end.                                 *)
LEMMA TasksType ==
  ASSUME TypeOK, NEW q \in Req, NEW A \in SUBSET Task, NEW B,
         tasks' = [tasks EXCEPT ![q] = (@ \ B) \cup A]
         \/ tasks' = [tasks EXCEPT ![q] = @ \cup A]
         \/ tasks' = [tasks EXCEPT ![q] = @ \ B]
  PROVE  tasks' \in [Req -> SUBSET Task]
  BY DEF TypeOK

LEMMA TypesCommon ==
  ASSUME TypeOK, NEW q \in Req, RequestInv(q), CommonNext(q)
  PROVE  TypeOK'
<1> USE DEF TypeOK, PC, Task, Goto, Spawn, Ends, poolVars, holdVars, sweepVars, outVars
<1>1. CASE Arrive(q) \/ RateLimited(q) \/ TakeHold(q) \/ HoldRefused(q)
  BY <1>1 DEF Arrive, RateLimited, TakeHold, HoldRefused
<1>2. ASSUME NEW s \in Session, Route(q, s) PROVE TypeOK'
  <2>1. /\ active' \in [Session -> Nat] /\ held' \in [Req -> SUBSET Session]
        /\ path' \in [Req -> Seq(Session)] /\ UNCHANGED <<retired, lost>>
    BY <1>2, GrantDoes DEF Route
  <2> QED BY <1>2, <2>1 DEF Route
<1>3. CASE Routed(q) \/ RouteFails(q)
  BY <1>3 DEF Routed, RouteFails
<1>4. CASE Finalize(q)
  BY <1>4 DEF Finalize, PostEntry
<1>5. CASE FinalizeFails(q) \/ Respond(q) \/ Void(q) \/ VoidFails(q)
  <2>1. Leaving(q)
    BY <1>5 DEF FinalizeFails, Respond, Void, VoidFails
  <2>2. pc' \in [Req -> PC] /\ tasks' \in [Req -> SUBSET Task]
    BY <2>1, LeavingDoes
  <2>3. entry' \in [Req -> {"absent", "pending", "posted", "voided"}] /\ stranded' \in SUBSET Req
    BY <1>5 DEF FinalizeFails, Respond, Void, VoidFails, VoidEntry, Strand
  <2>4. UNCHANGED <<kind, path, sources, billable, good, active, held, retired, lost, stale, swept>>
    BY <1>5 DEF FinalizeFails, Respond, Void, VoidFails, VoidEntry, Strand
  <2> QED BY <2>2, <2>3, <2>4
<1>6. CASE TaskVoid(q)
  BY <1>6 DEF TaskVoid, VoidEntry, Strand
<1>7. CASE TaskRelease(q) \/ TaskReleaseRetry(q)
  <2>1. PICK s \in Session : GiveBack(q, s) \/ Forget(q, {s})
    <3>1. /\ TaskRelease(q) => path[q][1] \in Session
          /\ TaskReleaseRetry(q) => path[q][2] \in Session
      BY SessionOf, GivenNat DEF TaskRelease, TaskReleaseRetry, RequestInv, TasksPlaced
    <3> QED BY <1>7, <3>1 DEF TaskRelease, TaskReleaseRetry
  <2>2. /\ active' \in [Session -> Nat] /\ held' \in [Req -> SUBSET Session]
        /\ lost' \in SUBSET Session /\ retired' = retired
    BY <2>1, GiveBackDoes, ForgetDoes
  <2>3. tasks' \in [Req -> SUBSET Task]
    BY <1>7, TasksType DEF TaskRelease, TaskReleaseRetry
  <2>4. UNCHANGED <<kind, pc, path, entry, sources, billable, good, stranded, stale, swept>>
    BY <1>7 DEF TaskRelease, TaskReleaseRetry
  <2> QED BY <2>2, <2>3, <2>4
<1> QED BY <1>1, <1>2, <1>3, <1>4, <1>5, <1>6, <1>7 DEF CommonNext

LEMMA TypesChat ==
  ASSUME TypeOK, NEW q \in Req, RequestInv(q), ChatNext(q)
  PROVE  TypeOK'
<1> USE DEF TypeOK, PC, Task, Goto, Spawn, Ends, poolVars, holdVars, sweepVars, outVars
<1>1. CASE RoutingCut(q)
  <2>1. RouteCut(q, 0)
    BY <1>1 DEF RoutingCut
  <2>2. /\ path' \in [Req -> Seq(Session)] /\ held' \in [Req -> SUBSET Session]
        /\ lost' \in SUBSET Session /\ UNCHANGED <<active, retired>>
    BY <2>1, RouteCutDoes
  <2> QED BY <1>1, <2>2 DEF RoutingCut
<1>2. CASE Renew(q) \/ FailOver(q) \/ RetryStarts(q)
  BY <1>2 DEF Renew, FailOver, RetryStarts
<1>3. CASE Invalidate(q)
  <2>1. Given(q) = 1
    BY <1>3 DEF Invalidate, RequestInv, Placed
  <2>2. retired' \in SUBSET Session
    BY <1>3, <2>1, SessionOf DEF Invalidate
  <2> QED BY <1>3, <2>2 DEF Invalidate
<1> QED BY <1>1, <1>2, <1>3 DEF ChatNext

LEMMA TypesStream ==
  ASSUME TypeOK, NEW q \in Req, RequestInv(q), StreamNext(q)
  PROVE  TypeOK'
<1> USE DEF TypeOK, PC, Task, Goto, Spawn, Ends, poolVars, holdVars, sweepVars, outVars
<1>1. CASE Iterate(q)
  BY <1>1 DEF Iterate
<1>2. CASE NeverIterated(q)
  BY <1>2 DEF NeverIterated, Forget, Strand
<1>3. ASSUME NEW b \in BOOLEAN, Chunk(q, b) PROVE TypeOK'
  <2>1. Given(q) >= 1
    BY <1>3 DEF Chunk, RequestInv, Placed
  <2>2. Current(q) \in Session
    BY <2>1, SessionOf
  <2> QED BY <1>3, <2>2 DEF Chunk
<1>4. CASE StreamCut(q)
  <2>1. /\ path' \in [Req -> Seq(Session)] /\ held' \in [Req -> SUBSET Session]
        /\ lost' \in SUBSET Session /\ UNCHANGED <<active, retired>>
    BY <1>4, RouteCutDoes DEF StreamCut
  <2>2. tasks' \in [Req -> SUBSET Task]
    BY <1>4, TasksType, RetryTasks DEF StreamCut
  <2> QED BY <1>4, <2>1, <2>2 DEF StreamCut
<1>5. CASE CleanupRelease(q) \/ CleanupReleaseFails(q)
  <2>1. path[q][1] \in Session
    BY <1>5, SessionOf DEF CleanupRelease, CleanupReleaseFails, RequestInv, TasksPlaced
  <2>2. /\ active' \in [Session -> Nat] /\ held' \in [Req -> SUBSET Session]
        /\ lost' \in SUBSET Session /\ retired' = retired
    BY <1>5, <2>1, GiveBackDoes, ForgetDoes DEF CleanupRelease, CleanupReleaseFails
  <2>3. tasks' = [tasks EXCEPT ![q] = (@ \ {"cleanup"}) \cup {"settle"}]
    BY <1>5 DEF CleanupRelease, CleanupReleaseFails
  <2>4. tasks' \in [Req -> SUBSET Task]
    BY <2>3, TasksType
  <2>5. UNCHANGED <<kind, pc, path, entry, sources, billable, good, stranded, stale, swept>>
    BY <1>5 DEF CleanupRelease, CleanupReleaseFails
  <2> QED BY <2>2, <2>4, <2>5
<1>6. CASE CleanupSettle(q) \/ CleanupSettleFails(q)
  <2>1. tasks' \in [Req -> SUBSET Task]
    BY <1>6, TasksType DEF CleanupSettle, CleanupSettleFails
  <2>2. entry' \in [Req -> {"absent", "pending", "posted", "voided"}] /\ stranded' \in SUBSET Req
    BY <1>6 DEF CleanupSettle, CleanupSettleFails, PostEntry, VoidEntry, Strand
  <2>3. UNCHANGED <<kind, pc, path, poolVars, outVars, stale, swept>>
    BY <1>6 DEF CleanupSettle, CleanupSettleFails, PostEntry, VoidEntry, Strand
  <2> QED BY <2>1, <2>2, <2>3
<1>7. CASE StreamEnds(q) \/ StreamFails(q)
  <2>1. tasks' \in [Req -> SUBSET Task]
    BY <1>7, TasksType, RetryTasks DEF StreamEnds, StreamFails
  <2> QED BY <1>7, <2>1 DEF StreamEnds, StreamFails
<1> QED BY <1>1, <1>2, <1>3, <1>4, <1>5, <1>6, <1>7 DEF StreamNext

LEMMA TypesPlain ==
  ASSUME TypeOK, NEW q \in Req, RequestInv(q), PlainNext(q)
  PROVE  TypeOK'
<1> USE DEF TypeOK, PC, Task, Goto, Spawn, Ends, poolVars, holdVars, sweepVars, outVars
<1>1. CASE PlainAnswer(q) \/ PlainFails(q)
  <2>1. tasks' \in [Req -> SUBSET Task]
    BY <1>1, TasksType, RetryTasks DEF PlainAnswer, PlainFails
  <2> QED BY <1>1, <2>1 DEF PlainAnswer, PlainFails
<1>2. CASE PlainCut(q)
  <2>1. /\ path' \in [Req -> Seq(Session)] /\ held' \in [Req -> SUBSET Session]
        /\ lost' \in SUBSET Session /\ UNCHANGED <<active, retired>>
    BY <1>2, RouteCutDoes DEF PlainCut
  <2>2. tasks' \in [Req -> SUBSET Task]
    <3>1. {"void", "release"} \cup RetryTask(q) \in SUBSET Task
      BY RetryTasks
    <3> QED BY <1>2, <3>1, TasksType DEF PlainCut
  <2> QED BY <1>2, <2>1, <2>2 DEF PlainCut
<1>3. CASE RenewalCut(q)
  <2>1. Given(q) = 2
    BY <1>3 DEF RenewalCut, RequestInv, Placed
  <2>2. /\ held' \in [Req -> SUBSET Session] /\ lost' \in SUBSET Session
        /\ UNCHANGED <<active, retired>>
    BY <1>3, <2>1, SessionOf, ForgetDoes DEF RenewalCut
  <2> QED BY <1>3, <2>2 DEF RenewalCut
<1> QED BY <1>1, <1>2, <1>3 DEF PlainNext

LEMMA TypesEmbed ==
  ASSUME TypeOK, NEW q \in Req, RequestInv(q), EmbedNext(q)
  PROVE  TypeOK'
<1> USE DEF TypeOK, PC, Task, Goto, poolVars, holdVars, sweepVars, outVars
<1>1. CASE EmbedAnswer(q) \/ EmbedFails(q)
  BY <1>1 DEF EmbedAnswer, EmbedFails
<1>2. CASE EmbedRelease(q)
  <2>1. Given(q) = 1
    BY <1>2 DEF EmbedRelease, RequestInv, Placed
  <2>2. /\ active' \in [Session -> Nat] /\ held' \in [Req -> SUBSET Session]
        /\ lost' \in SUBSET Session /\ retired' = retired
    BY <1>2, <2>1, SessionOf, GiveBackDoes, ForgetDoes DEF EmbedRelease
  <2> QED BY <1>2, <2>2 DEF EmbedRelease
<1>3. CASE EmbedCut(q)
  <2>1. /\ path' \in [Req -> Seq(Session)] /\ held' \in [Req -> SUBSET Session]
        /\ lost' \in SUBSET Session /\ retired' = retired /\ active' \in [Session -> Nat]
    <3>1. CASE RouteCut(q, 0)
      BY <3>1, RouteCutDoes
    <3>2. CASE Forget(q, held[q]) /\ UNCHANGED path
      BY <3>2, ForgetDoes
    <3>3. CASE (\E s \in held[q] : GiveBack(q, s)) /\ UNCHANGED path
      <4>1. PICK s \in Session : GiveBack(q, s)
        BY <3>3
      <4> QED BY <3>3, <4>1, GiveBackDoes
    <3> QED BY <1>3, <3>1, <3>2, <3>3 DEF EmbedCut
  <2> QED BY <1>3, <2>1 DEF EmbedCut, Strand
<1> QED BY <1>1, <1>2, <1>3 DEF EmbedNext

LEMMA TypesWorld ==
  ASSUME TypeOK, NEW q \in Req, Die(q) \/ Sweep(q)
  PROVE  TypeOK'
<1> USE DEF TypeOK, poolVars, sweepVars, outVars
<1>1. CASE Die(q)
  <2>1. pc' \in [Req -> PC] /\ tasks' \in [Req -> SUBSET Task]
    BY <1>1 DEF Die, Goto, PC
  <2>2. held' \in [Req -> SUBSET Session] /\ lost' \in SUBSET Session /\ UNCHANGED <<active, retired>>
    BY <1>1 DEF Die, Forget
  <2> QED BY <1>1, <2>1, <2>2 DEF Die, Strand
<1>2. CASE Sweep(q)
  BY <1>2 DEF Sweep, SweepSelect, SweepVoid
<1> QED BY <1>1, <1>2

------------------------------------------------------------------------------
(* What a step does to its own request.                                    *)

SamePath(q) ==
  /\ path'[q] = path[q] /\ Given(q)' = Given(q) /\ kind'[q] = kind[q]
  /\ Current(q)' = Current(q)
  /\ \A s : (First(q, s)' <=> First(q, s)) /\ (Second(q, s)' <=> Second(q, s))

LEMMA PathStays ==
  ASSUME NEW q, UNCHANGED <<kind, path>>
  PROVE  SamePath(q)
  BY DEF SamePath, Given, First, Second, Current

KeepsOutput(q) ==
  /\ sources'[q] = sources[q] /\ (q \in billable' <=> q \in billable)
  /\ q \in good => q \in good'
  /\ q \in stranded => q \in stranded'
  /\ q \in swept => q \in swept'
  /\ q \in stale' => q \in stale
Keeps(q) == SamePath(q) /\ held'[q] = held[q] /\ KeepsOutput(q)

(* The handler moves, and nothing is spawned.                              *)
LEMMA TurnKeeps ==
  ASSUME TypeOK, NEW q \in Req, RequestInv(q), Keeps(q), tasks'[q] = tasks[q],
         entry'[q] = entry[q],
         \/ pc[q] = "idle" /\ pc'[q] \in {"holding", "over"}
         \/ pc[q] = "holding" /\ pc'[q] = "over"
         \/ pc[q] = "granted" /\ Given(q) = 2 /\ pc'[q] = "settling"
         \/ pc[q] = "granted" /\ Given(q) # 2 /\ kind[q] = "stream" /\ pc'[q] = "handoff"
         \/ pc[q] = "granted" /\ Given(q) # 2 /\ kind[q] # "stream" /\ pc'[q] = "calling"
         \/ pc[q] = "routing" /\ pc'[q] = "voiding"
         \/ pc[q] \in {"handoff", "settling"} /\ pc'[q] = "calling"
         \/ /\ pc[q] = "calling" /\ pc'[q] \in {"renewing", "failing"}
            /\ kind[q] # "embed" /\ Given(q) = 1 /\ sources[q] = {}
         \/ pc[q] \in {"renewing", "failing"} /\ pc'[q] = "rerouting"
  PROVE  RequestInv(q)'
<1> USE GivenNat DEF RequestInv, Keeps, KeepsOutput, SamePath
<1>1. Placed(q)' /\ TasksPlaced(q)'
  BY DEF Placed, TasksPlaced
<1>2. Accounted(q)'
  BY DEF Placed, Accounted, First, Second
<1>3. Awaited(q)' /\ Served(q)'
  BY DEF Awaited, Served
<1>4. Output(q)'
  BY DEF Output
<1> QED BY <1>1, <1>2, <1>3, <1>4

(* The hold is taken.                                                      *)
LEMMA HoldKeeps ==
  ASSUME TypeOK, NEW q \in Req, RequestInv(q), Keeps(q), tasks'[q] = tasks[q],
         pc[q] = "holding", entry'[q] = "pending",
         \/ pc'[q] = "routing"
         \/ pc'[q] = "over" /\ q \in stranded'
  PROVE  RequestInv(q)'
<1> USE GivenNat DEF RequestInv, Keeps, KeepsOutput, SamePath
<1>1. Placed(q)' /\ TasksPlaced(q)'
  BY DEF Placed, TasksPlaced
<1>2. Accounted(q)'
  BY DEF Placed, TasksPlaced, Accounted, First, Second
<1>3. Awaited(q)' /\ Served(q)'
  BY DEF Placed, TasksPlaced, Awaited, Served
<1>4. Output(q)'
  BY DEF Placed, TasksPlaced, Served, Output
<1> QED BY <1>1, <1>2, <1>3, <1>4

(* The call of a plain or embeddings request ends.                         *)
LEMMA AnswerKeeps ==
  ASSUME TypeOK, NEW q \in Req, RequestInv(q), Keeps(q), entry'[q] = entry[q],
         kind[q] # "stream",
         \/ pc[q] = "calling" /\ pc'[q] = "finalizing" /\ q \in good'
         \/ pc[q] \in {"calling", "failing", "rerouting"} /\ pc'[q] = "voiding",
         tasks'[q] = tasks[q] \cup IF pc[q] = "calling" /\ Given(q) = 2
                                     THEN {"releaseRetry"} ELSE {}
  PROVE  RequestInv(q)'
<1> USE GivenNat DEF RequestInv, Keeps, KeepsOutput, SamePath
<1>1. Placed(q)' /\ TasksPlaced(q)'
  BY DEF Placed, TasksPlaced
<1>2. Accounted(q)'
  BY DEF Placed, TasksPlaced, Accounted, First, Second
<1>3. Awaited(q)' /\ Served(q)'
  BY DEF Placed, TasksPlaced, Awaited, Served
<1>4. Output(q)'
  BY DEF Placed, TasksPlaced, Served, Output
<1> QED BY <1>1, <1>2, <1>3, <1>4

(* The hold is settled, or is stranded, and the handler is over but for    *)
(* its release.                                                            *)
LEMMA SettleKeeps ==
  ASSUME TypeOK, NEW q \in Req, RequestInv(q), Keeps(q),
         \/ /\ pc[q] = "finalizing" /\ pc'[q] = "posted" /\ tasks'[q] = tasks[q]
            /\ entry'[q] = "posted"
         \/ /\ pc[q] \in {"finalizing", "posted", "voiding"}
            /\ \/ entry'[q] = entry[q] /\ (pc[q] = "posted" \/ q \in stranded')
               \/ pc[q] = "voiding" /\ entry'[q] = IF entry[q] = "pending" THEN "voided" ELSE entry[q]
            /\ \/ Given(q) = 0 /\ pc'[q] = "over" /\ tasks'[q] = tasks[q]
               \/ /\ Given(q) # 0 /\ kind[q] = "embed"
                  /\ pc'[q] = "leaving" /\ tasks'[q] = tasks[q]
               \/ /\ Given(q) # 0 /\ kind[q] # "embed"
                  /\ pc'[q] = "over" /\ tasks'[q] = tasks[q] \cup {"release"}
  PROVE  RequestInv(q)'
<1> USE GivenNat DEF RequestInv, Keeps, KeepsOutput, SamePath
<1>1. Placed(q)' /\ TasksPlaced(q)'
  <2>1. Placed(q)'
    BY DEF Placed
  <2>2. pc[q] # "over" /\ tasks[q] \subseteq {"releaseRetry"}
    BY DEF TasksPlaced
  <2>3. TasksPlaced(q)'
    BY <2>2 DEF Placed, TasksPlaced
  <2> QED BY <2>1, <2>3
<1>2. Accounted(q)'
  BY DEF Placed, TasksPlaced, Accounted, First, Second
<1>3. Awaited(q)' /\ Served(q)'
  BY DEF Placed, TasksPlaced, Awaited, Served
<1>4. Output(q)'
  BY DEF Placed, TasksPlaced, Served, Output
<1> QED BY <1>1, <1>2, <1>3, <1>4

(* A shielded task ends, whether it did what it is for or not.             *)
LEMMA TaskKeeps ==
  ASSUME TypeOK, NEW q \in Req, RequestInv(q), SamePath(q), KeepsOutput(q), pc'[q] = pc[q],
         \/ /\ "void" \in tasks[q] /\ tasks'[q] = tasks[q] \ {"void"}
            /\ held'[q] = held[q]
            /\ \/ entry'[q] = IF entry[q] = "pending" THEN "voided" ELSE entry[q]
               \/ entry'[q] = entry[q] /\ q \in stranded'
         \/ /\ "release" \in tasks[q] /\ tasks'[q] = tasks[q] \ {"release"}
            /\ held'[q] = held[q] \ {path[q][1]} /\ entry'[q] = entry[q]
         \/ /\ "releaseRetry" \in tasks[q] /\ tasks'[q] = tasks[q] \ {"releaseRetry"}
            /\ held'[q] = held[q] \ {path[q][2]} /\ entry'[q] = entry[q]
         \/ /\ "cleanup" \in tasks[q]
            /\ tasks'[q] = (tasks[q] \ {"cleanup"}) \cup {"settle"}
            /\ held'[q] = held[q] \ {path[q][1]} /\ entry'[q] = entry[q]
         \/ /\ "settle" \in tasks[q] /\ tasks'[q] = tasks[q] \ {"settle"}
            /\ held'[q] = held[q]
            /\ \/ q \in good \cup billable /\ entry'[q] = "posted"
               \/ /\ q \notin good \cup billable
                  /\ entry'[q] = IF entry[q] = "pending" THEN "voided" ELSE entry[q]
               \/ entry'[q] = entry[q] /\ q \in stranded'
  PROVE  RequestInv(q)'
<1> USE GivenNat DEF RequestInv, Keeps, KeepsOutput, SamePath
<1>1. Placed(q)' /\ TasksPlaced(q)'
  BY DEF Placed, TasksPlaced
<1>2. Accounted(q)'
  BY DEF Placed, TasksPlaced, Accounted, First, Second
<1>3. Awaited(q)' /\ Served(q)'
  BY DEF Placed, TasksPlaced, Awaited, Served
<1>4. Output(q)'
  BY DEF Placed, TasksPlaced, Served, Output
<1> QED BY <1>1, <1>2, <1>3, <1>4

(* The handler ends early, with shielded tasks to release what it holds    *)
(* and to settle its hold; or nothing is held and the hold is stranded.    *)
LEMMA CutKeeps ==
  ASSUME TypeOK, NEW q \in Req, RequestInv(q), KeepsOutput(q), kind'[q] = kind[q],
         entry'[q] = entry[q], pc'[q] = "over", pc[q] # "over",
         path'[q] = path[q] \/ sources[q] = {},
         Given(q)' \in Nat /\ Given(q)' <= Given(q),
         "releaseRetry" \in tasks'[q] => Given(q)' = 2,
         tasks'[q] \cap {"release", "cleanup"} # {} => Given(q)' >= 1,
         "void" \in tasks'[q] /\ kind[q] = "stream" => sources[q] = {},
         q \in stranded' \/ tasks'[q] \cap {"void", "cleanup"} # {},
         \A s \in held'[q] :
           \/ First(q, s)' /\ tasks'[q] \cap {"release", "cleanup"} # {}
           \/ Second(q, s)' /\ "releaseRetry" \in tasks'[q]
  PROVE  RequestInv(q)'
<1> USE GivenNat DEF RequestInv, KeepsOutput
<1>1. Placed(q)' /\ TasksPlaced(q)'
  BY DEF Placed, TasksPlaced
<1>2. Accounted(q)'
  BY DEF Accounted
<1>3. Awaited(q)' /\ Served(q)'
  BY DEF Awaited, Served
<1>4. Output(q)'
  <2>1. CASE path'[q] = path[q]
    BY <2>1 DEF Output, Current, Given
  <2>2. CASE sources[q] = {}
    BY <2>2 DEF Output
  <2> QED BY <2>1, <2>2
<1> QED BY <1>1, <1>2, <1>3, <1>4

------------------------------------------------------------------------------
(* Every step keeps the invariant of its request.                          *)

LEMMA KeepsCommon ==
  ASSUME TypeOK, NEW q \in Req, RequestInv(q), CommonNext(q)
  PROVE  RequestInv(q)'
<1> USE DEF poolVars, holdVars, sweepVars, outVars
<1>1. CASE Arrive(q) \/ RateLimited(q) \/ Routed(q) \/ RouteFails(q)
  <2>1. Keeps(q) /\ tasks'[q] = tasks[q] /\ entry'[q] = entry[q]
    BY <1>1, PathStays DEF Arrive, RateLimited, Routed, RouteFails, Keeps, KeepsOutput
  <2>2. \/ pc[q] = "idle" /\ pc'[q] \in {"holding", "over"}
        \/ pc[q] = "granted" /\ Given(q) = 2 /\ pc'[q] = "settling"
        \/ pc[q] = "granted" /\ Given(q) # 2 /\ kind[q] = "stream" /\ pc'[q] = "handoff"
        \/ pc[q] = "granted" /\ Given(q) # 2 /\ kind[q] # "stream" /\ pc'[q] = "calling"
        \/ pc[q] = "routing" /\ pc'[q] = "voiding"
    BY <1>1 DEF Arrive, RateLimited, Routed, RouteFails, Goto, TypeOK, Given
  <2> QED BY <2>1, <2>2, TurnKeeps
<1>2. CASE TakeHold(q) \/ HoldRefused(q)
  <2>1. Keeps(q) /\ tasks'[q] = tasks[q] /\ pc[q] = "holding"
    BY <1>2, PathStays DEF TakeHold, HoldRefused, Keeps, KeepsOutput
  <2>2. \/ entry'[q] = entry[q] /\ pc'[q] = "over"
        \/ entry'[q] = "pending" /\ pc'[q] = "routing"
        \/ entry'[q] = "pending" /\ pc'[q] = "over" /\ q \in stranded'
    BY <1>2 DEF TakeHold, HoldRefused, Goto, TypeOK
  <2> QED BY <2>1, <2>2, TurnKeeps, HoldKeeps
<1>3. ASSUME NEW s \in Session, Route(q, s) PROVE RequestInv(q)'
  <2>1. /\ held' = [held EXCEPT ![q] = @ \cup {s}]
        /\ Given(q)' = Given(q) + 1 /\ path'[q][Given(q)'] = s
        /\ Given(q) = 1 => path'[q][1] = path[q][1]
    BY <1>3, GrantDoes DEF Route
  <2>2. /\ pc[q] \in {"routing", "rerouting"} /\ pc'[q] = "granted"
        /\ held'[q] = held[q] \cup {s}
        /\ kind'[q] = kind[q] /\ tasks'[q] = tasks[q] /\ entry'[q] = entry[q]
        /\ KeepsOutput(q)
    BY <1>3, <2>1 DEF Route, Goto, TypeOK, KeepsOutput
  <2>3. Placed(q)' /\ TasksPlaced(q)'
    BY <2>1, <2>2, GivenNat DEF RequestInv, Placed, TasksPlaced
  <2>4. Accounted(q)'
    BY <2>1, <2>2, GivenNat DEF RequestInv, Placed, Accounted, First, Second
  <2>5. Awaited(q)' /\ Served(q)' /\ Output(q)'
    BY <2>2 DEF RequestInv, Awaited, Served, Output, KeepsOutput
  <2> QED BY <2>3, <2>4, <2>5 DEF RequestInv
<1>4. CASE Finalize(q)
  <2>1. Keeps(q)
    BY <1>4, PathStays DEF Finalize, PostEntry, Keeps, KeepsOutput
  <2>2. /\ pc[q] = "finalizing" /\ pc'[q] = "posted" /\ tasks'[q] = tasks[q]
        /\ entry'[q] = "posted"
    BY <1>4 DEF Finalize, PostEntry, Goto, TypeOK
  <2> QED BY <2>1, <2>2, SettleKeeps
<1>5. CASE FinalizeFails(q) \/ Respond(q) \/ Void(q) \/ VoidFails(q)
  <2>1. Keeps(q)
    BY <1>5, PathStays
    DEF FinalizeFails, Respond, Void, VoidFails, VoidEntry, Strand, Keeps, KeepsOutput
  <2>2. /\ pc[q] \in {"finalizing", "posted", "voiding"}
        /\ \/ entry'[q] = entry[q] /\ (pc[q] = "posted" \/ q \in stranded')
           \/ pc[q] = "voiding" /\ entry'[q] = IF entry[q] = "pending" THEN "voided" ELSE entry[q]
    BY <1>5 DEF FinalizeFails, Respond, Void, VoidFails, VoidEntry, Strand, TypeOK
  <2>3. Leaving(q)
    BY <1>5 DEF FinalizeFails, Respond, Void, VoidFails
  <2> QED BY <2>1, <2>2, <2>3, LeavingDoes, SettleKeeps
<1>6. CASE TaskVoid(q)
  <2>1. /\ SamePath(q) /\ KeepsOutput(q) /\ pc'[q] = pc[q] /\ held'[q] = held[q]
        /\ "void" \in tasks[q]
    BY <1>6, PathStays DEF TaskVoid, VoidEntry, Strand, KeepsOutput
  <2>2. tasks'[q] = tasks[q] \ {"void"}
    BY <1>6 DEF TaskVoid, TypeOK
  <2>3. \/ entry'[q] = IF entry[q] = "pending" THEN "voided" ELSE entry[q]
        \/ entry'[q] = entry[q] /\ q \in stranded'
    BY <1>6 DEF TaskVoid, VoidEntry, Strand, TypeOK
  <2> QED BY <2>1, <2>2, <2>3, TaskKeeps
<1>7. CASE TaskRelease(q)
  <2>1. /\ SamePath(q) /\ KeepsOutput(q) /\ pc'[q] = pc[q] /\ entry'[q] = entry[q]
        /\ "release" \in tasks[q]
    BY <1>7, PathStays DEF TaskRelease, KeepsOutput
  <2>2. tasks'[q] = tasks[q] \ {"release"} /\ held'[q] = held[q] \ {path[q][1]}
    BY <1>7 DEF TaskRelease, GiveBack, Forget, TypeOK
  <2> QED BY <2>1, <2>2, TaskKeeps
<1>8. CASE TaskReleaseRetry(q)
  <2>1. /\ SamePath(q) /\ KeepsOutput(q) /\ pc'[q] = pc[q] /\ entry'[q] = entry[q]
        /\ "releaseRetry" \in tasks[q]
    BY <1>8, PathStays DEF TaskReleaseRetry, KeepsOutput
  <2>2. tasks'[q] = tasks[q] \ {"releaseRetry"} /\ held'[q] = held[q] \ {path[q][2]}
    BY <1>8 DEF TaskReleaseRetry, GiveBack, Forget, TypeOK
  <2> QED BY <2>1, <2>2, TaskKeeps
<1> QED BY <1>1, <1>2, <1>3, <1>4, <1>5, <1>6, <1>7, <1>8 DEF CommonNext

(* A cut off route_request, with the tasks T that the handler leaves.      *)
LEMMA RouteCutKeeps ==
  ASSUME TypeOK, NEW q \in Req, RequestInv(q), NEW n \in {0, 1}, RouteCut(q, n),
         KeepsOutput(q), kind'[q] = kind[q], entry'[q] = entry[q], pc'[q] = "over",
         tasks'[q] \subseteq tasks[q] \cup {"void", "cleanup", "release"},
         n = 0 => tasks'[q] \cap {"release", "cleanup"} = {},
         n = 1 => tasks'[q] \cap {"release", "cleanup"} # {},
         q \in stranded' \/ tasks'[q] \cap {"void", "cleanup"} # {}
  PROVE  RequestInv(q)'
<1>1. /\ Given(q)' = n
      /\ \A s \in held'[q] : n = 1 /\ s = path[q][1]
      /\ n = 1 => path'[q][1] = path[q][1]
      /\ pc[q] \in {"routing", "granted", "rerouting"}
      /\ Given(q)' <= Given(q)
  BY RouteCutDoes, GivenNat
<1>2. sources[q] = {}
  BY <1>1 DEF RequestInv, Output
<1>3. "releaseRetry" \notin tasks'[q]
  BY <1>1, RouteCutDoes, GivenNat DEF RequestInv, TasksPlaced, Placed
<1>4. \A s \in held'[q] : First(q, s)' /\ tasks'[q] \cap {"release", "cleanup"} # {}
  BY <1>1 DEF First
<1> QED BY <1>1, <1>2, <1>3, <1>4, CutKeeps

LEMMA KeepsChat ==
  ASSUME TypeOK, NEW q \in Req, RequestInv(q), ChatNext(q)
  PROVE  RequestInv(q)'
<1> USE DEF poolVars, holdVars, sweepVars, outVars
<1>1. CASE RoutingCut(q)
  <2>1. RouteCut(q, 0) /\ kind'[q] = kind[q] /\ entry'[q] = entry[q] /\ KeepsOutput(q)
    BY <1>1 DEF RoutingCut, KeepsOutput
  <2>2. pc'[q] = "over" /\ tasks'[q] = tasks[q] \cup {"void"}
    BY <1>1 DEF RoutingCut, Ends, Goto, Spawn, TypeOK
  <2>3. tasks[q] \cap {"release", "cleanup"} = {}
    BY <2>1, RouteCutDoes DEF RequestInv, TasksPlaced
  <2> QED BY <2>1, <2>2, <2>3, RouteCutKeeps
<1>2. CASE Renew(q) \/ FailOver(q) \/ Invalidate(q) \/ RetryStarts(q)
  <2>1. Keeps(q) /\ tasks'[q] = tasks[q] /\ entry'[q] = entry[q]
    BY <1>2, PathStays DEF Renew, FailOver, Invalidate, RetryStarts, Keeps, KeepsOutput
  <2>2. \/ pc[q] \in {"handoff", "settling"} /\ pc'[q] = "calling"
        \/ /\ pc[q] = "calling" /\ pc'[q] \in {"renewing", "failing"}
           /\ kind[q] # "embed" /\ Given(q) = 1 /\ sources[q] = {}
        \/ pc[q] \in {"renewing", "failing"} /\ pc'[q] = "rerouting"
    BY <1>2 DEF Renew, FailOver, Invalidate, RetryStarts, MayRecover, Goto, TypeOK, Given
  <2> QED BY <2>1, <2>2, TurnKeeps
<1> QED BY <1>1, <1>2 DEF ChatNext

LEMMA RetryTaskIs ==
  ASSUME NEW q
  PROVE  RetryTask(q) = IF pc[q] \in {"calling", "settling"} /\ Given(q) = 2
                          THEN {"releaseRetry"} ELSE {}
  BY DEF RetryTask, OwnsRetry, Given

(* A generator that is over spawns the cleanup and its retry's release.    *)
LEMMA StreamOver ==
  ASSUME TypeOK, NEW q \in Req, RequestInv(q), SamePath(q), KeepsOutput(q),
         held'[q] = held[q], entry'[q] = entry[q],
         pc[q] \in {"calling", "renewing", "failing", "rerouting", "settling"},
         pc'[q] = "over",
         tasks'[q] = tasks[q] \cup {"cleanup"}
                       \cup IF Given(q) = 2 THEN {"releaseRetry"} ELSE {}
  PROVE  RequestInv(q)'
<1>1. Given(q) >= 1 /\ Given(q) \in Nat
  BY GivenNat DEF RequestInv, Placed
<1>2. "void" \notin tasks'[q] /\ ("releaseRetry" \in tasks'[q] => Given(q) = 2)
  BY DEF RequestInv, TasksPlaced
<1>3. \A s \in held[q] : First(q, s) \/ (Second(q, s) /\ "releaseRetry" \in tasks'[q])
  BY DEF RequestInv, Accounted, Second
<1> QED BY <1>1, <1>2, <1>3, CutKeeps DEF SamePath

LEMMA KeepsStream ==
  ASSUME TypeOK, NEW q \in Req, RequestInv(q), StreamNext(q)
  PROVE  RequestInv(q)'
<1> USE GivenNat DEF poolVars, holdVars, sweepVars, outVars
<1>1. CASE Iterate(q)
  <2>1. Keeps(q) /\ tasks'[q] = tasks[q] /\ entry'[q] = entry[q]
    BY <1>1, PathStays DEF Iterate, Keeps, KeepsOutput
  <2>2. pc[q] = "handoff" /\ pc'[q] = "calling"
    BY <1>1 DEF Iterate, Goto, TypeOK
  <2> QED BY <2>1, <2>2, TurnKeeps
<1>2. CASE NeverIterated(q)
  <2>1. /\ SamePath(q) /\ KeepsOutput(q) /\ entry'[q] = entry[q] /\ pc[q] = "handoff"
        /\ tasks'[q] = tasks[q]
    BY <1>2, PathStays DEF NeverIterated, Strand, KeepsOutput
  <2>2. pc'[q] = "over" /\ held'[q] = {} /\ q \in stranded'
    BY <1>2 DEF NeverIterated, Forget, Strand, Goto, TypeOK
  <2>3. tasks[q] = {}
    BY <2>1 DEF RequestInv, TasksPlaced, Placed
  <2> QED BY <2>1, <2>2, <2>3, CutKeeps DEF SamePath
<1>3. ASSUME NEW b \in BOOLEAN, Chunk(q, b) PROVE RequestInv(q)'
  <2>1. /\ SamePath(q) /\ pc[q] = "calling" /\ pc'[q] = pc[q] /\ tasks'[q] = tasks[q]
        /\ entry'[q] = entry[q] /\ held'[q] = held[q] /\ kind[q] = "stream"
        /\ good' = good /\ stranded' = stranded /\ swept' = swept /\ stale' = stale
    BY <1>3, PathStays DEF Chunk
  <2>2. /\ sources'[q] = sources[q] \cup {Current(q)}
        /\ billable \subseteq billable'
    BY <1>3 DEF Chunk, TypeOK
  <2>3. Placed(q)' /\ TasksPlaced(q)'
    BY <2>1 DEF RequestInv, Placed, TasksPlaced, SamePath
  <2>4. Accounted(q)'
    BY <2>1 DEF RequestInv, Accounted, SamePath
  <2>5. Awaited(q)' /\ Served(q)'
    BY <2>1, <2>2 DEF RequestInv, Awaited, Served
  <2>6. Output(q)'
    BY <2>1, <2>2 DEF RequestInv, Placed, TasksPlaced, Output, SamePath
  <2> QED BY <2>3, <2>4, <2>5, <2>6 DEF RequestInv
<1>4. CASE StreamEnds(q) \/ StreamFails(q)
  <2>1. /\ SamePath(q) /\ KeepsOutput(q) /\ entry'[q] = entry[q] /\ held'[q] = held[q]
        /\ pc[q] \in {"calling", "failing", "rerouting"} /\ kind[q] = "stream"
    BY <1>4, PathStays DEF StreamEnds, StreamFails, KeepsOutput
  <2>2. pc'[q] = "over" /\ tasks'[q] = tasks[q] \cup {"cleanup"} \cup RetryTask(q)
    BY <1>4 DEF StreamEnds, StreamFails, StreamTasks, Ends, Goto, Spawn, TypeOK
  <2>3. RetryTask(q) = IF Given(q) = 2 THEN {"releaseRetry"} ELSE {}
    BY <2>1, RetryTaskIs DEF RequestInv, Placed
  <2> QED BY <2>1, <2>2, <2>3, StreamOver
<1>5. CASE StreamCut(q)
  <2>1. /\ KeepsOutput(q) /\ entry'[q] = entry[q] /\ kind' = kind /\ kind[q] = "stream"
    BY <1>5 DEF StreamCut, KeepsOutput
  <2>2. pc'[q] = "over" /\ tasks'[q] = tasks[q] \cup {"cleanup"} \cup RetryTask(q)
    BY <1>5 DEF StreamCut, StreamTasks, Ends, Goto, Spawn, TypeOK
  <2>3. CASE RouteCut(q, 1)
    <3>1. RetryTask(q) = {}
      BY <2>3, RouteCutDoes DEF RetryTask, OwnsRetry
    <3> QED BY <2>1, <2>2, <2>3, <3>1, RouteCutKeeps
  <2>4. CASE /\ pc[q] \in {"calling", "renewing", "failing", "settling"}
             /\ UNCHANGED <<path, poolVars>>
    <3>1. RetryTask(q) = IF Given(q) = 2 THEN {"releaseRetry"} ELSE {}
      BY <2>4, RetryTaskIs DEF RequestInv, Placed
    <3>2. SamePath(q) /\ held'[q] = held[q]
      BY <2>1, <2>4, PathStays
    <3> QED BY <2>1, <2>2, <2>4, <3>1, <3>2, StreamOver
  <2> QED BY <1>5, <2>3, <2>4 DEF StreamCut
<1>6. CASE CleanupRelease(q) \/ CleanupReleaseFails(q)
  <2>1. /\ SamePath(q) /\ KeepsOutput(q) /\ pc'[q] = pc[q] /\ entry'[q] = entry[q]
        /\ "cleanup" \in tasks[q]
    BY <1>6, PathStays DEF CleanupRelease, CleanupReleaseFails, KeepsOutput
  <2>2. /\ tasks'[q] = (tasks[q] \ {"cleanup"}) \cup {"settle"}
        /\ held'[q] = held[q] \ {path[q][1]}
    BY <1>6 DEF CleanupRelease, CleanupReleaseFails, GiveBack, Forget, TypeOK
  <2> QED BY <2>1, <2>2, TaskKeeps
<1>7. CASE CleanupSettle(q) \/ CleanupSettleFails(q)
  <2>1. /\ SamePath(q) /\ KeepsOutput(q) /\ pc'[q] = pc[q] /\ held'[q] = held[q]
        /\ "settle" \in tasks[q]
    BY <1>7, PathStays
    DEF CleanupSettle, CleanupSettleFails, PostEntry, VoidEntry, Strand, KeepsOutput
  <2>2. tasks'[q] = tasks[q] \ {"settle"}
    BY <1>7 DEF CleanupSettle, CleanupSettleFails, TypeOK
  <2>3. \/ q \in good \cup billable /\ entry'[q] = "posted"
        \/ /\ q \notin good \cup billable
           /\ entry'[q] = IF entry[q] = "pending" THEN "voided" ELSE entry[q]
        \/ entry'[q] = entry[q] /\ q \in stranded'
    BY <1>7
    DEF CleanupSettle, CleanupSettleFails, Billable, PostEntry, VoidEntry, Strand, TypeOK
  <2> QED BY <2>1, <2>2, <2>3, TaskKeeps
<1> QED BY <1>1, <1>2, <1>3, <1>4, <1>5, <1>6, <1>7 DEF StreamNext

LEMMA KeepsPlain ==
  ASSUME TypeOK, NEW q \in Req, RequestInv(q), PlainNext(q)
  PROVE  RequestInv(q)'
<1> USE GivenNat DEF poolVars, holdVars, sweepVars, outVars
<1>1. CASE PlainAnswer(q) \/ PlainFails(q)
  <2>1. Keeps(q) /\ entry'[q] = entry[q] /\ kind[q] # "stream"
    BY <1>1, PathStays DEF PlainAnswer, PlainFails, Keeps, KeepsOutput
  <2>2. tasks'[q] = tasks[q] \cup RetryTask(q)
    BY <1>1 DEF PlainAnswer, PlainFails, Spawn, TypeOK
  <2>3. RetryTask(q) = IF pc[q] = "calling" /\ Given(q) = 2 THEN {"releaseRetry"} ELSE {}
    BY <1>1, RetryTaskIs DEF PlainAnswer, PlainFails
  <2>4. \/ pc[q] = "calling" /\ pc'[q] = "finalizing" /\ q \in good'
        \/ pc[q] \in {"calling", "failing", "rerouting"} /\ pc'[q] = "voiding"
    BY <1>1 DEF PlainAnswer, PlainFails, Goto, TypeOK
  <2> QED BY <2>1, <2>2, <2>3, <2>4, AnswerKeeps
<1>2. CASE PlainCut(q)
  <2>1. /\ KeepsOutput(q) /\ entry'[q] = entry[q] /\ kind' = kind /\ kind[q] = "plain"
        /\ Given(q) # 0
    BY <1>2 DEF PlainCut, KeepsOutput, Given, TypeOK
  <2>2. pc'[q] = "over" /\ tasks'[q] = tasks[q] \cup {"void", "release"} \cup RetryTask(q)
    BY <1>2 DEF PlainCut, Ends, Goto, Spawn, TypeOK
  <2>3. CASE RouteCut(q, 1)
    <3>1. RetryTask(q) = {}
      BY <2>3, RouteCutDoes DEF RetryTask, OwnsRetry
    <3> QED BY <2>1, <2>2, <2>3, <3>1, RouteCutKeeps
  <2>4. CASE /\ pc[q] \in {"calling", "renewing", "failing", "settling", "finalizing", "posted",
                           "voiding"}
             /\ UNCHANGED <<path, poolVars>>
    <3>1. RetryTask(q) = IF pc[q] \in {"calling", "settling"} /\ Given(q) = 2
                           THEN {"releaseRetry"} ELSE {}
      BY RetryTaskIs
    <3>2. SamePath(q) /\ held'[q] = held[q]
      BY <2>1, <2>4, PathStays
    <3>3. \A s \in held[q] :
            First(q, s) \/ (Second(q, s) /\ "releaseRetry" \in tasks'[q])
      BY <2>2, <2>4, <3>1 DEF RequestInv, Accounted, Placed, First, Second
    <3>4. "releaseRetry" \in tasks'[q] => Given(q) = 2
      BY <2>2, <3>1 DEF RequestInv, TasksPlaced
    <3> QED BY <2>1, <2>2, <2>4, <3>2, <3>3, <3>4, CutKeeps DEF SamePath
  <2> QED BY <1>2, <2>3, <2>4 DEF PlainCut
<1>3. CASE RenewalCut(q)
  <2>1. /\ SamePath(q) /\ KeepsOutput(q) /\ entry'[q] = entry[q] /\ kind[q] = "plain"
        /\ pc[q] = "settling"
    BY <1>3, PathStays DEF RenewalCut, KeepsOutput
  <2>2. /\ pc'[q] = "over" /\ tasks'[q] = tasks[q] \cup {"void", "release"}
        /\ held'[q] = held[q] \ {Current(q)}
    BY <1>3 DEF RenewalCut, Forget, Ends, Goto, Spawn, TypeOK
  <2>3. Given(q) = 2 /\ Current(q) = path[q][2]
    BY <2>1 DEF RequestInv, Placed, Given, Current
  <2>4. \A s \in held'[q] : First(q, s)
    BY <2>2, <2>3 DEF RequestInv, Accounted, First, Second
  <2>5. "releaseRetry" \in tasks'[q] => Given(q) = 2
    BY <2>3
  <2> QED BY <2>1, <2>2, <2>3, <2>4, CutKeeps DEF SamePath
<1> QED BY <1>1, <1>2, <1>3 DEF PlainNext

LEMMA KeepsEmbed ==
  ASSUME TypeOK, NEW q \in Req, RequestInv(q), EmbedNext(q)
  PROVE  RequestInv(q)'
<1> USE GivenNat DEF poolVars, holdVars, sweepVars, outVars
<1>1. CASE EmbedAnswer(q) \/ EmbedFails(q)
  <2>1. /\ Keeps(q) /\ entry'[q] = entry[q] /\ kind[q] = "embed" /\ tasks'[q] = tasks[q]
        /\ pc[q] = "calling"
    BY <1>1, PathStays DEF EmbedAnswer, EmbedFails, Keeps, KeepsOutput
  <2>2. (pc'[q] = "finalizing" /\ q \in good') \/ pc'[q] = "voiding"
    BY <1>1 DEF EmbedAnswer, EmbedFails, Goto, TypeOK
  <2>3. Given(q) # 2
    BY <2>1 DEF RequestInv, Placed
  <2> QED BY <2>1, <2>2, <2>3, AnswerKeeps
<1>2. CASE EmbedRelease(q)
  <2>1. /\ SamePath(q) /\ KeepsOutput(q) /\ entry'[q] = entry[q] /\ tasks'[q] = tasks[q]
        /\ pc[q] = "leaving"
    BY <1>2, PathStays DEF EmbedRelease, KeepsOutput
  <2>2. pc'[q] = "over" /\ held'[q] = held[q] \ {path[q][1]}
    BY <1>2 DEF EmbedRelease, GiveBack, Forget, Goto, TypeOK
  <2>3. held'[q] = {} /\ tasks[q] = {}
    BY <2>1, <2>2 DEF RequestInv, Accounted, Placed, TasksPlaced, First, Second
  <2>4. Placed(q)' /\ TasksPlaced(q)'
    BY <2>1, <2>2, <2>3 DEF RequestInv, Placed, TasksPlaced, SamePath
  <2>5. Accounted(q)'
    BY <2>3 DEF Accounted
  <2>6. Awaited(q)' /\ Served(q)' /\ Output(q)'
    BY <2>1, <2>2, <2>3
    DEF RequestInv, Placed, Awaited, Served, Output, KeepsOutput, SamePath
  <2> QED BY <2>4, <2>5, <2>6 DEF RequestInv
<1>3. CASE EmbedCut(q)
  <2>1. /\ KeepsOutput(q) /\ entry'[q] = entry[q] /\ kind' = kind /\ kind[q] = "embed"
        /\ tasks'[q] = tasks[q] /\ q \in stranded'
    BY <1>3 DEF EmbedCut, Strand, KeepsOutput
  <2>2. pc'[q] = "over"
    BY <1>3 DEF EmbedCut, Goto, TypeOK
  <2>3. CASE RouteCut(q, 0)
    <3>1. tasks[q] \cap {"release", "cleanup"} = {}
      BY <2>3, RouteCutDoes DEF RequestInv, TasksPlaced
    <3> QED BY <2>1, <2>2, <2>3, <3>1, RouteCutKeeps
  <2>4. CASE /\ pc[q] \in {"calling", "finalizing", "posted"}
             /\ Forget(q, held[q]) \/ \E s \in held[q] : GiveBack(q, s)
             /\ UNCHANGED path
    <3>1. SamePath(q)
      BY <2>1, <2>4, PathStays
    <3>2. \A s \in held[q] : s = path[q][1]
      BY <2>1 DEF RequestInv, Accounted, Placed, First, Second
    <3>3. held'[q] = {}
      <4>1. held \in [Req -> SUBSET Session]
        BY DEF TypeOK
      <4>2. CASE Forget(q, held[q])
        BY <4>1, <4>2 DEF Forget
      <4>3. CASE \E s \in held[q] : GiveBack(q, s)
        <5>1. PICK s \in held[q] : GiveBack(q, s)
          BY <4>3
        <5>2. held'[q] = held[q] \ {s}
          BY <4>1, <5>1 DEF GiveBack, Forget
        <5> QED BY <3>2, <5>1, <5>2
      <4> QED BY <2>4, <4>2, <4>3
    <3>4. tasks[q] = {}
      BY <2>1, <2>4 DEF RequestInv, Placed, TasksPlaced
    <3> QED BY <2>1, <2>2, <2>4, <3>1, <3>3, <3>4, CutKeeps DEF SamePath
  <2> QED BY <1>3, <2>3, <2>4 DEF EmbedCut
<1> QED BY <1>1, <1>2, <1>3 DEF EmbedNext

LEMMA KeepsWorld ==
  ASSUME TypeOK, NEW q \in Req, RequestInv(q), Die(q) \/ Sweep(q)
  PROVE  RequestInv(q)'
<1> USE GivenNat DEF poolVars, holdVars, sweepVars, outVars
<1>1. CASE Die(q)
  <2>1. SamePath(q) /\ KeepsOutput(q) /\ entry'[q] = entry[q]
    BY <1>1, PathStays DEF Die, Strand, KeepsOutput
  <2>2. pc'[q] = "over" /\ tasks'[q] = {} /\ held'[q] = {} /\ q \in stranded'
    BY <1>1 DEF Die, Forget, Strand, Goto, TypeOK
  <2>3. Placed(q)' /\ TasksPlaced(q)' /\ Accounted(q)'
    BY <2>1, <2>2 DEF RequestInv, Placed, TasksPlaced, Accounted, SamePath
  <2>4. Awaited(q)' /\ Served(q)'
    BY <2>1, <2>2 DEF RequestInv, Awaited, Served, KeepsOutput
  <2>5. Output(q)'
    BY <2>1, <2>2 DEF RequestInv, Output, KeepsOutput, SamePath
  <2> QED BY <2>3, <2>4, <2>5 DEF RequestInv
<1>2. CASE Sweep(q)
  <2>1. /\ SamePath(q) /\ held'[q] = held[q] /\ pc'[q] = pc[q] /\ tasks'[q] = tasks[q]
        /\ UNCHANGED <<sources, billable, good, stranded>>
    BY <1>2, PathStays DEF Sweep, SweepSelect, SweepVoid
  <2>2. \/ entry[q] = "pending" /\ entry'[q] = entry[q] /\ swept' = swept
        \/ q \in stale /\ entry'[q] = "voided" /\ q \in swept' /\ q \notin stale'
    BY <1>2 DEF Sweep, SweepSelect, SweepVoid, TypeOK
  <2>3. Placed(q)' /\ TasksPlaced(q)' /\ Accounted(q)'
    BY <2>1 DEF RequestInv, Placed, TasksPlaced, Accounted, SamePath
  <2>4. Awaited(q)' /\ Served(q)'
    BY <2>1, <2>2 DEF RequestInv, Awaited, Served
  <2>5. Output(q)'
    BY <2>1, <2>2 DEF RequestInv, Output, SamePath
  <2> QED BY <2>3, <2>4, <2>5 DEF RequestInv
<1> QED BY <1>1, <1>2

------------------------------------------------------------------------------
(* The others.                                                             *)

RequestStep(q) ==
  \/ CommonNext(q) \/ ChatNext(q) \/ StreamNext(q) \/ PlainNext(q) \/ EmbedNext(q)
  \/ Die(q) \/ Sweep(q)

LEMMA SelfStep ==
  ASSUME TypeOK, NEW q \in Req, RequestInv(q), RequestStep(q)
  PROVE  TypeOK' /\ RequestInv(q)'
  BY TypesCommon, TypesChat, TypesStream, TypesPlain, TypesEmbed, TypesWorld,
     KeepsCommon, KeepsChat, KeepsStream, KeepsPlain, KeepsEmbed, KeepsWorld
  DEF RequestStep

(* A step of q changes no state of r.                                      *)
LEMMA OthersStep ==
  ASSUME TypeOK, NEW q \in Req, RequestInv(q), RequestStep(q), NEW r \in Req \ {q}
  PROVE  Same(r)
<1> USE DEF Same, TypeOK, Goto, Spawn, Ends, GiveBack, Forget, Strand, PostEntry, VoidEntry,
        poolVars, holdVars, sweepVars, outVars
<1>1. CASE Arrive(q) \/ RateLimited(q) \/ TakeHold(q) \/ HoldRefused(q) \/ Routed(q)
           \/ RouteFails(q) \/ Finalize(q)
  BY <1>1 DEF Arrive, RateLimited, TakeHold, HoldRefused, Routed, RouteFails, Finalize
<1>2. ASSUME NEW s \in Session, Route(q, s) PROVE Same(r)
  BY <1>2 DEF Route, Grant
<1>3. CASE FinalizeFails(q) \/ Respond(q) \/ Void(q) \/ VoidFails(q)
  <2>1. Leaving(q)
    BY <1>3 DEF FinalizeFails, Respond, Void, VoidFails
  <2>2. pc'[r] = pc[r] /\ tasks'[r] = tasks[r]
    BY <2>1, LeavingDoes
  <2> QED BY <1>3, <2>2 DEF FinalizeFails, Respond, Void, VoidFails
<1>4. CASE TaskVoid(q) \/ TaskRelease(q) \/ TaskReleaseRetry(q)
  BY <1>4 DEF TaskVoid, TaskRelease, TaskReleaseRetry
<1>5. CASE Renew(q) \/ FailOver(q) \/ Invalidate(q) \/ RetryStarts(q)
  BY <1>5 DEF Renew, FailOver, Invalidate, RetryStarts
<1>6. CASE RoutingCut(q) \/ StreamCut(q) \/ PlainCut(q) \/ EmbedCut(q)
  <2>1. path'[r] = path[r] /\ held'[r] = held[r]
    BY <1>6, RouteCutDoes DEF RoutingCut, StreamCut, PlainCut, EmbedCut
  <2> QED BY <1>6, <2>1 DEF RoutingCut, StreamCut, PlainCut, EmbedCut
<1>7. CASE Iterate(q) \/ NeverIterated(q) \/ (\E b \in BOOLEAN : Chunk(q, b))
           \/ StreamEnds(q) \/ StreamFails(q)
  BY <1>7 DEF Iterate, NeverIterated, Chunk, StreamEnds, StreamFails
<1>8. CASE CleanupRelease(q) \/ CleanupReleaseFails(q) \/ CleanupSettle(q)
           \/ CleanupSettleFails(q)
  BY <1>8 DEF CleanupRelease, CleanupReleaseFails, CleanupSettle, CleanupSettleFails
<1>9. CASE PlainAnswer(q) \/ PlainFails(q) \/ RenewalCut(q)
           \/ EmbedAnswer(q) \/ EmbedFails(q) \/ EmbedRelease(q) \/ Die(q) \/ Sweep(q)
  BY <1>9 DEF PlainAnswer, PlainFails, RenewalCut, EmbedAnswer, EmbedFails, EmbedRelease,
          Die, Sweep, SweepSelect, SweepVoid
<1> QED
  BY <1>1, <1>2, <1>3, <1>4, <1>5, <1>6, <1>7, <1>8, <1>9
  DEF RequestStep, CommonNext, ChatNext, StreamNext, PlainNext, EmbedNext

LEMMA InvStep == IInv /\ [Next]_vars => IInv'
<1> SUFFICES ASSUME IInv, [Next]_vars PROVE IInv'
  OBVIOUS
<1>1. ASSUME NEW q \in Req, RequestStep(q) PROVE IInv'
  <2>1. TypeOK' /\ RequestInv(q)'
    BY <1>1, SelfStep DEF IInv
  <2>2. \A r \in Req \ {q} : RequestInv(r)'
    BY <1>1, OthersStep, Frame DEF IInv
  <2> QED BY <2>1, <2>2 DEF IInv
<1>2. CASE UNCHANGED vars
  <2>1. TypeOK'
    BY <1>2 DEF IInv, TypeOK, vars, poolVars, holdVars, sweepVars, outVars
  <2>2. \A r \in Req : Same(r)
    BY <1>2 DEF Same, vars, poolVars, holdVars, sweepVars, outVars
  <2> QED BY <2>1, <2>2, Frame DEF IInv
<1> QED BY <1>1, <1>2 DEF Next, RequestStep

------------------------------------------------------------------------------
(* Theorems.                                                               *)

(* The invariant of the module is inductive.                               *)
THEOREM Inductive == Spec => []IInv
  BY InitInv, InvStep, PTL DEF Spec

(* When nothing of a request runs, its hold is settled and nothing is held.*)
THEOREM AllSettled == Spec => []Settled
<1>1. IInv => Settled
  BY DEF IInv, RequestInv, Settled, Over, Awaited, Accounted
<1> QED BY Inductive, <1>1, PTL

(* No cleanup makes delivered output free.                                 *)
THEOREM DeliveredCharged == Spec => []DeliveredIsCharged
<1>1. IInv => DeliveredIsCharged
  BY DEF IInv, RequestInv, Output, DeliveredIsCharged
<1> QED BY Inductive, <1>1, PTL

(* What is charged was served.                                             *)
THEOREM ChargedServed == Spec => []ChargedWasServed
<1>1. IInv => ChargedWasServed
  BY DEF IInv, RequestInv, Served, ChargedWasServed
<1> QED BY Inductive, <1>1, PTL

(* The output of one request is of one session.                            *)
THEOREM OneSourceOnly == Spec => []OneSource
<1>1. ASSUME IInv, NEW r \in Req PROVE Cardinality(sources[r]) <= 1
  <2>1. CASE sources[r] = {}
    BY <2>1, FS_EmptySet
  <2>2. CASE sources[r] # {}
    <3>1. sources[r] = {Current(r)}
      BY <1>1, <2>2 DEF IInv, RequestInv, Output
    <3>2. Cardinality({Current(r)}) = 1
      BY FS_Singleton
    <3> QED BY <3>1, <3>2
  <2> QED BY <2>1, <2>2
<1>2. IInv => OneSource
  BY <1>1 DEF OneSource
<1> QED BY Inductive, <1>2, PTL

------------------------------------------------------------------------------
(* The completion and embedding handlers implement SessionLease: whatever  *)
(* they give back or lose, they hold.  Exact relates what a request holds  *)
(* to where it stands and to the tasks it left; each step of its own       *)
(* request keeps it and asks one thing of the pool at most (Asks).  Lent   *)
(* relates the slots to their holders; it is what makes the step asked for *)
(* a step of the lease.                                                    *)

LInv == IInv /\ LeaseInv

LEMMA InitLease == Init => LeaseInv
<1> SUFFICES ASSUME Init PROVE LeaseInv
  OBVIOUS
<1>1. \A r \in Req : Given(r) = 0
  BY DEF Init, Given
<1>2. ASSUME NEW r \in Req PROVE Exact(r)
  BY <1>1 DEF Init, Exact, OwesFirst, OwesSecond
<1>3. ASSUME NEW s \in Session PROVE Lent(s)
  BY DEF Init, Lent
<1> QED BY <1>2, <1>3 DEF LeaseInv

------------------------------------------------------------------------------
(* What a request holds.                                                   *)

(* The request has the sessions it had and owes the same ones.             *)
LEMMA OwesSame ==
  ASSUME NEW q \in Req, Exact(q), SamePath(q), held'[q] = held[q],
         OwesFirst(q)' <=> OwesFirst(q), OwesSecond(q)' <=> OwesSecond(q),
         ~({"release", "cleanup"} \subseteq tasks'[q])
  PROVE  Exact(q)'
<1>1. OwesFirst(q) /\ OwesSecond(q) => path'[q] = path[q]
  BY DEF SamePath
<1> QED BY <1>1 DEF Exact, SamePath

LEMMA FrameExact ==
  ASSUME NEW r \in Req, Exact(r), Same(r)
  PROVE  Exact(r)'
  BY DEF Exact, Same, OwesFirst, OwesSecond, First, Second, Given

(* It gives back or loses the first one, the second one, or all.           *)
LEMMA FirstGone ==
  ASSUME TypeOK, NEW q \in Req, Exact(q), SamePath(q), OwesFirst(q), ~OwesFirst(q)',
         OwesSecond(q)' <=> OwesSecond(q), held'[q] = held[q] \ {path[q][1]},
         ~({"release", "cleanup"} \subseteq tasks'[q])
  PROVE  Exact(q)'
  BY DEF Exact, SamePath, First, Second, OwesSecond

LEMMA SecondGone ==
  ASSUME TypeOK, NEW q \in Req, Exact(q), SamePath(q), OwesSecond(q), ~OwesSecond(q)',
         OwesFirst(q)' <=> OwesFirst(q), held'[q] = held[q] \ {path[q][2]},
         ~({"release", "cleanup"} \subseteq tasks'[q])
  PROVE  Exact(q)'
  BY DEF Exact, SamePath, First, Second, OwesFirst

LEMMA NothingOwed ==
  ASSUME NEW q \in Req, held'[q] = {}, ~OwesFirst(q)', ~OwesSecond(q)',
         ~({"release", "cleanup"} \subseteq tasks'[q])
  PROVE  Exact(q)'
  BY DEF Exact

(* The request is over and leaves tasks that owe what it still holds.      *)
LEMMA OverOwes ==
  ASSUME TypeOK, NEW q \in Req, RequestInv(q), pc[q] # "over", Given(q) >= 1,
         NEW T, T \cap {"release", "cleanup"} # {}, ~({"release", "cleanup"} \subseteq T),
         "releaseRetry" \notin T,
         pc'[q] = "over", tasks'[q] = (tasks[q] \cup T) \cup RetryTask(q),
         Given(q)' = Given(q), pc[q] # "granted", pc[q] = "settling" => OwnsRetry(q)
  PROVE  /\ OwesFirst(q)' <=> OwesFirst(q)
         /\ OwesSecond(q)' <=> OwesSecond(q)
         /\ ~({"release", "cleanup"} \subseteq tasks'[q])
<1>1. tasks[q] \subseteq {"releaseRetry"}
  BY DEF RequestInv, TasksPlaced
<1>2. OwesFirst(q) /\ OwesFirst(q)'
  BY <1>1 DEF OwesFirst
<1>3. OwesSecond(q)' <=> Given(q) = 2 /\ "releaseRetry" \in tasks'[q]
  BY DEF OwesSecond
<1>4. "releaseRetry" \in tasks'[q] <=> "releaseRetry" \in tasks[q] \/ OwnsRetry(q)
  BY DEF RetryTask
<1>5. OwnsRetry(q) <=> pc[q] \in {"calling", "settling"} /\ Given(q) = 2
  BY DEF OwnsRetry, Given
<1>6. ~({"release", "cleanup"} \subseteq tasks'[q])
  BY <1>1 DEF RetryTask
<1> QED BY <1>2, <1>3, <1>4, <1>5, <1>6 DEF OwesSecond

(* A cut route leaves the first n sessions, and holds those.               *)
LEMMA CutHolds ==
  ASSUME TypeOK, NEW q \in Req, RequestInv(q), Exact(q), RouteCut(q, 1)
  PROVE  held'[q] = {path[q][1]}
<1>1. path[q] \in Seq(Session)
  BY DEF TypeOK
<1>2. /\ \A s \in held'[q] : s = path[q][1]
      /\ pc[q] \in {"routing", "granted", "rerouting"}
      /\ pc[q] = "granted" => Given(q) = 2
      /\ pc[q] # "granted" => Given(q) = 1
  BY RouteCutDoes
<1>3. OwesFirst(q) /\ path[q][1] \in Session
  BY <1>1, <1>2 DEF OwesFirst, Given
<1>4. path[q][1] \in held[q]
  BY <1>3 DEF Exact, First, OwesFirst
<1>5. CASE pc[q] # "granted"
  BY <1>2, <1>4, <1>5 DEF RouteCut, poolVars
<1>6. CASE pc[q] = "granted"
  <2>1. Forget(q, {Current(q)}) /\ Current(q) = path[q][2]
    BY <1>1, <1>2, <1>6 DEF RouteCut, Current, Given
  <2>2. path[q][1] # path[q][2]
    BY <1>2, <1>3, <1>6 DEF Exact, OwesSecond
  <2>3. held'[q] = held[q] \ {path[q][2]}
    BY <2>1 DEF Forget, TypeOK
  <2> QED BY <1>2, <1>4, <2>2, <2>3
<1> QED BY <1>5, <1>6

LEMMA CutExact ==
  ASSUME TypeOK, NEW q \in Req, RequestInv(q), Exact(q), RouteCut(q, 1),
         pc'[q] = "over", NEW t \in {"release", "cleanup"}, NEW T,
         tasks'[q] = tasks[q] \cup T, t \in T, T \cap {"release", "cleanup"} = {t},
         "releaseRetry" \in T => OwnsRetry(q)
  PROVE  Exact(q)'
<1>1. /\ Given(q)' = 1 /\ path'[q][1] = path[q][1]
      /\ pc[q] \in {"routing", "granted", "rerouting"}
  BY RouteCutDoes
<1>2. held'[q] = {path[q][1]}
  BY CutHolds
<1>3. tasks[q] \subseteq {"releaseRetry"}
  BY <1>1 DEF RequestInv, TasksPlaced
<1> QED BY <1>1, <1>2, <1>3 DEF Exact, OwesFirst, OwesSecond, First

------------------------------------------------------------------------------
(* One step of its own request.  What it asks of the pool is one thing.    *)

Asks(q) ==
  \/ UNCHANGED <<active, held, lost>> /\ \E S \in SUBSET Session : retired' = retired \cup S
  \/ \E s \in Session :
       /\ active[s] = 0 /\ s \notin retired
       /\ active' = [active EXCEPT ![s] = 1]
       /\ held' = [held EXCEPT ![q] = @ \cup {s}]
       /\ UNCHANGED <<retired, lost>>
  \/ \E s \in held[q] : GiveBack(q, s)
  \/ \E S \in SUBSET held[q] : Forget(q, S)

LEMMA Nothing == ASSUME NEW q, UNCHANGED poolVars PROVE Asks(q)
<1>1. retired' = retired \cup {}
  BY DEF poolVars
<1> QED BY <1>1 DEF Asks, poolVars

(* Its sessions are left alone.                                            *)
Quietly(q) == SamePath(q) /\ held'[q] = held[q] /\ Asks(q)

LEMMA QuietPool ==
  ASSUME NEW q, UNCHANGED <<kind, path>>, UNCHANGED poolVars
  PROVE  Quietly(q)
  BY Nothing, PathStays DEF Quietly, poolVars

LEMMA MayCut ==
  ASSUME TypeOK, NEW q \in Req, RequestInv(q), Exact(q), NEW n \in {0, 1}, RouteCut(q, n)
  PROVE  Asks(q)
<1>1. CASE UNCHANGED poolVars
  BY <1>1, Nothing
<1>2. CASE pc[q] = "granted" /\ Len(path[q]) = n + 1 /\ Forget(q, {Current(q)})
  <2>1. Current(q) \in Session /\ Current(q) = path[q][n + 1] /\ Given(q) = n + 1
    BY <1>2, SessionOf DEF Current, Given
  <2>2. Current(q) \in held[q]
    BY <1>2, <2>1 DEF Exact, OwesFirst, OwesSecond, First, Second
  <2> QED BY <1>2, <2>2 DEF Asks
<1> QED BY <1>1, <1>2 DEF RouteCut

LEMMA ExactCommon ==
  ASSUME TypeOK, NEW q \in Req, RequestInv(q), LeaseInv, CommonNext(q)
  PROVE  Exact(q)' /\ Asks(q)
<1> USE GivenNat DEF holdVars, sweepVars, outVars
<1>0. Exact(q)
  BY DEF LeaseInv
<1>1. CASE Arrive(q) \/ RateLimited(q) \/ TakeHold(q) \/ HoldRefused(q) \/ RouteFails(q)
  <2>1. Quietly(q) /\ tasks' = tasks /\ Given(q) = 0 /\ Given(q)' = Given(q)
    BY <1>1, QuietPool
    DEF Arrive, RateLimited, TakeHold, HoldRefused, RouteFails, RequestInv, Placed, Quietly,
        SamePath
  <2> QED BY <1>0, <2>1, OwesSame DEF Quietly, OwesFirst, OwesSecond, Exact
<1>2. CASE Routed(q) \/ Finalize(q)
  <2>1. Quietly(q) /\ tasks' = tasks /\ Given(q)' = Given(q)
    BY <1>2, QuietPool DEF Routed, Finalize, Quietly, SamePath
  <2>2. /\ pc'[q] # "over" /\ pc[q] # "over"
        /\ Given(q) = 2 =>
             (pc'[q] \in {"granted", "settling", "calling"} <=>
              pc[q] \in {"granted", "settling", "calling"})
    BY <1>2 DEF Routed, Finalize, Goto, TypeOK, Given
  <2> QED BY <1>0, <2>1, <2>2, OwesSame DEF Quietly, OwesFirst, OwesSecond, Exact
<1>3. ASSUME NEW s \in Session, Route(q, s) PROVE Exact(q)' /\ Asks(q)
  <2>1. /\ Grant(q, s) /\ pc[q] \in {"routing", "rerouting"} /\ pc'[q] = "granted"
        /\ tasks' = tasks
    BY <1>3 DEF Route, Goto, TypeOK
  <2>2. Asks(q)
    BY <2>1 DEF Grant, Asks
  <2>3. Given(q) \in {0, 1} /\ tasks[q] = {}
    BY <2>1 DEF RequestInv, Placed, TasksPlaced
  <2>4. /\ held'[q] = held[q] \cup {s} /\ Given(q)' = Given(q) + 1
        /\ path'[q][Given(q)'] = s
        /\ Given(q) = 1 => path'[q][1] = path[q][1]
    BY <2>1, GrantDoes DEF TypeOK
  <2>5. s \notin held[q]
    BY <2>1 DEF Grant, LeaseInv, Lent
  <2> QED BY <1>0, <2>1, <2>2, <2>3, <2>4, <2>5 DEF Exact, OwesFirst, OwesSecond, First, Second
<1>4. CASE FinalizeFails(q) \/ Respond(q) \/ Void(q) \/ VoidFails(q)
  <2>1. /\ Quietly(q) /\ Leaving(q) /\ Given(q)' = Given(q)
        /\ pc[q] \in {"finalizing", "posted", "voiding"}
    BY <1>4, QuietPool DEF FinalizeFails, Respond, Void, VoidFails, Quietly, SamePath
  <2>2. tasks[q] \subseteq {"releaseRetry"}
    BY <2>1 DEF RequestInv, TasksPlaced
  <2>3. /\ OwesFirst(q)' <=> OwesFirst(q)
        /\ OwesSecond(q)' <=> OwesSecond(q)
        /\ ~({"release", "cleanup"} \subseteq tasks'[q])
    BY <2>1, <2>2, LeavingDoes DEF OwesFirst, OwesSecond
  <2> QED BY <1>0, <2>1, <2>3, OwesSame DEF Quietly
<1>5. CASE TaskVoid(q)
  <2>1. Quietly(q) /\ Given(q)' = Given(q) /\ pc' = pc /\ tasks'[q] = tasks[q] \ {"void"}
    BY <1>5, QuietPool DEF TaskVoid, Quietly, SamePath, TypeOK
  <2>2. /\ OwesFirst(q)' <=> OwesFirst(q)
        /\ OwesSecond(q)' <=> OwesSecond(q)
    BY <2>1 DEF OwesFirst, OwesSecond
  <2> QED BY <1>0, <2>1, <2>2, OwesSame DEF Quietly, Exact
<1>6. CASE TaskRelease(q)
  <2>1. /\ SamePath(q) /\ Given(q)' = Given(q) /\ pc'[q] = pc[q]
        /\ "release" \in tasks[q] /\ tasks'[q] = tasks[q] \ {"release"}
    BY <1>6, PathStays DEF TaskRelease, SamePath, TypeOK
  <2>2. pc[q] = "over" /\ Given(q) >= 1 /\ OwesFirst(q)
    BY <2>1 DEF RequestInv, TasksPlaced, OwesFirst
  <2>3. path[q][1] \in held[q]
    BY <1>0, <2>2, SessionOf DEF Exact, First
  <2>4. held'[q] = held[q] \ {path[q][1]} /\ Asks(q)
    BY <1>6, <2>3 DEF TaskRelease, GiveBack, Forget, Asks, TypeOK
  <2>5. ~OwesFirst(q)' /\ (OwesSecond(q)' <=> OwesSecond(q))
    BY <1>0, <2>1, <2>2 DEF OwesFirst, OwesSecond, Exact
  <2> QED BY <1>0, <2>1, <2>2, <2>4, <2>5, FirstGone DEF Exact
<1>7. CASE TaskReleaseRetry(q)
  <2>1. /\ SamePath(q) /\ Given(q)' = Given(q) /\ pc'[q] = pc[q]
        /\ "releaseRetry" \in tasks[q] /\ tasks'[q] = tasks[q] \ {"releaseRetry"}
    BY <1>7, PathStays DEF TaskReleaseRetry, SamePath, TypeOK
  <2>2. /\ pc[q] \in {"finalizing", "posted", "voiding", "over"} /\ Given(q) = 2
        /\ OwesSecond(q)
    BY <2>1 DEF RequestInv, TasksPlaced, OwesSecond
  <2>3. path[q][2] \in held[q]
    BY <1>0, <2>2, SessionOf DEF Exact, Second
  <2>4. held'[q] = held[q] \ {path[q][2]} /\ Asks(q)
    BY <1>7, <2>3 DEF TaskReleaseRetry, GiveBack, Forget, Asks, TypeOK
  <2>5. ~OwesSecond(q)' /\ (OwesFirst(q)' <=> OwesFirst(q))
    BY <2>1, <2>2 DEF OwesFirst, OwesSecond
  <2> QED BY <1>0, <2>1, <2>2, <2>4, <2>5, SecondGone DEF Exact
<1> QED BY <1>1, <1>2, <1>3, <1>4, <1>5, <1>6, <1>7 DEF CommonNext

LEMMA ExactChat ==
  ASSUME TypeOK, NEW q \in Req, RequestInv(q), Exact(q), ChatNext(q)
  PROVE  Exact(q)' /\ Asks(q)
<1> USE GivenNat DEF holdVars, sweepVars, outVars
<1>1. CASE RoutingCut(q)
  <2>1. RouteCut(q, 0) /\ pc'[q] = "over" /\ tasks'[q] = tasks[q] \cup {"void"}
    BY <1>1 DEF RoutingCut, Ends, Goto, Spawn, TypeOK
  <2>2. held'[q] = {} /\ Given(q)' = 0
    BY <2>1, RouteCutDoes
  <2>3. Exact(q)'
    BY <2>1, <2>2, NothingOwed DEF OwesFirst, OwesSecond, Exact
  <2> QED BY <2>1, <2>3, MayCut
<1>2. CASE Renew(q) \/ FailOver(q) \/ RetryStarts(q)
  <2>1. Quietly(q) /\ tasks' = tasks /\ Given(q)' = Given(q)
    BY <1>2, QuietPool DEF Renew, FailOver, RetryStarts, Quietly, SamePath
  <2>2. /\ pc'[q] # "over" /\ pc[q] # "over"
        /\ Given(q) = 2 =>
             (pc'[q] \in {"granted", "settling", "calling"} <=>
              pc[q] \in {"granted", "settling", "calling"})
    <3>1. CASE Renew(q) \/ FailOver(q)
      <4>1. Given(q) = 1 /\ pc[q] = "calling"
        BY <3>1 DEF Renew, FailOver, MayRecover, Given
      <4>2. pc'[q] \in {"renewing", "failing"}
        BY <3>1 DEF Renew, FailOver, Goto, TypeOK
      <4> QED BY <4>1, <4>2
    <3>2. CASE RetryStarts(q)
      BY <3>2 DEF RetryStarts, Goto, TypeOK
    <3> QED BY <1>2, <3>1, <3>2
  <2> QED BY <2>1, <2>2, OwesSame DEF Quietly, OwesFirst, OwesSecond, Exact
<1>3. CASE Invalidate(q)
  <2>1. /\ SamePath(q) /\ held' = held /\ tasks' = tasks /\ Given(q)' = Given(q)
        /\ pc[q] \in {"renewing", "failing"} /\ pc'[q] = "rerouting"
    BY <1>3, PathStays DEF Invalidate, SamePath, Goto, TypeOK
  <2>2. Given(q) = 1 /\ Current(q) \in Session
    BY <2>1, SessionOf DEF RequestInv, Placed
  <2>3. \E S \in SUBSET Session : retired' = retired \cup S
    <3>1. CASE retired' = retired
      <4>1. retired' = retired \cup {}
        BY <3>1
      <4> QED BY <4>1
    <3>2. CASE retired' = retired \cup {Current(q)}
      BY <2>2, <3>2
    <3> QED BY <1>3, <3>1, <3>2 DEF Invalidate
  <2>4. Asks(q)
    BY <1>3, <2>3 DEF Invalidate, Asks
  <2> QED BY <2>1, <2>2, <2>4, OwesSame DEF OwesFirst, OwesSecond, Exact
<1> QED BY <1>1, <1>2, <1>3 DEF ChatNext

LEMMA ExactStream ==
  ASSUME TypeOK, NEW q \in Req, RequestInv(q), Exact(q), StreamNext(q)
  PROVE  Exact(q)' /\ Asks(q)
<1> USE GivenNat DEF holdVars, sweepVars, outVars
<1>1. CASE Iterate(q) \/ \E b \in BOOLEAN : Chunk(q, b)
  <2>1. /\ Quietly(q) /\ tasks' = tasks /\ Given(q)' = Given(q)
        /\ pc'[q] # "over" /\ pc[q] # "over"
        /\ pc'[q] = pc[q] \/ pc[q] = "handoff"
    BY <1>1, QuietPool DEF Iterate, Chunk, Quietly, SamePath, Goto, TypeOK
  <2>2. pc[q] = "handoff" => Given(q) = 1
    BY DEF RequestInv, Placed
  <2> QED BY <2>1, <2>2, OwesSame DEF Quietly, OwesFirst, OwesSecond, Exact
<1>2. CASE NeverIterated(q)
  <2>1. /\ pc[q] = "handoff" /\ pc'[q] = "over" /\ tasks' = tasks
        /\ Forget(q, held[q]) /\ held'[q] = {} /\ path' = path
    BY <1>2 DEF NeverIterated, Forget, Goto, TypeOK
  <2>2. tasks[q] \cap {"release", "cleanup"} = {} /\ Given(q) = 1 /\ Given(q)' = 1
    BY <2>1 DEF RequestInv, TasksPlaced, Placed, Given
  <2>3. Exact(q)'
    BY <2>1, <2>2, NothingOwed DEF OwesFirst, OwesSecond
  <2>4. Asks(q)
    BY <2>1 DEF Asks
  <2> QED BY <2>3, <2>4
<1>3. ASSUME Ends(q, StreamTasks(q)), UNCHANGED <<kind, path>>, UNCHANGED poolVars,
             pc[q] \in {"calling", "renewing", "failing", "rerouting", "settling"}
      PROVE  Exact(q)' /\ Asks(q)
  <2>1. /\ Quietly(q) /\ Given(q)' = Given(q)
        /\ pc'[q] = "over" /\ tasks'[q] = (tasks[q] \cup {"cleanup"}) \cup RetryTask(q)
    BY <1>3, QuietPool DEF Ends, Goto, Spawn, StreamTasks, Quietly, SamePath, TypeOK
  <2>2. Given(q) >= 1 /\ (pc[q] = "settling" => OwnsRetry(q))
    BY <1>3 DEF RequestInv, Placed, OwnsRetry, Given
  <2> DEFINE T == {"cleanup"}
  <2>3. /\ T \cap {"release", "cleanup"} # {} /\ ~({"release", "cleanup"} \subseteq T)
        /\ "releaseRetry" \notin T
    OBVIOUS
  <2>4. tasks'[q] = (tasks[q] \cup T) \cup RetryTask(q)
    BY <2>1
  <2> HIDE DEF T
  <2>5. /\ OwesFirst(q)' <=> OwesFirst(q)
        /\ OwesSecond(q)' <=> OwesSecond(q)
        /\ ~({"release", "cleanup"} \subseteq tasks'[q])
    BY <1>3, <2>1, <2>2, <2>3, <2>4, OverOwes
  <2> QED BY <2>1, <2>5, OwesSame DEF Quietly
<1>4. CASE StreamEnds(q) \/ StreamFails(q)
  BY <1>3, <1>4 DEF StreamEnds, StreamFails
<1>5. CASE StreamCut(q)
  <2>1. CASE RouteCut(q, 1)
    <3>1. /\ pc'[q] = "over"
          /\ tasks'[q] = tasks[q] \cup StreamTasks(q)
      BY <1>5 DEF StreamCut, Ends, Goto, Spawn, TypeOK
    <3>2. /\ "cleanup" \in StreamTasks(q)
          /\ StreamTasks(q) \cap {"release", "cleanup"} = {"cleanup"}
          /\ "releaseRetry" \in StreamTasks(q) => OwnsRetry(q)
      BY DEF StreamTasks, RetryTask
    <3>3. Exact(q)'
      BY <2>1, <3>1, <3>2, CutExact
    <3> QED BY <2>1, <3>3, MayCut
  <2>2. CASE ~RouteCut(q, 1)
    BY <1>3, <1>5, <2>2 DEF StreamCut
  <2> QED BY <2>1, <2>2
<1>6. CASE CleanupRelease(q) \/ CleanupReleaseFails(q)
  <2>1. /\ SamePath(q) /\ Given(q)' = Given(q) /\ pc'[q] = pc[q]
        /\ "cleanup" \in tasks[q]
        /\ tasks'[q] = (tasks[q] \ {"cleanup"}) \cup {"settle"}
    BY <1>6, PathStays DEF CleanupRelease, CleanupReleaseFails, SamePath, TypeOK
  <2>2. pc[q] = "over" /\ Given(q) >= 1 /\ OwesFirst(q)
    BY <2>1 DEF RequestInv, TasksPlaced, OwesFirst
  <2>3. path[q][1] \in held[q]
    BY <2>2, SessionOf DEF Exact, First
  <2>4. held'[q] = held[q] \ {path[q][1]} /\ Asks(q)
    BY <1>6, <2>3 DEF CleanupRelease, CleanupReleaseFails, GiveBack, Forget, Asks, TypeOK
  <2>5. ~OwesFirst(q)' /\ (OwesSecond(q)' <=> OwesSecond(q))
    BY <2>1, <2>2 DEF OwesFirst, OwesSecond, Exact
  <2> QED BY <2>1, <2>2, <2>4, <2>5, FirstGone DEF Exact
<1>7. CASE CleanupSettle(q) \/ CleanupSettleFails(q)
  <2>1. Quietly(q) /\ Given(q)' = Given(q) /\ pc' = pc /\ tasks'[q] = tasks[q] \ {"settle"}
    BY <1>7, QuietPool DEF CleanupSettle, CleanupSettleFails, Quietly, SamePath, TypeOK
  <2>2. /\ OwesFirst(q)' <=> OwesFirst(q)
        /\ OwesSecond(q)' <=> OwesSecond(q)
    BY <2>1 DEF OwesFirst, OwesSecond
  <2> QED BY <2>1, <2>2, OwesSame DEF Quietly, Exact
<1> QED BY <1>1, <1>2, <1>4, <1>5, <1>6, <1>7 DEF StreamNext

LEMMA ExactPlain ==
  ASSUME TypeOK, NEW q \in Req, RequestInv(q), Exact(q), PlainNext(q)
  PROVE  Exact(q)' /\ Asks(q)
<1> USE GivenNat DEF holdVars, sweepVars, outVars
<1>1. CASE PlainAnswer(q) \/ PlainFails(q)
  <2>1. /\ Quietly(q) /\ Given(q)' = Given(q)
        /\ pc[q] \in {"calling", "failing", "rerouting"}
        /\ pc'[q] \in {"finalizing", "voiding"}
        /\ tasks'[q] = tasks[q] \cup RetryTask(q)
    BY <1>1, QuietPool DEF PlainAnswer, PlainFails, Goto, Spawn, Quietly, SamePath, TypeOK
  <2>2. /\ Given(q) >= 1 /\ (pc[q] # "calling" => Given(q) = 1)
        /\ tasks[q] = {}
    BY <2>1 DEF RequestInv, Placed, TasksPlaced
  <2>3. RetryTask(q) = IF Given(q) = 2 THEN {"releaseRetry"} ELSE {}
    BY <2>1, <2>2 DEF RetryTask, OwnsRetry, Given
  <2>4. /\ OwesFirst(q)' <=> OwesFirst(q)
        /\ OwesSecond(q)' <=> OwesSecond(q)
        /\ ~({"release", "cleanup"} \subseteq tasks'[q])
    BY <2>1, <2>2, <2>3 DEF OwesFirst, OwesSecond
  <2> QED BY <2>1, <2>4, OwesSame DEF Quietly
<1>2. CASE PlainCut(q)
  <2> DEFINE T == {"void", "release"}
  <2>1. /\ pc'[q] = "over" /\ tasks'[q] = tasks[q] \cup (T \cup RetryTask(q))
        /\ path[q] # <<>>
    BY <1>2 DEF PlainCut, Ends, Goto, Spawn, TypeOK
  <2>2. CASE RouteCut(q, 1)
    <3>1. /\ "release" \in T \cup RetryTask(q)
          /\ (T \cup RetryTask(q)) \cap {"release", "cleanup"} = {"release"}
          /\ "releaseRetry" \in T \cup RetryTask(q) => OwnsRetry(q)
      BY DEF RetryTask
    <3>2. Exact(q)'
      BY <2>1, <2>2, <3>1, CutExact
    <3> QED BY <2>2, <3>2, MayCut
  <2>3. CASE ~RouteCut(q, 1)
    <3>1. /\ Quietly(q) /\ Given(q)' = Given(q)
          /\ pc[q] \in {"calling", "renewing", "failing", "settling", "finalizing",
                        "posted", "voiding"}
      BY <1>2, <2>3, QuietPool DEF PlainCut, Quietly, SamePath
    <3>2. Given(q) >= 1
      BY <2>1 DEF Given, TypeOK
    <3>3. pc[q] = "settling" => OwnsRetry(q)
      BY DEF RequestInv, Placed, OwnsRetry, Given
    <3>4. /\ T \cap {"release", "cleanup"} # {} /\ ~({"release", "cleanup"} \subseteq T)
          /\ "releaseRetry" \notin T /\ tasks'[q] = (tasks[q] \cup T) \cup RetryTask(q)
      BY <2>1
    <3> HIDE DEF T
    <3>5. /\ OwesFirst(q)' <=> OwesFirst(q)
          /\ OwesSecond(q)' <=> OwesSecond(q)
          /\ ~({"release", "cleanup"} \subseteq tasks'[q])
      BY <2>1, <3>1, <3>2, <3>3, <3>4, OverOwes
    <3> QED BY <3>1, <3>5, OwesSame DEF Quietly
  <2> QED BY <2>2, <2>3
<1>3. CASE RenewalCut(q)
  <2>1. /\ SamePath(q) /\ Given(q)' = Given(q) /\ pc[q] = "settling" /\ pc'[q] = "over"
        /\ Forget(q, {Current(q)}) /\ tasks'[q] = tasks[q] \cup {"void", "release"}
    BY <1>3, PathStays DEF RenewalCut, Ends, Goto, Spawn, SamePath, TypeOK
  <2>2. /\ Given(q) = 2 /\ Current(q) = path[q][2] /\ path[q][2] \in Session
        /\ tasks[q] \subseteq {"releaseRetry"} /\ "releaseRetry" \notin tasks[q]
    BY <2>1, SessionOf DEF RequestInv, Placed, TasksPlaced, Current, Given
  <2>3. OwesFirst(q) /\ OwesSecond(q) /\ OwesFirst(q)' /\ ~OwesSecond(q)'
    BY <2>1, <2>2 DEF OwesFirst, OwesSecond
  <2>4. path[q][2] \in held[q]
    BY <2>2, <2>3 DEF Exact, Second
  <2>5. held'[q] = held[q] \ {path[q][2]} /\ Asks(q)
    BY <2>1, <2>2, <2>4 DEF Forget, Asks, TypeOK
  <2>6. ~({"release", "cleanup"} \subseteq tasks'[q])
    BY <2>1, <2>2
  <2> QED BY <2>1, <2>3, <2>5, <2>6, SecondGone
<1> QED BY <1>1, <1>2, <1>3 DEF PlainNext

LEMMA ExactEmbed ==
  ASSUME TypeOK, NEW q \in Req, RequestInv(q), Exact(q), EmbedNext(q)
  PROVE  Exact(q)' /\ Asks(q)
<1> USE GivenNat DEF holdVars, sweepVars, outVars
<1>1. CASE EmbedAnswer(q) \/ EmbedFails(q)
  <2>1. /\ Quietly(q) /\ tasks' = tasks /\ Given(q)' = Given(q) /\ kind[q] = "embed"
        /\ pc[q] = "calling" /\ pc'[q] # "over"
    BY <1>1, QuietPool DEF EmbedAnswer, EmbedFails, Quietly, SamePath, Goto, TypeOK
  <2>2. Given(q) # 2
    BY <2>1 DEF RequestInv, Placed
  <2> QED BY <2>1, <2>2, OwesSame DEF Quietly, OwesFirst, OwesSecond, Exact
<1>2. CASE EmbedRelease(q)
  <2>1. /\ SamePath(q) /\ Given(q)' = Given(q) /\ pc[q] = "leaving" /\ pc'[q] = "over"
        /\ tasks' = tasks
    BY <1>2, PathStays DEF EmbedRelease, SamePath, Goto, TypeOK
  <2>2. Given(q) = 1 /\ tasks[q] \subseteq {"releaseRetry"}
    BY <2>1 DEF RequestInv, Placed, TasksPlaced
  <2>3. path[q][1] \in held[q]
    BY <2>1, <2>2, SessionOf DEF Exact, First, OwesFirst
  <2>4. held'[q] = held[q] \ {path[q][1]} /\ Asks(q)
    BY <1>2, <2>3 DEF EmbedRelease, GiveBack, Forget, Asks, TypeOK
  <2>5. /\ OwesFirst(q) /\ ~OwesFirst(q)' /\ (OwesSecond(q)' <=> OwesSecond(q))
        /\ ~({"release", "cleanup"} \subseteq tasks'[q])
    BY <2>1, <2>2 DEF OwesFirst, OwesSecond
  <2> QED BY <2>1, <2>4, <2>5, FirstGone
<1>3. CASE EmbedCut(q)
  <2>1. pc'[q] = "over" /\ tasks' = tasks /\ kind[q] = "embed"
    BY <1>3 DEF EmbedCut, Goto, TypeOK
  <2>2. CASE RouteCut(q, 0)
    <3>1. held'[q] = {} /\ Given(q)' = 0
      BY <2>2, RouteCutDoes
    <3>2. Exact(q)'
      BY <2>1, <3>1, NothingOwed DEF OwesFirst, OwesSecond, Exact
    <3> QED BY <2>2, <3>2, MayCut
  <2>3. CASE /\ pc[q] \in {"calling", "finalizing", "posted"}
             /\ Forget(q, held[q]) \/ \E s \in held[q] : GiveBack(q, s)
             /\ UNCHANGED path
    <3>1. /\ tasks[q] \subseteq {"releaseRetry"} /\ Given(q) = 1
          /\ "releaseRetry" \notin tasks[q]
      BY <2>1, <2>3 DEF RequestInv, TasksPlaced, Placed
    <3>2. \A s \in held[q] : s = path[q][1]
      BY <2>3, <3>1 DEF RequestInv, Accounted, First, Second
    <3>3. held'[q] = {}
      <4>1. held \in [Req -> SUBSET Session]
        BY DEF TypeOK
      <4>2. CASE Forget(q, held[q])
        BY <4>1, <4>2 DEF Forget
      <4>3. ASSUME NEW s \in held[q], GiveBack(q, s) PROVE held'[q] = {}
        <5>1. held'[q] = held[q] \ {s}
          BY <4>1, <4>3 DEF GiveBack
        <5> QED BY <3>2, <5>1
      <4> QED BY <2>3, <4>2, <4>3
    <3>4. Exact(q)'
      BY <2>1, <2>3, <3>1, <3>3, NothingOwed DEF OwesFirst, OwesSecond, Given
    <3>5. Asks(q)
      BY <2>3 DEF Asks
    <3> QED BY <3>4, <3>5
  <2> QED BY <1>3, <2>2, <2>3 DEF EmbedCut
<1> QED BY <1>1, <1>2, <1>3 DEF EmbedNext

LEMMA ExactWorld ==
  ASSUME TypeOK, NEW q \in Req, RequestInv(q), Exact(q), Die(q) \/ Sweep(q)
  PROVE  Exact(q)' /\ Asks(q)
<1> USE DEF holdVars, sweepVars, outVars
<1>1. CASE Die(q)
  <2>1. /\ pc'[q] = "over" /\ tasks'[q] = {} /\ held'[q] = {} /\ Forget(q, held[q])
    BY <1>1 DEF Die, Forget, Goto, TypeOK
  <2>2. Exact(q)'
    BY <2>1, NothingOwed DEF OwesFirst, OwesSecond
  <2> QED BY <2>1, <2>2 DEF Asks
<1>2. CASE Sweep(q)
  <2>1. Quietly(q) /\ tasks' = tasks /\ pc' = pc /\ Given(q)' = Given(q)
    BY <1>2, QuietPool DEF Sweep, SweepSelect, SweepVoid, Quietly, SamePath
  <2> QED BY <2>1, OwesSame DEF Quietly, OwesFirst, OwesSecond, Exact
<1> QED BY <1>1, <1>2

LEMMA SelfExact ==
  ASSUME IInv, LeaseInv, NEW q \in Req, RequestStep(q)
  PROVE  Exact(q)' /\ Asks(q)
<1>1. TypeOK /\ RequestInv(q) /\ Exact(q)
  BY DEF IInv, LeaseInv
<1> QED
  BY <1>1, ExactCommon, ExactChat, ExactStream, ExactPlain, ExactEmbed, ExactWorld
  DEF RequestStep

------------------------------------------------------------------------------
(* The pool: the slots, and the lease.                                     *)

LEMMA Others ==
  ASSUME IInv, NEW q \in Req, RequestStep(q)
  PROVE  \A r \in Req \ {q} : held'[r] = held[r]
<1>1. TypeOK /\ RequestInv(q)
  BY DEF IInv
<1> QED BY <1>1, OthersStep DEF Same

LEMMA LentStep ==
  ASSUME TypeOK, NEW q \in Req, Asks(q), \A s \in Session : Lent(s)
  PROVE  \A s \in Session : Lent(s)'
<1> USE DEF TypeOK, Lent
<1>1. CASE UNCHANGED <<active, held, lost>>
  BY <1>1
<1>2. ASSUME NEW s \in Session, active[s] = 0,
             active' = [active EXCEPT ![s] = 1],
             held' = [held EXCEPT ![q] = @ \cup {s}], UNCHANGED lost
      PROVE  \A t \in Session : Lent(t)'
  <2> TAKE t \in Session
  <2>1. CASE t = s
    BY <1>2, <2>1
  <2>2. CASE t # s
    <3>1. active'[t] = active[t] /\ \A r \in Req : t \in held'[r] <=> t \in held[r]
      BY <1>2, <2>2
    <3> QED BY <1>2, <3>1
  <2> QED BY <2>1, <2>2
<1>3. ASSUME NEW s \in held[q], GiveBack(q, s)
      PROVE  \A t \in Session : Lent(t)'
  <2>1. /\ s \in Session /\ active[s] = 1
        /\ active' = [active EXCEPT ![s] = 0]
        /\ held' = [held EXCEPT ![q] = @ \ {s}] /\ lost' = lost
    <3>1. s \in Session /\ active[s] = 1
      BY <1>3
    <3>2. active' = [active EXCEPT ![s] = @ - 1]
      BY <1>3, <3>1 DEF GiveBack
    <3> QED BY <1>3, <3>1, <3>2 DEF GiveBack
  <2> TAKE t \in Session
  <2>2. CASE t = s
    <3>1. \A r \in Req : t \notin held'[r]
      BY <1>3, <2>1, <2>2
    <3> QED BY <1>3, <2>1, <2>2, <3>1
  <2>3. CASE t # s
    <3>1. active'[t] = active[t] /\ \A r \in Req : t \in held'[r] <=> t \in held[r]
      BY <2>1, <2>3
    <3> QED BY <2>1, <3>1
  <2> QED BY <2>2, <2>3
<1>4. ASSUME NEW S \in SUBSET held[q], Forget(q, S)
      PROVE  \A t \in Session : Lent(t)'
  <2>1. active' = active /\ held' = [held EXCEPT ![q] = @ \ S] /\ lost' = lost \cup S
    BY <1>4 DEF Forget
  <2> TAKE t \in Session
  <2>2. CASE t \in S
    <3>1. \A r \in Req : t \notin held'[r]
      BY <1>4, <2>1, <2>2
    <3> QED BY <1>4, <2>1, <2>2, <3>1
  <2>3. CASE t \notin S
    <3>1. (\A r \in Req : t \in held'[r] <=> t \in held[r]) /\ (t \in lost' <=> t \in lost)
      BY <2>1, <2>3
    <3> QED BY <2>1, <3>1
  <2> QED BY <2>2, <2>3
<1> QED BY <1>1, <1>2, <1>3, <1>4 DEF Asks

LEMMA LeaseInvStep == LInv /\ [Next]_vars => LInv'
<1> SUFFICES ASSUME LInv, [Next]_vars PROVE LInv'
  OBVIOUS
<1>1. IInv'
  BY InvStep DEF LInv
<1>2. ASSUME NEW q \in Req, RequestStep(q) PROVE LeaseInv'
  <2>1. Exact(q)' /\ Asks(q)
    BY <1>2, SelfExact DEF LInv
  <2>2. \A r \in Req \ {q} : Exact(r)'
    BY <1>2, OthersStep, FrameExact DEF LInv, IInv, LeaseInv
  <2>3. \A s \in Session : Lent(s)'
    BY <2>1, LentStep DEF LInv, IInv, LeaseInv
  <2> QED BY <2>1, <2>2, <2>3 DEF LeaseInv
<1>3. CASE UNCHANGED vars
  <2>1. \A r \in Req : Same(r)
    BY <1>3 DEF Same, vars, poolVars, holdVars, sweepVars, outVars
  <2>2. \A s \in Session : Lent(s)'
    BY <1>3 DEF LInv, LeaseInv, Lent, vars, poolVars
  <2> QED BY <1>1, <2>1, <2>2, FrameExact DEF LInv, LeaseInv
<1> QED BY <1>1, <1>2, <1>3 DEF LInv, Next, RequestStep

Holders(s) == {r \in Req : s \in held[r]}

LEMMA AskIsLease ==
  ASSUME TypeOK, NEW q \in Req, Asks(q), \A s \in Session : Lent(s),
         TypeOK'
  PROVE  Lease!Next
<1> DEFINE H == [s \in Session |-> Holders(s)]
<1> USE DEF TypeOK, Holders
<1>1. CASE /\ UNCHANGED <<active, held, lost>>
           /\ \E S \in SUBSET Session : retired' = retired \cup S
  <2>1. H' = H
    BY <1>1
  <2> QED BY <1>1, <2>1 DEF Lease!Next, Lease!Retire
<1>2. ASSUME NEW s \in Session, active[s] = 0, s \notin retired,
             held' = [held EXCEPT ![q] = @ \cup {s}], UNCHANGED <<retired, lost>>
      PROVE  Lease!Next
  <2>1. H[s] = {} /\ s \notin lost
    BY <1>2 DEF Lent
  <2>2. H' = [H EXCEPT ![s] = {q}]
    <3>1. ASSUME NEW t \in Session PROVE Holders(t)' = IF t = s THEN {q} ELSE Holders(t)
      BY <1>2, <2>1
    <3> QED BY <3>1
  <2>3. Lease!Acquire(q, s)
    BY <1>2, <2>1, <2>2 DEF Lease!Acquire
  <2> QED BY <2>3 DEF Lease!Next
<1>3. ASSUME NEW s \in held[q], GiveBack(q, s) PROVE Lease!Next
  <2>1. /\ s \in Session /\ held' = [held EXCEPT ![q] = @ \ {s}]
        /\ UNCHANGED <<retired, lost>>
    BY <1>3 DEF GiveBack
  <2>2. q \in H[s] /\ \A r \in Req : s \in held[r] => r = q
    BY <1>3, <2>1 DEF Lent
  <2>3. H' = [H EXCEPT ![s] = {}]
    <3>1. ASSUME NEW t \in Session PROVE Holders(t)' = IF t = s THEN {} ELSE Holders(t)
      BY <2>1, <2>2
    <3> QED BY <3>1
  <2>4. Lease!Return(q, s)
    BY <2>1, <2>2, <2>3 DEF Lease!Return
  <2> QED BY <2>1, <2>4 DEF Lease!Next
<1>4. ASSUME NEW S \in SUBSET held[q], Forget(q, S) PROVE Lease!Next
  <2>1. /\ S \in SUBSET Session /\ held' = [held EXCEPT ![q] = @ \ S]
        /\ lost' = lost \cup S /\ retired' = retired
    BY <1>4 DEF Forget
  <2>2. H' = [s \in Session |-> H[s] \ (IF s \in S THEN {q} ELSE {})]
    <3>1. ASSUME NEW t \in Session
          PROVE  Holders(t)' = Holders(t) \ (IF t \in S THEN {q} ELSE {})
      BY <2>1
    <3> QED BY <3>1
  <2>3. Lease!Lose(q, S)
    BY <1>4, <2>1, <2>2 DEF Lease!Lose
  <2> QED BY <2>1, <2>3 DEF Lease!Next
<1> QED BY <1>1, <1>2, <1>3, <1>4 DEF Asks

LEMMA LeaseStep == LInv /\ LInv' /\ [Next]_vars => [Lease!Next]_Lease!lvars
<1> SUFFICES ASSUME LInv, LInv', [Next]_vars PROVE [Lease!Next]_Lease!lvars
  OBVIOUS
<1>1. ASSUME NEW q \in Req, RequestStep(q) PROVE Lease!Next
  BY <1>1, SelfExact, AskIsLease DEF LInv, IInv, LeaseInv
<1>2. CASE UNCHANGED vars
  BY <1>2 DEF Lease!lvars, vars, poolVars
<1> QED BY <1>1, <1>2 DEF Next, RequestStep

------------------------------------------------------------------------------
(* Theorems.                                                               *)

(* What a request holds is what it still has to give back, and every slot  *)
(* that is taken has one holder or lost it.                                *)
THEOREM SlotsAccounted == Spec => []LeaseInv
<1>1. Spec => []LInv
  <2>1. Init => LInv
    BY InitInv, InitLease DEF LInv
  <2> QED BY <2>1, LeaseInvStep, PTL DEF Spec
<1>2. LInv => LeaseInv
  BY DEF LInv
<1> QED BY <1>1, <1>2, PTL

(* The handlers implement the lease of the pool: through renewal, failover *)
(* and cancellation each assignment is given back once, or lost for good.  *)
THEOREM LeaseImplemented == Spec => ImplementsLease
<1>1. Init => LInv /\ Lease!Init
  BY InitInv, InitLease DEF LInv, Init, Lease!Init
<1>2. LInv /\ [Next]_vars => LInv' /\ [Lease!Next]_Lease!lvars
  BY LeaseInvStep, LeaseStep
<1> QED BY <1>1, <1>2, PTL DEF Spec, ImplementsLease, Lease!Spec

------------------------------------------------------------------------------
(* The handlers, their tasks and the sweep implement HoldLedger.  A step   *)
(* of a request keeps SettledOnce of it and asks one thing of the ledger   *)
(* at most.                                                                *)

Settling == {"void", "cleanup", "settle"}

(* What a step asks of the ledger.                                         *)
Books(q) == Ledger!Next \/ UNCHANGED <<entry, stale, swept>>

(* The entry is left alone, by a step that does not give the request a     *)
(* second way to settle it.                                                *)
LEMMA LeavesEntry ==
  ASSUME NEW q \in Req, SettledOnce(q), UNCHANGED <<entry, stale, swept>>,
         Charging(q)' => Charging(q),
         \A t, u \in tasks'[q] \cap Settling : t = u
  PROVE  SettledOnce(q)' /\ Books(q)
  BY DEF SettledOnce, Unsettled, Books, Settling

(* The handler moves on.                                                   *)
LEMMA MovesOn ==
  ASSUME NEW q \in Req, SettledOnce(q), UNCHANGED <<entry, stale, swept>>,
         tasks'[q] \cap Settling \subseteq tasks[q],
         \/ pc'[q] \notin {"routing", "granted", "handoff", "calling", "renewing", "failing",
                           "rerouting", "settling", "finalizing"}
         \/ pc[q] \in {"routing", "granted", "handoff", "calling", "renewing", "failing",
                       "rerouting", "settling", "finalizing"}
  PROVE  SettledOnce(q)' /\ Books(q)
<1>1. Charging(q)' => Charging(q)
  BY DEF Charging, Settling
<1>2. \A t, u \in tasks'[q] \cap Settling : t = u
  BY DEF SettledOnce, Settling
<1> QED BY <1>1, <1>2, LeavesEntry

(* The handler is over, and leaves one task at most to settle the entry.   *)
LEMMA LeavesTask ==
  ASSUME NEW q \in Req, RequestInv(q), SettledOnce(q), UNCHANGED <<entry, stale, swept>>,
         pc[q] # "over", pc'[q] = "over", NEW t \in Settling,
         tasks'[q] \cap Settling \subseteq (tasks[q] \cap Settling) \cup {t},
         t = "void" \/ Charging(q)
  PROVE  SettledOnce(q)' /\ Books(q)
<1>1. tasks'[q] \cap Settling \subseteq {t}
  BY DEF RequestInv, TasksPlaced, Settling
<1>2. Charging(q)' => Charging(q)
  BY <1>1 DEF Charging, Settling
<1> QED BY <1>1, <1>2, LeavesEntry

LEMMA BooksCommon ==
  ASSUME TypeOK, NEW q \in Req, RequestInv(q), SettledOnce(q), CommonNext(q)
  PROVE  SettledOnce(q)' /\ Books(q)
<1> USE DEF holdVars, sweepVars
<1>1. CASE Arrive(q) \/ RateLimited(q) \/ Routed(q) \/ RouteFails(q)
           \/ \E s \in Session : Route(q, s)
  <2>1. UNCHANGED <<entry, stale, swept>> /\ tasks'[q] = tasks[q]
    BY <1>1 DEF Arrive, RateLimited, Routed, RouteFails, Route
  <2>2. \/ pc'[q] \in {"holding", "over", "voiding"}
        \/ pc[q] \in {"granted", "routing", "rerouting"}
    BY <1>1 DEF Arrive, RateLimited, Routed, RouteFails, Route, Goto, TypeOK
  <2> QED BY <2>1, <2>2, MovesOn
<1>2. CASE TakeHold(q) \/ HoldRefused(q)
  <2>1. pc[q] = "holding" /\ entry[q] = "absent" /\ tasks'[q] = tasks[q]
        /\ pc'[q] \in {"routing", "over"} /\ UNCHANGED <<stale, swept>>
    BY <1>2 DEF TakeHold, HoldRefused, RequestInv, Awaited, Goto, TypeOK
  <2>2. CASE entry' = entry /\ pc'[q] = "over"
    BY <2>1, <2>2, MovesOn
  <2>3. CASE entry' = [entry EXCEPT ![q] = "pending"]
    <3>1. Ledger!Insert(q) /\ entry'[q] = "pending"
      BY <2>1, <2>3 DEF Ledger!Insert, TypeOK
    <3> QED BY <2>1, <3>1 DEF Books, Ledger!Next, SettledOnce, Unsettled
  <2> QED BY <1>2, <2>1, <2>2, <2>3 DEF TakeHold, HoldRefused, Goto, TypeOK
<1>3. CASE Finalize(q)
  <2>1. /\ Charging(q) /\ pc'[q] = "posted" /\ tasks' = tasks /\ UNCHANGED <<stale, swept>>
        /\ entry' = [entry EXCEPT ![q] = "posted"] /\ pc[q] # "over"
    BY <1>3 DEF Finalize, PostEntry, Charging, Goto, TypeOK
  <2>2. Ledger!Charge(q)
    BY <2>1 DEF SettledOnce, Unsettled, Ledger!Charge
  <2>3. ~Charging(q)' /\ tasks'[q] \cap Settling = {}
    BY <2>1 DEF Charging, RequestInv, TasksPlaced, Settling
  <2> QED BY <2>2, <2>3 DEF Books, Ledger!Next, SettledOnce, Settling
<1>4. CASE FinalizeFails(q) \/ Respond(q) \/ Void(q) \/ VoidFails(q)
  <2>1. /\ Leaving(q) /\ UNCHANGED <<stale, swept>>
        /\ pc[q] \in {"finalizing", "posted", "voiding"}
        /\ \/ entry' = entry
           \/ entry' = [entry EXCEPT ![q] = IF @ = "pending" THEN "voided" ELSE @]
    BY <1>4 DEF FinalizeFails, Respond, Void, VoidFails, VoidEntry, Strand
  <2>2. /\ pc'[q] \in {"over", "leaving"}
        /\ tasks'[q] \cap Settling \subseteq tasks[q]
    BY <2>1, LeavingDoes DEF Settling
  <2>3. tasks'[q] \cap Settling = {} /\ ~Charging(q)'
    BY <2>1, <2>2 DEF RequestInv, TasksPlaced, Charging, Settling
  <2>4. SettledOnce(q)'
    BY <2>3 DEF SettledOnce, Settling
  <2>5. Books(q)
    <3>1. CASE entry[q] = "pending" /\ entry' # entry
      BY <2>1, <3>1 DEF Books, Ledger!Next, Ledger!Void
    <3>2. CASE entry[q] # "pending" \/ entry' = entry
      BY <2>1, <3>2 DEF Books, TypeOK
    <3> QED BY <3>1, <3>2
  <2> QED BY <2>4, <2>5
<1>5. CASE TaskVoid(q)
  <2>1. /\ "void" \in tasks[q] /\ tasks'[q] = tasks[q] \ {"void"} /\ pc' = pc
        /\ UNCHANGED <<stale, swept>>
        /\ \/ entry' = entry
           \/ entry' = [entry EXCEPT ![q] = IF @ = "pending" THEN "voided" ELSE @]
    BY <1>5 DEF TaskVoid, VoidEntry, Strand, TypeOK
  <2>2. pc[q] = "over" /\ tasks'[q] \cap Settling = {}
    BY <2>1 DEF RequestInv, TasksPlaced, SettledOnce, Settling
  <2>3. SettledOnce(q)'
    BY <2>1, <2>2 DEF SettledOnce, Charging, Settling
  <2>4. Books(q)
    <3>1. CASE entry[q] = "pending" /\ entry' # entry
      BY <2>1, <3>1 DEF Books, Ledger!Next, Ledger!Void
    <3>2. CASE entry[q] # "pending" \/ entry' = entry
      BY <2>1, <3>2 DEF Books, TypeOK
    <3> QED BY <3>1, <3>2
  <2> QED BY <2>3, <2>4
<1>6. CASE TaskRelease(q) \/ TaskReleaseRetry(q)
  <2>1. UNCHANGED <<entry, stale, swept, pc>> /\ tasks'[q] \subseteq tasks[q]
    BY <1>6 DEF TaskRelease, TaskReleaseRetry, TypeOK
  <2> QED BY <2>1, MovesOn
<1> QED BY <1>1, <1>2, <1>3, <1>4, <1>5, <1>6 DEF CommonNext

LEMMA BooksChat ==
  ASSUME TypeOK, NEW q \in Req, RequestInv(q), SettledOnce(q), ChatNext(q)
  PROVE  SettledOnce(q)' /\ Books(q)
<1> USE DEF holdVars, sweepVars
<1>1. CASE RoutingCut(q)
  <2>1. /\ UNCHANGED <<entry, stale, swept>> /\ pc[q] # "over" /\ pc'[q] = "over"
        /\ tasks'[q] = tasks[q] \cup {"void"}
    BY <1>1 DEF RoutingCut, RouteCut, Ends, Goto, Spawn, TypeOK
  <2>2. "void" \in Settling
    BY DEF Settling
  <2> QED BY <2>1, <2>2, LeavesTask
<1>2. CASE Renew(q) \/ FailOver(q) \/ Invalidate(q) \/ RetryStarts(q)
  <2>1. /\ UNCHANGED <<entry, stale, swept>> /\ tasks'[q] = tasks[q]
        /\ pc[q] \in {"calling", "renewing", "failing", "settling"}
    BY <1>2 DEF Renew, FailOver, Invalidate, RetryStarts
  <2> QED BY <2>1, MovesOn
<1> QED BY <1>1, <1>2 DEF ChatNext

LEMMA BooksStream ==
  ASSUME TypeOK, NEW q \in Req, RequestInv(q), SettledOnce(q), StreamNext(q)
  PROVE  SettledOnce(q)' /\ Books(q)
<1> USE DEF holdVars, sweepVars
<1>1. CASE Iterate(q) \/ NeverIterated(q) \/ \E b \in BOOLEAN : Chunk(q, b)
  <2>1. /\ UNCHANGED <<entry, stale, swept>> /\ tasks'[q] = tasks[q]
        /\ pc[q] \in {"handoff", "calling"}
    BY <1>1 DEF Iterate, NeverIterated, Chunk, Strand
  <2> QED BY <2>1, MovesOn
<1>2. CASE StreamEnds(q) \/ StreamFails(q) \/ StreamCut(q)
  <2>1. /\ UNCHANGED <<entry, stale, swept>> /\ pc'[q] = "over"
        /\ tasks'[q] = tasks[q] \cup StreamTasks(q)
    BY <1>2 DEF StreamEnds, StreamFails, StreamCut, Ends, Goto, Spawn, TypeOK
  <2>2. pc[q] \in {"calling", "renewing", "failing", "settling", "granted", "routing",
                   "rerouting"}
    BY <1>2 DEF StreamEnds, StreamFails, StreamCut, RouteCut
  <2>3. tasks'[q] \cap Settling \subseteq (tasks[q] \cap Settling) \cup {"cleanup"}
    BY <2>1 DEF StreamTasks, RetryTask, Settling
  <2>4. "cleanup" \in Settling /\ Charging(q)
    BY <2>2 DEF Settling, Charging
  <2> QED BY <2>1, <2>2, <2>3, <2>4, LeavesTask
<1>3. CASE CleanupRelease(q) \/ CleanupReleaseFails(q)
  <2>1. /\ UNCHANGED <<entry, stale, swept>> /\ "cleanup" \in tasks[q]
        /\ tasks'[q] = (tasks[q] \ {"cleanup"}) \cup {"settle"}
    BY <1>3 DEF CleanupRelease, CleanupReleaseFails, TypeOK
  <2>2. Charging(q) /\ \A t, u \in tasks'[q] \cap Settling : t = u
    BY <2>1 DEF Charging, SettledOnce, Settling
  <2> QED BY <2>1, <2>2, LeavesEntry
<1>4. CASE CleanupSettle(q) \/ CleanupSettleFails(q)
  <2>1. /\ "settle" \in tasks[q] /\ tasks'[q] = tasks[q] \ {"settle"} /\ pc' = pc
        /\ UNCHANGED <<stale, swept>>
        /\ \/ entry' = entry
           \/ entry' = [entry EXCEPT ![q] = "posted"]
           \/ entry' = [entry EXCEPT ![q] = IF @ = "pending" THEN "voided" ELSE @]
    BY <1>4 DEF CleanupSettle, CleanupSettleFails, PostEntry, VoidEntry, Strand, TypeOK
  <2>2. pc[q] = "over" /\ tasks'[q] \cap Settling = {}
    <3>1. tasks'[q] \cap Settling = {}
      BY <2>1 DEF SettledOnce, Settling
    <3>2. pc[q] = "over"
      BY <2>1 DEF RequestInv, TasksPlaced
    <3> QED BY <3>1, <3>2
  <2>3. SettledOnce(q)'
    BY <2>1, <2>2 DEF SettledOnce, Charging, Settling
  <2>4. Unsettled(q)
    BY <2>1 DEF SettledOnce, Charging
  <2>5. Books(q)
    <3>1. CASE entry' = [entry EXCEPT ![q] = "posted"]
      BY <2>1, <2>4, <3>1 DEF Books, Ledger!Next, Ledger!Charge, Unsettled
    <3>2. CASE entry' # [entry EXCEPT ![q] = "posted"] /\ entry[q] = "pending" /\ entry' # entry
      BY <2>1, <3>2 DEF Books, Ledger!Next, Ledger!Void
    <3>3. CASE entry' # [entry EXCEPT ![q] = "posted"] /\ (entry[q] # "pending" \/ entry' = entry)
      BY <2>1, <3>3 DEF Books, TypeOK
    <3> QED BY <3>1, <3>2, <3>3
  <2> QED BY <2>3, <2>5
<1> QED BY <1>1, <1>2, <1>3, <1>4 DEF StreamNext

LEMMA BooksPlain ==
  ASSUME TypeOK, NEW q \in Req, RequestInv(q), SettledOnce(q), PlainNext(q) \/ EmbedNext(q)
  PROVE  SettledOnce(q)' /\ Books(q)
<1> USE DEF holdVars, sweepVars
<1>1. CASE PlainAnswer(q) \/ PlainFails(q)
  <2>1. /\ UNCHANGED <<entry, stale, swept>> /\ pc[q] \in {"calling", "failing", "rerouting"}
        /\ tasks'[q] = tasks[q] \cup RetryTask(q)
    BY <1>1 DEF PlainAnswer, PlainFails, Spawn, TypeOK
  <2>2. tasks'[q] \cap Settling \subseteq tasks[q]
    BY <2>1 DEF RetryTask, Settling
  <2> QED BY <2>1, <2>2, MovesOn
<1>2. CASE PlainCut(q) \/ RenewalCut(q)
  <2>1. /\ UNCHANGED <<entry, stale, swept>> /\ pc[q] # "over" /\ pc'[q] = "over"
        /\ \/ tasks'[q] = tasks[q] \cup ({"void", "release"} \cup RetryTask(q))
           \/ tasks'[q] = tasks[q] \cup {"void", "release"}
    BY <1>2 DEF PlainCut, RenewalCut, RouteCut, Ends, Goto, Spawn, TypeOK
  <2>2. tasks'[q] \cap Settling \subseteq (tasks[q] \cap Settling) \cup {"void"}
    BY <2>1 DEF RetryTask, Settling
  <2>3. "void" \in Settling
    BY DEF Settling
  <2> QED BY <2>1, <2>2, <2>3, LeavesTask
<1>3. CASE EmbedAnswer(q) \/ EmbedFails(q) \/ EmbedRelease(q) \/ EmbedCut(q)
  <2>1. /\ UNCHANGED <<entry, stale, swept>> /\ tasks' = tasks
        /\ pc'[q] \in {"over", "voiding"} \/ pc[q] = "calling"
    BY <1>3 DEF EmbedAnswer, EmbedFails, EmbedRelease, EmbedCut, Strand, Goto, TypeOK
  <2> QED BY <2>1, MovesOn
<1> QED BY <1>1, <1>2, <1>3 DEF PlainNext, EmbedNext

LEMMA BooksWorld ==
  ASSUME TypeOK, NEW q \in Req, RequestInv(q), SettledOnce(q), Die(q) \/ Sweep(q)
  PROVE  SettledOnce(q)' /\ Books(q)
<1>1. CASE Die(q)
  <2>1. UNCHANGED <<entry, stale, swept>> /\ tasks'[q] = {} /\ pc'[q] = "over"
    BY <1>1 DEF Die, Strand, Goto, TypeOK, sweepVars
  <2> QED BY <2>1, MovesOn
<1>2. CASE SweepSelect(q)
  <2>1. stale' \in SUBSET Req /\ Ledger!Choose(stale')
    BY <1>2 DEF SweepSelect, Ledger!Choose, TypeOK
  <2>2. SettledOnce(q)'
    BY <1>2 DEF SweepSelect, SettledOnce, Charging, Unsettled
  <2> QED BY <2>1, <2>2 DEF Books, Ledger!Next
<1>3. CASE SweepVoid(q)
  <2>1. Ledger!Expire({q})
    BY <1>3 DEF SweepVoid, Ledger!Expire, TypeOK
  <2>2. SettledOnce(q)'
    BY <1>3 DEF SweepVoid, SettledOnce, Charging, Unsettled, TypeOK
  <2> QED BY <2>1, <2>2 DEF Books, Ledger!Next
<1> QED BY <1>1, <1>2, <1>3 DEF Sweep

LEMMA LedgerStep ==
  IInv /\ LedgerInv /\ [Next]_vars => LedgerInv' /\ [Ledger!Next]_(Ledger!ledger)
<1> SUFFICES ASSUME IInv, LedgerInv, [Next]_vars
             PROVE  LedgerInv' /\ [Ledger!Next]_(Ledger!ledger)
  OBVIOUS
<1>1. ASSUME NEW q \in Req, RequestStep(q)
      PROVE  LedgerInv' /\ [Ledger!Next]_(Ledger!ledger)
  <2>1. TypeOK /\ RequestInv(q) /\ SettledOnce(q)
    BY DEF IInv, LedgerInv
  <2>2. SettledOnce(q)' /\ Books(q)
    BY <1>1, <2>1, BooksCommon, BooksChat, BooksStream, BooksPlain, BooksWorld DEF RequestStep
  <2>3. ASSUME NEW r \in Req \ {q} PROVE SettledOnce(r)'
    <3>1. Same(r)
      BY <1>1, <2>1, OthersStep
    <3> QED BY <3>1 DEF Same, LedgerInv, SettledOnce, Charging, Unsettled
  <2> QED BY <2>2, <2>3 DEF LedgerInv, Books, Ledger!ledger
<1>2. CASE UNCHANGED vars
  BY <1>2 DEF vars, holdVars, sweepVars, LedgerInv, SettledOnce, Charging, Unsettled,
              Ledger!ledger
<1> QED BY <1>1, <1>2 DEF Next, RequestStep

(* The handlers and their cleanups settle a hold once, as the ledger       *)
(* allows: no charge is voided and no void charged, but by the sweep or    *)
(* after it (_finalize_billing, _void_billing_hold, _stream_cleanup).      *)
THEOREM LedgerImplemented == Spec => ImplementsLedger
<1>1. Init => LedgerInv /\ Ledger!Init
  BY DEF Init, LedgerInv, SettledOnce, Charging, Ledger!Init
<1> QED BY <1>1, LedgerStep, Inductive, PTL DEF Spec, ImplementsLedger, Ledger!Spec
=============================================================================
