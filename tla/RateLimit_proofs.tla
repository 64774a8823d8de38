---------------------------- MODULE RateLimit_proofs ----------------------------
(***************************************************************************)
(* What the token window of a key admits, for any number of requests,      *)
(* replicas and outages, any limits and any size of a request.             *)
(***************************************************************************)
EXTENDS RateLimit, FiniteSetTheorems, TLAPS

USE DEF reqVars, winVars, conn, vars, Window

LEMMA CapType == Cap \in Nat /\ Cardinality(Req) \in Nat
  BY RateAssumption, FS_CardinalityType DEF Cap

------------------------------------------------------------------------------
(* Types.                                                                  *)

(* What the Redis client of a replica may do under a command.              *)
ConnOK == /\ client \in [Replica -> BOOLEAN] /\ open \in [Replica -> BOOLEAN]
          /\ probing \in [Replica -> BOOLEAN] /\ script \in BOOLEAN
ReqOK == /\ pc \in [Req -> {"idle", "count", "counting", "look", "looking", "serving",
                            "add", "adding", "report"}]
         /\ stamp \in [Req -> Window]
         /\ passed \subseteq Req /\ blind \subseteq Req
WinOK == rpm \in [Window -> 0..Rpm] /\ tpm \in [Window -> 0..Cap] /\ hidden \subseteq Window

LEMMA TypeParts == TypeOK <=> ConnOK /\ ReqOK /\ WinOK /\ up \in BOOLEAN
  BY DEF TypeOK, ConnOK, ReqOK, WinOK

LEMMA ConnTypes ==
  ASSUME TypeOK, NEW r \in Replica, Acquired(r) \/ NotAcquired(r) \/ OpError(r)
  PROVE  ConnOK'
<1> USE DEF TypeOK, ConnOK
<1>1. CASE Acquired(r)     BY <1>1 DEF Acquired, Connect
<1>2. CASE NotAcquired(r)  BY <1>2 DEF NotAcquired, Trip
<1>3. CASE OpError(r)      BY <1>3 DEF OpError, Trip
<1> QED BY <1>1, <1>2, <1>3

LEMMA TypeInit == Init => TypeOK
<1>1. 0 \in 0..Rpm /\ 0 \in 0..Cap
  BY CapType, RateAssumption
<1> QED BY <1>1 DEF Init, TypeOK

LEMMA TypeStep == TypeOK /\ [Next]_vars => TypeOK'
<1> SUFFICES ASSUME TypeOK, [Next]_vars PROVE TypeOK'
  OBVIOUS
<1> USE DEF TypeOK
<1>0. \A q \in Req : At[q] \in Replica
  BY RateAssumption
<1>1. ASSUME NEW q \in Req, Arrive(q) \/ Used(q) \/ Unused(q) PROVE TypeOK'
  BY <1>1 DEF Arrive, Used, Unused, Refuse, Goto
<1>2. ASSUME NEW q \in Req, Send(q) PROVE TypeOK'
  <2>1. ConnOK'
    BY <1>0, <1>2, ConnTypes DEF Send
  <2>2. ReqOK'
    BY <1>2 DEF Send, Goto, ReqOK
  <2> QED BY <1>2, <2>1, <2>2 DEF Send, ConnOK, ReqOK
<1>3. ASSUME NEW q \in Req, Count(q) PROVE TypeOK'
  <2>1. ReqOK'
    BY <1>3 DEF Count, Goto, Answered, ReqOK
  <2>2. rpm' \in [Window -> 0..Rpm]
    BY <1>3, RateAssumption DEF Count, Room
  <2> QED BY <1>3, <2>1, <2>2 DEF Count, ReqOK
<1>4. ASSUME NEW q \in Req, Look(q) PROVE TypeOK'
  BY <1>4 DEF Look, Refuse, Goto, Answered
<1>5. ASSUME NEW q \in Req, Add(q) PROVE TypeOK'
  <2>1. ReqOK'
    BY <1>5 DEF Add, Goto, Answered, ReqOK
  <2>2. hidden' \subseteq Window
    BY <1>5 DEF Add, Hide
  <2>3. PICK n \in 1..MaxTok :
          tpm' = [tpm EXCEPT ![stamp[q]] = IF @ + n > Cap THEN Cap ELSE @ + n]
    BY <1>5 DEF Add
  <2>4. n \in Nat
    BY RateAssumption
  <2>5. tpm' \in [Window -> 0..Cap]
    BY <2>3, <2>4, CapType
  <2> QED BY <1>5, <2>1, <2>2, <2>5 DEF Add, ReqOK
<1>6. ASSUME NEW q \in Req, Report(q) PROVE TypeOK'
  <2>1. ConnOK'
    BY <1>0, <1>6, ConnTypes DEF Report
  <2>2. ReqOK'
    BY <1>6 DEF Report, Refuse, Goto, ReqOK
  <2> QED BY <1>6, <2>1, <2>2 DEF Report, ConnOK, ReqOK
<1>7. ASSUME NEW q \in Req, CountFails(q) \/ LookFails(q) \/ AddFails(q) PROVE TypeOK'
  <2>1. ConnOK'
    BY <1>0, <1>7, ConnTypes DEF CountFails, LookFails, AddFails, OpFails
  <2>2. ReqOK'
    BY <1>7 DEF CountFails, LookFails, AddFails, Refuse, Goto, Answered, ReqOK
  <2>3. WinOK'
    BY <1>7 DEF CountFails, LookFails, AddFails, Hide, WinOK
  <2> QED BY <1>7, <2>1, <2>2, <2>3 DEF CountFails, LookFails, AddFails, ConnOK, ReqOK, WinOK
<1>8. ASSUME NEW r \in Replica, CooldownEnds(r) \/ Probe(r) PROVE TypeOK'
  BY <1>8 DEF CooldownEnds, Probe, Connect
<1>9. CASE RedisDown \/ RedisUp
  <2>1. 0 \in 0..Rpm /\ 0 \in 0..Cap
    BY CapType, RateAssumption
  <2> QED BY <1>9, <2>1 DEF RedisDown, RedisUp
<1>10. CASE NewWindow
  <2>1. 0 \in 0..Rpm /\ 0 \in 0..Cap
    BY CapType, RateAssumption
  <2>2. WinOK'
    BY <1>10, <2>1 DEF NewWindow, WinOK
  <2> QED BY <1>10, <2>2 DEF NewWindow, WinOK
<1>11. CASE UNCHANGED vars
  BY <1>11
<1> QED BY <1>1, <1>2, <1>3, <1>4, <1>5, <1>6, <1>7, <1>8, <1>9, <1>10, <1>11
        DEF Next, LimiterStep

------------------------------------------------------------------------------
(* The stamps.                                                             *)

LEMMA StampStep == TypeOK /\ StampInv /\ [Next]_vars => StampInv'
<1> SUFFICES ASSUME TypeOK, StampInv, [Next]_vars PROVE StampInv'
  OBVIOUS
<1> USE DEF TypeOK, StampInv, Sent
<1>1. ASSUME NEW q \in Req, Arrive(q) \/ Used(q) \/ Unused(q) PROVE StampInv'
  BY <1>1 DEF Arrive, Used, Unused, Refuse, Goto
<1>2. ASSUME NEW q \in Req, Send(q) PROVE StampInv'
  BY <1>2 DEF Send, Goto
<1>3. ASSUME NEW q \in Req, Count(q) \/ Look(q) \/ Add(q) PROVE StampInv'
  BY <1>3 DEF Count, Look, Add, Refuse, Goto, Answered
<1>4. ASSUME NEW q \in Req, Report(q) PROVE StampInv'
  BY <1>4 DEF Report, Refuse, Goto
<1>5. ASSUME NEW q \in Req, CountFails(q) \/ LookFails(q) \/ AddFails(q) PROVE StampInv'
  BY <1>5 DEF CountFails, LookFails, AddFails, Refuse, Goto, Answered
<1>6. ASSUME NEW r \in Replica, CooldownEnds(r) \/ Probe(r) PROVE StampInv'
  BY <1>6 DEF CooldownEnds, Probe
<1>7. CASE RedisDown \/ RedisUp
  BY <1>7 DEF RedisDown, RedisUp
<1>8. CASE NewWindow
  BY <1>8 DEF NewWindow
<1>9. CASE UNCHANGED vars
  BY <1>9
<1> QED BY <1>1, <1>2, <1>3, <1>4, <1>5, <1>6, <1>7, <1>8, <1>9 DEF Next, LimiterStep

------------------------------------------------------------------------------
(* Room in the windows.                                                    *)

LEMMA Product ==
  ASSUME NEW m \in Nat, NEW a \in Nat, NEW b \in Nat, a <= b
  PROVE  m * a \in Nat /\ m * b \in Nat /\ m * a <= m * b
  OBVIOUS

(* At most every request is due, and what is due is less than a window     *)
(* with one token left below its limit can take.                           *)
LEMMA DueBounds ==
  ASSUME NEW D, D \subseteq Req
  PROVE  /\ IsFiniteSet(D) /\ Cardinality(D) \in Nat
         /\ MaxTok * Cardinality(D) \in Nat
         /\ Tpm + MaxTok * Cardinality(D) <= Cap
<1>1. IsFiniteSet(D) /\ Cardinality(D) \in Nat /\ Cardinality(D) <= Cardinality(Req)
  BY RateAssumption, FS_Subset, FS_CardinalityType
<1>2. MaxTok * Cardinality(D) \in Nat /\ MaxTok * Cardinality(D) <= MaxTok * Cardinality(Req)
      /\ MaxTok * Cardinality(Req) \in Nat
  BY <1>1, CapType, Product, RateAssumption
<1> QED BY <1>1, <1>2, CapType, RateAssumption DEF Cap

(* A window keeps its room when nothing is added and nobody comes due.     *)
LEMMA RoomKept ==
  ASSUME TypeOK, RoomInv, NEW w \in Window, w \notin hidden,
         tpm'[w] = tpm[w], Due(w)' \subseteq Due(w)
  PROVE  tpm'[w] + MaxTok * Cardinality(Due(w)') < Cap
<1>1. Due(w) \subseteq Req /\ Due(w)' \subseteq Req
  BY DEF Due
<1>2. Cardinality(Due(w)') <= Cardinality(Due(w))
  BY <1>1, DueBounds, FS_Subset
<1>3. Cardinality(Due(w)) \in Nat /\ Cardinality(Due(w)') \in Nat
  BY <1>1, DueBounds
<1>4. MaxTok * Cardinality(Due(w)') <= MaxTok * Cardinality(Due(w))
      /\ MaxTok * Cardinality(Due(w)') \in Nat /\ MaxTok * Cardinality(Due(w)) \in Nat
  BY <1>2, <1>3, Product, RateAssumption
<1>5. tpm[w] + MaxTok * Cardinality(Due(w)) < Cap /\ tpm[w] \in Nat
  BY CapType DEF RoomInv, TypeOK
<1> QED BY <1>4, <1>5, CapType

(* A window below its limit has room whoever comes due.                    *)
LEMMA RoomBelow ==
  ASSUME NEW D, D \subseteq Req, NEW t \in Nat, t < Tpm
  PROVE  t + MaxTok * Cardinality(D) < Cap
  BY DueBounds, CapType, RateAssumption

(* An addition takes no more than was kept for its request.                *)
LEMMA RoomTaken ==
  ASSUME TypeOK, RoomInv, NEW w \in Window, w \notin hidden,
         NEW q \in Due(w), Due(w)' \subseteq Due(w) \ {q},
         NEW n \in 1..MaxTok, tpm'[w] = IF tpm[w] + n > Cap THEN Cap ELSE tpm[w] + n
  PROVE  tpm'[w] + MaxTok * Cardinality(Due(w)') < Cap
<1> DEFINE c == Cardinality(Due(w))
           d == Cardinality(Due(w)')
<1>1. Due(w) \subseteq Req /\ Due(w)' \subseteq Req
  BY DEF Due
<1>2. IsFiniteSet(Due(w)) /\ c \in Nat /\ d \in Nat
  BY <1>1, DueBounds
<1>3. IsFiniteSet(Due(w) \ {q}) /\ Cardinality(Due(w) \ {q}) = c - 1
  BY <1>2, FS_RemoveElement
<1>4. d <= c - 1
  BY <1>3, FS_Subset
<1>5. MaxTok \in Nat /\ c - 1 \in Nat
  BY <1>2, <1>4, RateAssumption
<1>6. MaxTok * d \in Nat /\ MaxTok * d <= MaxTok * (c - 1)
  BY <1>2, <1>4, <1>5, Product
<1>7. MaxTok * (c - 1) = MaxTok * c - MaxTok /\ MaxTok * c \in Nat
  BY <1>2, <1>5
<1>8. tpm[w] + MaxTok * c < Cap /\ tpm[w] \in Nat /\ n \in Nat /\ n <= MaxTok
  BY <1>5, CapType DEF RoomInv, TypeOK
<1> HIDE DEF c, d
<1>9. tpm'[w] + MaxTok * d < Cap
  BY <1>5, <1>6, <1>7, <1>8, CapType
<1> QED BY <1>9 DEF d

LEMMA RoomInit == Init => RoomInv
<1> SUFFICES ASSUME Init, NEW w \in Window PROVE tpm[w] + MaxTok * Cardinality(Due(w)) < Cap
  BY DEF RoomInv
<1>1. tpm[w] = 0 /\ Due(w) \subseteq Req
  BY DEF Init, Due
<1> QED BY <1>1, RoomBelow, RateAssumption

LEMMA RoomStep == TypeOK /\ TypeOK' /\ StampInv /\ RoomInv /\ [Next]_vars => RoomInv'
<1> SUFFICES ASSUME TypeOK, TypeOK', StampInv, RoomInv, [Next]_vars,
                    NEW w \in Window, w \notin hidden'
             PROVE  tpm'[w] + MaxTok * Cardinality(Due(w)') < Cap
  BY DEF RoomInv
<1> USE DEF TypeOK
<1>1. ASSUME NEW q \in Req, Arrive(q) \/ Used(q) \/ Unused(q) \/ Send(q) \/ Count(q) \/ Report(q)
      PROVE  tpm'[w] + MaxTok * Cardinality(Due(w)') < Cap
  <2>1. Due(w)' \subseteq Due(w)
    BY <1>1 DEF Due, StampInv, Sent, Arrive, Used, Unused, Send, Count, Report, Refuse,
                Goto, Answered
  <2>2. tpm' = tpm /\ hidden' = hidden
    BY <1>1 DEF Arrive, Used, Unused, Send, Count, Report
  <2> QED BY <2>1, <2>2, RoomKept
<1>2. ASSUME NEW q \in Req, Look(q)
      PROVE  tpm'[w] + MaxTok * Cardinality(Due(w)') < Cap
  <2>1. tpm' = tpm /\ hidden' = hidden
    BY <1>2 DEF Look
  <2>2. CASE w = "now" /\ stamp[q] = "now" /\ pc'[q] = "serving"
    <3>1. tpm[w] < Tpm /\ tpm[w] \in Nat
      BY <1>2, <2>2, RateAssumption, CapType DEF Look, Refuse, Goto, Full
    <3>2. Due(w)' \subseteq Req
      BY DEF Due
    <3> QED BY <2>1, <3>1, <3>2, RoomBelow
  <2>3. CASE ~(w = "now" /\ stamp[q] = "now" /\ pc'[q] = "serving")
    <3>1. Due(w)' \subseteq Due(w)
      BY <1>2, <2>3 DEF Look, Refuse, Goto, Answered, Due
    <3> QED BY <2>1, <3>1, RoomKept
  <2> QED BY <2>2, <2>3
<1>3. ASSUME NEW q \in Req, Add(q)
      PROVE  tpm'[w] + MaxTok * Cardinality(Due(w)') < Cap
  <2>1. w \notin hidden /\ (stamp[q] = w => q \notin blind)
    BY <1>3 DEF Add, Hide
  <2>2. Due(w)' \subseteq Due(w) \ {q}
    BY <1>3 DEF Add, Goto, Answered, Due
  <2>3. PICK n \in 1..MaxTok :
          tpm' = [tpm EXCEPT ![stamp[q]] = IF @ + n > Cap THEN Cap ELSE @ + n]
    BY <1>3 DEF Add
  <2>4. CASE stamp[q] = w
    <3>1. q \in Due(w)
      BY <1>3, <2>1, <2>4 DEF Add, Due
    <3>2. tpm'[w] = IF tpm[w] + n > Cap THEN Cap ELSE tpm[w] + n
      BY <2>3, <2>4
    <3> QED BY <2>1, <2>2, <3>1, <3>2, RoomTaken
  <2>5. CASE stamp[q] # w
    <3>1. tpm'[w] = tpm[w]
      BY <2>3, <2>5
    <3> QED BY <2>1, <2>2, <3>1, RoomKept
  <2> QED BY <2>4, <2>5
<1>4. ASSUME NEW q \in Req, CountFails(q) \/ LookFails(q) \/ AddFails(q)
      PROVE  tpm'[w] + MaxTok * Cardinality(Due(w)') < Cap
  <2>1. tpm' = tpm /\ w \notin hidden
    BY <1>4 DEF CountFails, LookFails, AddFails, Hide
  <2>2. CASE CountFails(q)
    <3>1. Due(w)' \subseteq Due(w)
      BY <2>2 DEF CountFails, Goto, Answered, Due
    <3> QED BY <2>1, <3>1, RoomKept
  <2>3. CASE LookFails(q)
    <3>1. Due(w)' \subseteq Due(w)
      BY <2>3 DEF LookFails, Refuse, Goto, Answered, Due
    <3> QED BY <2>1, <3>1, RoomKept
  <2>4. CASE AddFails(q)
    <3>1. Due(w)' \subseteq Due(w)
      BY <2>4 DEF AddFails, Goto, Answered, Due
    <3> QED BY <2>1, <3>1, RoomKept
  <2> QED BY <1>4, <2>2, <2>3, <2>4
<1>5. ASSUME NEW r \in Replica, CooldownEnds(r) \/ Probe(r)
      PROVE  tpm'[w] + MaxTok * Cardinality(Due(w)') < Cap
  <2>1. UNCHANGED <<reqVars, winVars>>
    BY <1>5 DEF CooldownEnds, Probe
  <2>2. Due(w)' = Due(w)
    BY <2>1 DEF Due
  <2> QED BY <2>1, <2>2, RoomKept
<1>6. CASE RedisDown \/ RedisUp \/ UNCHANGED vars
  <2>1. UNCHANGED reqVars /\ UNCHANGED winVars
    BY <1>6 DEF RedisDown, RedisUp
  <2>2. Due(w)' = Due(w)
    BY <2>1 DEF Due
  <2> QED BY <2>1, <2>2, RoomKept
<1>7. CASE NewWindow
  <2>1. CASE w = "now"
    <3>1. tpm'[w] = 0 /\ Due(w)' \subseteq Req
      BY <1>7, <2>1 DEF NewWindow, Due
    <3> QED BY <3>1, RoomBelow, RateAssumption
  <2>2. CASE w = "old"
    <3>1. "now" \notin hidden /\ tpm'[w] = tpm["now"]
      BY <1>7, <2>2 DEF NewWindow
    <3>2. Due(w)' \subseteq Due("now")
      BY <1>7, <2>2 DEF NewWindow, Due
    <3>3. tpm["now"] + MaxTok * Cardinality(Due("now")) < Cap
      BY <3>1 DEF RoomInv
    <3>4. Due("now") \subseteq Req /\ Due(w)' \subseteq Req
      BY DEF Due
    <3>5. Cardinality(Due(w)') <= Cardinality(Due("now"))
      BY <3>2, <3>4, DueBounds, FS_Subset
    <3>6. Cardinality(Due("now")) \in Nat /\ Cardinality(Due(w)') \in Nat
      BY <3>4, DueBounds
    <3>7. MaxTok * Cardinality(Due(w)') <= MaxTok * Cardinality(Due("now"))
          /\ MaxTok * Cardinality(Due(w)') \in Nat /\ MaxTok * Cardinality(Due("now")) \in Nat
      BY <3>5, <3>6, Product, RateAssumption
    <3>8. tpm["now"] \in Nat
      BY CapType
    <3> QED BY <3>1, <3>3, <3>7, <3>8, CapType
  <2> QED BY <2>1, <2>2
<1> QED BY <1>1, <1>2, <1>3, <1>4, <1>5, <1>6, <1>7 DEF Next, LimiterStep

------------------------------------------------------------------------------
(* Every variable of the limiter keeps its type.                           *)
THEOREM TypeCorrect == Spec => []TypeOK
  BY TypeInit, TypeStep, PTL DEF Spec

(* The room a window keeps for the requests that may still add to it, in   *)
(* every behaviour (check_rate_limit, record_token_usage).                 *)
THEOREM Inductive == Spec => []IInv
<1>1. Init => IInv
  BY TypeInit, RoomInit DEF IInv, Init, StampInv
<1>2. IInv /\ [Next]_vars => IInv'
  BY TypeStep, StampStep, RoomStep DEF IInv
<1> QED BY <1>1, <1>2, PTL DEF Spec

(* The tokens of a window pass its limit by less than one use of each      *)
(* request that runs at once, unless Redis was missed on the way.          *)
THEOREM WindowBounded == Spec => []WindowBound
<1>1. ASSUME IInv PROVE WindowBound
  <2> SUFFICES ASSUME NEW w \in Window, w \notin hidden PROVE tpm[w] < Cap
    BY DEF WindowBound
  <2>1. tpm[w] + MaxTok * Cardinality(Due(w)) < Cap
    BY <1>1 DEF IInv, RoomInv
  <2>2. MaxTok * Cardinality(Due(w)) \in Nat
    BY DueBounds DEF Due
  <2>3. tpm[w] \in Nat
    BY <1>1, CapType DEF IInv, TypeOK
  <2> QED BY <2>1, <2>2, <2>3, CapType
<1> QED BY <1>1, Inductive, PTL
=============================================================================
