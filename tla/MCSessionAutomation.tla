------------------------- MODULE MCSessionAutomation -------------------------
(* One request and the automation, one or two sessions of one model.       *)
EXTENDS SessionAutomation, TLC

CONSTANTS r1, s1, s2, m1, m2, pA, pB

MCModelOf == [s \in Session |-> m1]
MCProviderOf == [s \in Session |-> IF s = s1 THEN pA ELSE NoProvider]
MCSoftCap == [m \in Model |-> 1]
MCNoCap == [m \in Model |-> 0]
(* The warm pool: no background close runs, at most one slot is lost.     *)
MCQuiet ==
  /\ \A s \in Session : bg[s] = "none"
  /\ Cardinality(lost) <= 1
=============================================================================
