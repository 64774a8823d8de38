---------------------------- MODULE MCSessionPool ----------------------------
(* The pool alone: two requests, one model, two sessions.                  *)
EXTENDS SessionPool, TLC

CONSTANTS r1, r2, s1, s2, m1, pA, pB

MCModelOf == [s \in {s1, s2} |-> m1]
MCProviderOf == (s1 :> pA) @@ (s2 :> pB)
MCSoftCap == [m \in {m1} |-> 2]
MCSymmetry == Permutations({r1, r2})
(* One background close at a time, and the daylock of s1 only is metered:  *)
(* what meets the automation in metering is left to MCSessionAutomation.   *)
MCOneTask ==
  /\ Cardinality({s \in Session : bg[s] # "none"}) <= 1
  /\ bg[s2] \in {"none", "close"}
=============================================================================
