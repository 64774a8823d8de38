---------------------------- MODULE MCChatRequest ----------------------------
(* A request of any kind, and an embeddings call that competes with it for *)
(* the same two sessions.                                                  *)
EXTENDS ChatRequest, TLC

CONSTANTS r1, r2, s1, s2

MCSymmetry == Permutations(Session)
MCSecondEmbeds == kind[r2] = "embed"
=============================================================================
