----------------------------- MODULE MCAgentRun -----------------------------
(* Instances of AgentRun for TLC. *)
EXTENDS AgentRun, TLC

CONSTANTS w1, w2, q1, q2

TwoWorkers == {w1, w2}
TwoRequests == {q1, q2}
OneRequest == {q1}
NoRequests == {}

SafetySymmetry == Permutations(TwoWorkers) \cup Permutations(TwoRequests)
=============================================================================
