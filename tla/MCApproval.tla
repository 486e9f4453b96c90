----------------------------- MODULE MCApproval -----------------------------
(* Instances of Approval for TLC. *)
EXTENDS Approval, TLC

CONSTANTS p1, p2, q1, q2

TwoProcs == {p1, p2}
OneProc == {p1}
TwoRequests == {q1, q2}
OneRequest == {q1}

RequestSymmetry == Permutations(TwoRequests)
==============================================================================
