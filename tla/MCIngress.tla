----------------------------- MODULE MCIngress ------------------------------
(* Instances of Ingress for TLC. *)
EXTENDS Ingress

CONSTANTS p1, p2, q1, q2, k1, d1, d2

TwoProcs == {p1, p2}
OneProc == {p1}
TwoRequests == {q1, q2}
OneKey == {k1}
TwoPayloads == {d1, d2}
Alarming == {d1}
=============================================================================
