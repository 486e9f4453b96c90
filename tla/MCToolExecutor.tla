--------------------------- MODULE MCToolExecutor ---------------------------
(* Instances of ToolExecutor for TLC: two processes, one of them with two   *)
(* threads (an old pipeline and the recovery sweep that reclaims its run). *)
EXTENDS ToolExecutor, TLC

CONSTANTS p1, p2, w1, w2, w3, k2

TwoProcs == {p1, p2}
ThreeWorkers == {w1, w2, w3}
TwoWorkers == {w1, w3}
ThreeWorkersOf == (w1 :> p1) @@ (w2 :> p1) @@ (w3 :> p2)
TwoWorkersOf == (w1 :> p1) @@ (w3 :> p2)

(* k2: a tool with a retry, such as database. *)
OneKey == {k2}
OneBudget == k2 :> 2
=============================================================================
