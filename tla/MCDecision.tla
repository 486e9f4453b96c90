----------------------------- MODULE MCDecision -----------------------------
(* An instance of Decision for TLC: three retrieved citations of which two  *)
(* may be candidates, and a budget that holds one optional item less than   *)
(* there are once the history has grown.                                    *)
EXTENDS Decision

ThreeRanked == <<3, 1, 2>>
TypeBound == {2, 3}
ItemTokens == [sop |-> 3, summary |-> 1, memory |-> 2, round |-> 1]
=============================================================================
