----------------------------- MODULE MCRunStore -----------------------------
(* Instances of RunStore for TLC: two worker processes, one run. *)
EXTENDS RunStore

CONSTANTS p1, p2

Both == {p1, p2}
OnlyOne == {p1}
=============================================================================
