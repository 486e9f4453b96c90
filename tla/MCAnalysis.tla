----------------------------- MODULE MCAnalysis -----------------------------
(* An instance of Analysis for TLC. *)
EXTENDS Analysis

CONSTANTS p1, p2

TwoPipelines == {p1, p2}
==============================================================================
