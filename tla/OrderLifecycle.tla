--------------------------- MODULE OrderLifecycle ---------------------------
(***************************************************************************)
(* What the approval of an order promises, whatever the stores do: it is   *)
(* decided once, and what is then carried out is carried out once and is   *)
(* what the decision allows.                                               *)
(***************************************************************************)
EXTENDS Sequences

VARIABLES
  hold,         \* why the order was made: "high_risk" or "review"
  decision,     \* "none", "approved" or "rejected"
  effects       \* what was carried out, in order

Decisions == {"approved", "rejected"}

\* An approved review confirms evidence and commands nothing.
Allowed ==
  [approved |-> [high_risk |-> "executed", review |-> "reviewed"],
   rejected |-> [high_risk |-> "cancelled", review |-> "cancelled"]]

Init == hold \in {"high_risk", "review"} /\ decision = "none" /\ effects = <<>>

Decide(d) ==
  /\ decision = "none"
  /\ decision' = d
  /\ UNCHANGED <<hold, effects>>

CarryOut ==
  /\ decision # "none"
  /\ effects = <<>>
  /\ effects' = <<Allowed[decision][hold]>>
  /\ UNCHANGED <<hold, decision>>

Next == CarryOut \/ \E d \in Decisions : Decide(d)

Spec == Init /\ [][Next]_<<hold, decision, effects>>
==============================================================================
