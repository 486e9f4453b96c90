----------------------------- MODULE RunStatus -----------------------------
(***************************************************************************)
(* The status vocabulary of a durable Agent Run and its transition table.  *)
(* Pure definitions, shared by the abstract lifecycle (RunLifecycle) and   *)
(* the SQLite store that implements it (RunStore).                         *)
(***************************************************************************)

\* Statuses in which a worker may hold the lease of a run.
ActiveStatuses == {"analyzing", "decided", "executing", "retryable_failed"}

FinalStatuses == {"filtered", "succeeded", "permanent_failed", "cancelled"}

\* Parked statuses: nobody holds the lease, a human is expected to act.
ParkedStatuses == {"waiting_approval", "manual_takeover"}

Status == ActiveStatuses \cup FinalStatuses \cup ParkedStatuses

\* The status of a run with no row yet.
Absent == "absent"

\* A run enters the store either for analysis or already filtered at ingress.
InitialStatuses == {"analyzing", "filtered"}

\* The table, as a set of <<from, to>> pairs.
AllowedTransitions ==
  ({"analyzing"} \X {"decided", "retryable_failed", "manual_takeover"})
  \cup ({"decided"} \X {"executing", "retryable_failed", "manual_takeover"})
  \cup ({"executing"} \X {"succeeded", "waiting_approval", "retryable_failed",
                          "manual_takeover"})
  \cup ({"waiting_approval"} \X {"succeeded", "cancelled", "manual_takeover"})
  \cup ({"retryable_failed"} \X {"analyzing", "manual_takeover",
                                 "permanent_failed"})
  \cup ({"manual_takeover"} \X {"analyzing", "succeeded", "permanent_failed",
                                "cancelled"})

\* What RunStore.transition accepts: a pair of the table, or the same status.
Legal(from, to) == from = to \/ <<from, to>> \in AllowedTransitions
=============================================================================
