---------------------------- MODULE RunLifecycle ----------------------------
(***************************************************************************)
(* What the run store promises, with nothing said about how: every run     *)
(* walks the transition table one legal step at a time, and the fencing    *)
(* epoch of a run only grows, by one, and only while the run is active.    *)
(* RunStore, whose writes are a SELECT and a later UPDATE, implements it.  *)
(***************************************************************************)
EXTENDS Naturals, RunStatus

CONSTANT Run            \* the runs

VARIABLES
  status,               \* status[r]: the status of run r, or Absent
  epoch                 \* epoch[r]: how many times run r has been claimed

vars == <<status, epoch>>

Init ==
  /\ status = [r \in Run |-> Absent]
  /\ epoch = [r \in Run |-> 0]

Create(r) ==
  /\ status[r] = Absent
  /\ \E s \in InitialStatuses : status' = [status EXCEPT ![r] = s]
  /\ UNCHANGED epoch

Claim(r) ==
  /\ status[r] \in ActiveStatuses
  /\ epoch' = [epoch EXCEPT ![r] = @ + 1]
  /\ UNCHANGED status

Move(r) ==
  /\ status[r] # Absent
  /\ \E to \in Status : /\ Legal(status[r], to)
                        /\ status' = [status EXCEPT ![r] = to]
  /\ UNCHANGED epoch

Next == \E r \in Run : Create(r) \/ Claim(r) \/ Move(r)

Spec == Init /\ [][Next]_vars
=============================================================================
