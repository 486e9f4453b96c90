----------------------------- MODULE ToolLedger -----------------------------
(***************************************************************************)
(* What the tool execution ledger promises for each idempotency key, with  *)
(* no workers, leases or statements: a key is begun once, its handler is   *)
(* called only while it is begun and not finished and at most Budget[k]    *)
(* times, and a recorded outcome is final.                                 *)
(***************************************************************************)
EXTENDS Naturals

CONSTANTS
  Key,        \* idempotency keys
  Budget      \* Budget[k]: ToolSpec.max_attempts of the tool of k

VARIABLES
  rowStatus,  \* rowStatus[k]: "none", "running", "succeeded" or "failed"
  calls       \* calls[k]: how often the handler was called for k

vars == <<rowStatus, calls>>

Init ==
  /\ rowStatus = [k \in Key |-> "none"]
  /\ calls = [k \in Key |-> 0]

Begin(k) ==
  /\ rowStatus[k] = "none"
  /\ rowStatus' = [rowStatus EXCEPT ![k] = "running"]
  /\ UNCHANGED calls

Call(k) ==
  /\ rowStatus[k] = "running"
  /\ calls[k] < Budget[k]
  /\ calls' = [calls EXCEPT ![k] = @ + 1]
  /\ UNCHANGED rowStatus

Finish(k) ==
  /\ rowStatus[k] = "running"
  /\ calls[k] > 0
  /\ \E s \in {"succeeded", "failed"} :
       rowStatus' = [rowStatus EXCEPT ![k] = s]
  /\ UNCHANGED calls

Next == \E k \in Key : Begin(k) \/ Call(k) \/ Finish(k)

Spec == Init /\ [][Next]_vars
=============================================================================
