---------------------------- MODULE ToolExecutor ----------------------------
(***************************************************************************)
(* services/tool_executor.py: the tool steps of one run, executed by the   *)
(* worker threads that hold, or believe they hold, the lease of the run.   *)
(*                                                                         *)
(* A worker is a thread of a process; the processes share the SQLite table *)
(* tool_executions and nothing else.  The idempotency key of a step names  *)
(* the event and the action and not the worker, so the worker of a later   *)
(* claim meets the rows of an earlier one.  Each store method checks the   *)
(* fence with a SELECT and then writes; the row of agent_runs may change   *)
(* in between, so check and write are two steps here.                      *)
(*                                                                         *)
(* The run itself (RunStore) is reduced to what the fence reads: the       *)
(* newest fencing token and whether its lease and status still admit it.   *)
(***************************************************************************)
EXTENDS Naturals

CONSTANTS
  Proc,         \* processes
  Worker,       \* worker threads
  ProcOf,       \* ProcOf[w]: the process of worker w
  Key,          \* idempotency keys: the tool steps of the run's plan
  Budget,       \* Budget[k]: ToolSpec.max_attempts of the tool of k
  MaxEpoch      \* bound: claims of the run

ASSUME ExecutorAssumption ==
  /\ ProcOf \in [Worker -> Proc]
  /\ Budget \in [Key -> Nat \ {0}]
  /\ Key # {}
  /\ MaxEpoch \in Nat

VARIABLES
  epoch,        \* execution_attempt of the run: the newest fencing token
  live,         \* its lease has not expired and its status is active
  token,        \* token[w]: the fencing token in the event of w; 0: w has no run
  pc,           \* pc[w]: where w is inside execute
  key,          \* key[w]: the key it is executing
  try,          \* try[w]: the attempt of the retry loop
  res,          \* res[w]: how the attempt ended so far
  outcome,      \* outcome[w][k]: the ToolOutcome w's plan got for k
  rowStatus,    \* tool_executions.status of k, "none" without a row,
  rowEpoch,     \* and its execution_attempt
  calls,        \* handler calls for k
  done          \* a handler call for k has returned normally

runVars == <<epoch, live, token>>
threadVars == <<pc, key, try, res, outcome>>
rowVars == <<rowStatus, rowEpoch>>
handlerVars == <<calls, done>>

vars == <<runVars, threadVars, rowVars, handlerVars>>

PC == {"idle", "look", "begin", "insert", "call", "record", "recordWrite",
       "finish", "finishWrite"}

Outcome == {"none", "succeeded", "failed", "indeterminate"}

TypeOK ==
  /\ epoch \in 0..MaxEpoch
  /\ live \in BOOLEAN
  /\ token \in [Worker -> 0..MaxEpoch]
  /\ pc \in [Worker -> PC]
  /\ key \in [Worker -> Key]
  /\ try \in [Worker -> Nat]
  /\ res \in [Worker -> {"ok", "transient", "permanent"}]
  /\ outcome \in [Worker -> [Key -> Outcome]]
  /\ rowStatus \in [Key -> {"none", "running", "succeeded", "failed"}]
  /\ rowEpoch \in [Key -> 0..MaxEpoch]
  /\ calls \in [Key -> Nat]
  /\ done \in [Key -> BOOLEAN]

-----------------------------------------------------------------------------
NoOutcome == [k \in Key |-> "none"]

\* _assert_fence_conn: token, owner, lease and active status, all at once.
Fence(w) == live /\ token[w] # 0 /\ token[w] = epoch

\* _key_lock: one thread of a process at a time inside execute for k.
Locked(p, k) == \E w \in Worker : ProcOf[w] = p /\ pc[w] # "idle" /\ key[w] = k

InsertableM(k) == TRUE

\* idempotency_key is UNIQUE.
Insertable(k) == rowStatus[k] = "none"

RetriesM(w) == res[w] = "transient"

\* The retry loop goes round again.
Retries(w) == res[w] = "transient" /\ try[w] < Budget[key[w]]

OutcomeOfRowM1(k) == rowStatus[k]

OutcomeOfRowM2(k) == IF rowStatus[k] = "succeeded" THEN "succeeded" ELSE "failed"

\* _existing_outcome: somebody else's unfinished execution is indeterminate.
OutcomeOfRow(k) ==
  IF rowStatus[k] = "running" THEN "indeterminate" ELSE rowStatus[k]

ResultOfM(r) == IF r = "permanent" THEN "failed" ELSE "succeeded"

\* The status that finish records.
ResultOf(r) == IF r = "ok" THEN "succeeded" ELSE "failed"
-----------------------------------------------------------------------------
Init ==
  /\ epoch = 0
  /\ live = FALSE
  /\ token = [w \in Worker |-> 0]
  /\ pc = [w \in Worker |-> "idle"]
  /\ key \in [Worker -> {CHOOSE k \in Key : TRUE}]
  /\ try = [w \in Worker |-> 1]
  /\ res = [w \in Worker |-> "ok"]
  /\ outcome = [w \in Worker |-> NoOutcome]
  /\ rowStatus = [k \in Key |-> "none"]
  /\ rowEpoch = [k \in Key |-> 0]
  /\ calls = [k \in Key |-> 0]
  /\ done = [k \in Key |-> FALSE]

(* The run, as RunStore changes it: the lease lapses, or the run leaves    *)
(* the active statuses; a new thread claims an unowned or expired run,     *)
(* perhaps in the very process whose older thread is still running.        *)

Lapse ==
  /\ live
  /\ live' = FALSE
  /\ UNCHANGED <<epoch, token, threadVars, rowVars, handlerVars>>

Claim(w) ==
  /\ ~ live
  /\ epoch < MaxEpoch
  /\ token[w] = 0
  /\ live' = TRUE
  /\ epoch' = epoch + 1
  /\ token' = [token EXCEPT ![w] = epoch + 1]
  /\ UNCHANGED <<threadVars, rowVars, handlerVars>>

\* An exception leaves execute and ends the pipeline thread of w.
Abort(w) ==
  /\ token' = [token EXCEPT ![w] = 0]
  /\ pc' = [pc EXCEPT ![w] = "idle"]
  /\ outcome' = [outcome EXCEPT ![w] = NoOutcome]
  /\ UNCHANGED <<epoch, live, key, try, res, rowVars, handlerVars>>

Crash(p) ==
  /\ token' = [w \in Worker |-> IF ProcOf[w] = p THEN 0 ELSE token[w]]
  /\ pc' = [w \in Worker |-> IF ProcOf[w] = p THEN "idle" ELSE pc[w]]
  /\ outcome' = [w \in Worker |-> IF ProcOf[w] = p THEN NoOutcome ELSE outcome[w]]
  /\ UNCHANGED <<epoch, live, key, try, res, rowVars, handlerVars>>

(* execute, one store call or one half of a store call at a time.          *)

\* The key lock, then assert_fence.
Enter(w, k) ==
  /\ token[w] # 0
  /\ pc[w] = "idle"
  /\ outcome[w][k] = "none"
  /\ ~ Locked(ProcOf[w], k)
  /\ Fence(w)
  /\ pc' = [pc EXCEPT ![w] = "look"]
  /\ key' = [key EXCEPT ![w] = k]
  /\ UNCHANGED <<runVars, try, res, outcome, rowVars, handlerVars>>

\* get, and _existing_outcome when there is a row.
Reuse(w) ==
  /\ pc[w] = "look"
  /\ rowStatus[key[w]] # "none"
  /\ outcome' = [outcome EXCEPT ![w][key[w]] = OutcomeOfRow(key[w])]
  /\ pc' = [pc EXCEPT ![w] = "idle"]
  /\ UNCHANGED <<runVars, key, try, res, rowVars, handlerVars>>

LookedUp(w) ==
  /\ pc[w] = "look"
  /\ rowStatus[key[w]] = "none"
  /\ pc' = [pc EXCEPT ![w] = "begin"]
  /\ UNCHANGED <<runVars, key, try, res, outcome, rowVars, handlerVars>>

\* The SELECT of begin, record_attempt and finish.
Checked(w) ==
  /\ Fence(w)
  /\ \/ pc[w] = "begin" /\ pc' = [pc EXCEPT ![w] = "insert"]
     \/ pc[w] = "record" /\ pc' = [pc EXCEPT ![w] = "recordWrite"]
     \/ pc[w] = "finish" /\ pc' = [pc EXCEPT ![w] = "finishWrite"]
  /\ UNCHANGED <<runVars, key, try, res, outcome, rowVars, handlerVars>>

\* StaleRunOwnerError from any of them, or from assert_fence, is re-raised.
Stale(w) ==
  /\ token[w] # 0
  /\ pc[w] \in {"idle", "begin", "record", "finish"}
  /\ ~ Fence(w)
  /\ Abort(w)

\* The INSERT of begin.
Insert(w) ==
  /\ pc[w] = "insert"
  /\ Insertable(key[w])
  /\ rowStatus' = [rowStatus EXCEPT ![key[w]] = "running"]
  /\ rowEpoch' = [rowEpoch EXCEPT ![key[w]] = token[w]]
  /\ pc' = [pc EXCEPT ![w] = "call"]
  /\ try' = [try EXCEPT ![w] = 1]
  /\ UNCHANGED <<runVars, key, res, outcome, handlerVars>>

\* sqlite3.IntegrityError: another process inserted the key first.
InsertRefused(w) ==
  /\ pc[w] = "insert"
  /\ ~ Insertable(key[w])
  /\ Abort(w)

\* handler(event, action): it returns, or raises after any part of its effect.
Handler(w) ==
  /\ pc[w] = "call"
  /\ calls' = [calls EXCEPT ![key[w]] = @ + 1]
  /\ \E r \in {"ok", "transient", "permanent"} :
       /\ res' = [res EXCEPT ![w] = r]
       /\ done' = [done EXCEPT ![key[w]] = @ \/ r = "ok"]
  /\ pc' = [pc EXCEPT ![w] = "record"]
  /\ UNCHANGED <<runVars, key, try, outcome, rowVars>>

\* The UPDATE of w's own row; its owner and token never change once inserted.
OwnRow(w) == rowStatus[key[w]] # "none" /\ rowEpoch[key[w]] = token[w]

\* record_attempt has committed: on to finish, or round the loop again.
Recorded(w) ==
  /\ pc[w] = "recordWrite"
  /\ OwnRow(w)
  /\ IF Retries(w)
     THEN /\ try' = [try EXCEPT ![w] = @ + 1]
          /\ pc' = [pc EXCEPT ![w] = "call"]
     ELSE /\ UNCHANGED try
          /\ pc' = [pc EXCEPT ![w] = "finish"]
  /\ UNCHANGED <<runVars, key, res, outcome, rowVars, handlerVars>>

\* finish has committed: execute returns.
Finished(w) ==
  /\ pc[w] = "finishWrite"
  /\ OwnRow(w)
  /\ rowStatus' = [rowStatus EXCEPT ![key[w]] = ResultOf(res[w])]
  /\ outcome' = [outcome EXCEPT ![w][key[w]] = ResultOf(res[w])]
  /\ pc' = [pc EXCEPT ![w] = "idle"]
  /\ UNCHANGED <<runVars, key, try, res, rowEpoch, handlerVars>>

\* sqlite3.OperationalError ("database is locked") from a store call.  After
\* the handler returned, record_attempt and finish are inside its try block: the
\* error is classified as transient and recorded like a failure of the tool.
\* Anywhere else it leaves execute.
DatabaseError(w) ==
  \/ /\ pc[w] \in {"record", "recordWrite", "finish", "finishWrite"}
     /\ res[w] = "ok"
     /\ res' = [res EXCEPT ![w] = "transient"]
     /\ pc' = [pc EXCEPT ![w] = "record"]
     /\ UNCHANGED <<runVars, key, try, outcome, rowVars, handlerVars>>
  \/ /\ \/ pc[w] \in {"look", "begin", "insert"}
        \/ /\ pc[w] \in {"record", "recordWrite", "finish", "finishWrite"}
           /\ res[w] # "ok"
     /\ Abort(w)

Step(w) ==
  \/ \E k \in Key : Enter(w, k)
  \/ Reuse(w)
  \/ LookedUp(w)
  \/ Checked(w)
  \/ Stale(w)
  \/ Insert(w)
  \/ InsertRefused(w)
  \/ Handler(w)
  \/ Recorded(w)
  \/ Finished(w)
  \/ DatabaseError(w)

Next ==
  \/ Lapse
  \/ \E w \in Worker : Claim(w) \/ Step(w)
  \/ \E p \in Proc : Crash(p)

Spec == Init /\ [][Next]_vars
-----------------------------------------------------------------------------
(* What makes the executor correct.                                        *)

\* execute, docstring: a prior execution whose outcome is unknown is never
\* replayed.  Whoever calls the handler holds the token that began the row, so no
\* later claim, no other process and no other thread of the same one runs it again.
OnlyTheStarterCalls ==
  [][\A k \in Key : calls'[k] > calls[k]
       => \E w \in Worker : /\ pc[w] = "call"
                            /\ key[w] = k
                            /\ rowStatus[k] = "running"
                            /\ rowEpoch[k] = token[w]]_vars

\* At most one thread anywhere is between the INSERT and the end of execute for k.
OneThreadPerKey ==
  \A v, w \in Worker :
    /\ key[v] = key[w]
    /\ {pc[v], pc[w]} \subseteq {"call", "record", "recordWrite", "finish",
                                 "finishWrite"}
    => v = w

\* What a plan was told about a step is what the table says about it: a later
\* decision ("succeeded", "manual_takeover") rests on recorded facts.
OutcomeIsRecorded ==
  \A w \in Worker, k \in Key :
    outcome[w][k] \in {"succeeded", "failed"} => outcome[w][k] = rowStatus[k]

\* A step recorded as succeeded was performed by its handler.
SuccessIsReal == \A k \in Key : rowStatus[k] = "succeeded" => done[k]

\* The executor implements the ledger: begun once, called within the budget, and
\* a recorded outcome is final, whoever crashes or loses its lease.
Ledger == INSTANCE ToolLedger

RefinesLedger == Ledger!Spec

\* Docstring, "Execute registered tools once per idempotency key with bounded safe
\* retries": a handler that has returned is not called again.
DoneIsNotRepeated ==
  [][\A k \in Key : done[k] => calls'[k] = calls[k]]_vars

\* docs/agent-runtime.md "Lease and Fencing Token", tool results are written under
\* the current token: a worker that has been superseded records no result.
ResultsAreFenced ==
  [][\A k \in Key : /\ rowStatus'[k] # rowStatus[k]
                    /\ rowStatus'[k] \in {"succeeded", "failed"}
       => \E w \in Worker : /\ key[w] = k
                            /\ pc[w] # "idle"
                            /\ token[w] = epoch]_vars
=============================================================================
