------------------------------ MODULE Approval ------------------------------
(***************************************************************************)
(* AgentRuntime.approve over its four stores, for one order: the order     *)
(* file of tools/human_loop.py with a cache per process, the alarm row of  *)
(* tools/database.py, the execution file of tools/actuator.py and the run. *)
(* Beside the requests there is the pipeline that made the order and may   *)
(* not be done yet, a pipeline that resumes it after a crash, and an       *)
(* operator who resolves the run by hand.                                  *)
(*                                                                         *)
(* Files are truncated and then written, so that a reader without the lock *)
(* of the writer, or one after a crash, may find half a file ("torn") and  *)
(* fails on it.  A database call is one step.  Operators ask what they     *)
(* like, when they like, at any process: nothing in approve or in the      *)
(* threaded server in front of it keeps two requests apart.  What they did *)
(* is recorded in came, and the properties say what an order can rely on   *)
(* as long as they came in a certain way.                                  *)
(***************************************************************************)
EXTENDS Naturals, Sequences

CONSTANTS
  Proc,         \* processes of the host
  Request,      \* requests in flight; operators repeat them as they like
  Home,         \* the process whose pipeline made the order
  MaxFaults     \* bound: crashes, requests that fail half-way

ASSUME ApprovalAssumption ==
  /\ Home \in Proc
  /\ MaxFaults \in Nat

VARIABLES
  hold,         \* its hold_reason: "high_risk", or "review" for REVIEW_ONLY_HOLD_REASONS
  file,         \* the status in the order file
  cache,        \* cache[p]: the status in _approvals of p, "none" without an entry
  alarm,        \* the alarm row
  exec,         \* the status in the execution file
  run,          \* the agent_runs row
  worker,       \* the pipeline of the run
  resolver,     \* resolve_recovery: what it has read of the run's approval_status
  req,          \* req[q]: the request q
  decided,      \* history: the last decision written whole
  effects,      \* history: the executions, in the order in which they were written
  came,         \* history: the requests so far: what they asked for, where, and
                \* whether each of them came while no other was in flight
  faults        \* faults so far

stores == <<file, cache, alarm, exec, run>>
history == <<decided, effects, came>>
vars == <<hold, stores, worker, resolver, req, history, faults>>

StatusOf(action) == IF action = "approve" THEN "approved" ELSE "rejected"

Effects == {"executed", "cancelled", "reviewed"}

OrderStatus == {"pending", "approved", "rejected"}

Off == [pc |-> "off", proc |-> Home, action |-> "approve", got |-> "none",
        overlaps |-> FALSE]

TypeOK ==
  /\ hold \in {"high_risk", "review"}
  /\ file \in OrderStatus \cup {"torn"}
  /\ cache \in [Proc -> OrderStatus \cup {"none"}]
  /\ alarm \in [there : BOOLEAN, approval : OrderStatus \cup {"none", "auto"},
                execution : Effects \cup {"none"}]
  /\ exec \in Effects \cup {"none", "torn"}
  /\ run \in [status : {"executing", "waiting_approval", "manual_takeover", "succeeded",
                        "permanent_failed", "cancelled"},
              approval : OrderStatus \cup {"none"}, execution : Effects \cup {"none"}]
  /\ worker \in [at : {"store", "tools", "snapshot", "gone"}, proc : Proc,
                 says : {"pending", "auto"}]
  /\ resolver \in OrderStatus \cup {"none", "idle"}
  /\ req \in [Request -> [pc : {"off", "handle", "write", "persist", "look", "open",
                                "act", "record", "patch", "close"},
                          proc : Proc, action : {"approve", "reject"},
                          got : Effects \cup {"none"}, overlaps : BOOLEAN]]
  /\ decided \in {"none", "approved", "rejected"}
  /\ effects \in Seq(Effects)
  /\ came \in [asked : SUBSET {"approve", "reject"}, at : SUBSET Proc, alone : BOOLEAN]
  /\ faults \in 0..MaxFaults

\* The order has just been made by human_loop.check, the first tool of the plan.
Init ==
  /\ hold \in {"high_risk", "review"}
  /\ file = "pending"
  /\ cache = [p \in Proc |-> IF p = Home THEN "pending" ELSE "none"]
  /\ alarm = [there |-> FALSE, approval |-> "none", execution |-> "none"]
  /\ exec = "none"
  /\ run = [status |-> "executing", approval |-> "none", execution |-> "none"]
  /\ worker = [at |-> "store", proc |-> Home, says |-> "pending"]
  /\ resolver = "idle"
  /\ req = [q \in Request |-> Off]
  /\ decided = "none"
  /\ effects = <<>>
  /\ came = [asked |-> {}, at |-> {}, alone |-> TRUE]
  /\ faults = 0

Fault == faults < MaxFaults /\ faults' = faults + 1
-----------------------------------------------------------------------------
(* The pipeline that made the order, and the one that resumes its run.      *)

Goes(at) == worker' = [worker EXCEPT !.at = at]

\* database.store, the second tool; a failure of it leaves no row.
StoreAlarm ==
  /\ worker.at = "store"
  /\ alarm' \in {alarm, [alarm EXCEPT !.there = TRUE, !.approval = worker.says]}
  /\ Goes("tools")
  /\ UNCHANGED <<hold, file, cache, exec, run, resolver, req, history, faults>>

\* The last transition of a pass stores the event of the worker with the status.
Conclude ==
  /\ worker.at = "tools"
  /\ run.status = "executing"
  /\ \E end \in IF worker.says = "pending" THEN {"waiting_approval"}
                                           ELSE {"succeeded", "manual_takeover"} :
       run' = [run EXCEPT !.status = end,
                 !.approval = IF worker.says = "pending" THEN "pending" ELSE "none"]
  /\ Goes("snapshot")
  /\ UNCHANGED <<hold, file, cache, alarm, exec, resolver, req, history, faults>>

\* update_event_snapshot.
Snapshot ==
  /\ worker.at = "snapshot"
  /\ alarm' = IF alarm.there THEN [alarm EXCEPT !.approval = worker.says] ELSE alarm
  /\ Goes("gone")
  /\ UNCHANGED <<hold, file, cache, exec, run, resolver, req, history, faults>>

\* Recovery of a run whose worker is gone: its own event knows of no approval, so the
\* reused check ends as "auto" (_resume_tool_execution), or a person takes over.
Resume(p) ==
  /\ worker.at = "gone"
  /\ run.status = "executing"
  /\ worker' = [at |-> IF alarm.there THEN "tools" ELSE "store", proc |-> p, says |-> "auto"]
  /\ UNCHANGED <<hold, stores, resolver, req, history, faults>>

TakeOver ==
  /\ worker.at = "gone"
  /\ run.status = "executing"
  /\ run' = [run EXCEPT !.status = "manual_takeover"]
  /\ UNCHANGED <<hold, file, cache, alarm, exec, worker, resolver, req, history,
                 faults>>

\* resolve_recovery reads the run and later writes the event it has read with a final status.
Overlapping == [q \in Request |-> [req[q] EXCEPT !.overlaps = (req[q].pc # "off")]]

ResolveRead ==
  /\ resolver = "idle"
  /\ run.status = "manual_takeover"
  /\ resolver' = run.approval
  /\ req' = Overlapping
  /\ UNCHANGED <<hold, stores, worker, history, faults>>

ResolveWrite ==
  /\ resolver # "idle"
  /\ resolver' = "idle"
  /\ IF run.status = "manual_takeover"
     THEN \E end \in {"succeeded", "permanent_failed", "cancelled"} :
            run' = [run EXCEPT !.status = end, !.approval = resolver]
     ELSE UNCHANGED run
  /\ UNCHANGED <<hold, file, cache, alarm, exec, worker, req, history, faults>>
-----------------------------------------------------------------------------
(* A request.                                                               *)

\* _load_order: the cache of the process, or else the file.
Loaded(p) == IF cache[p] # "none" THEN cache[p] ELSE file

Step(q, to) == req' = [req EXCEPT ![q].pc = to]

Closed(q) == req' = [req EXCEPT ![q] = Off]

\* The lock of the human loop tool is held from the second load to the end of the write.
LockFree(p) == \A q \in Request : req[q].proc = p => req[q].pc # "write"

\* Mutant: an order that was decided may be decided again.
AcceptsM(status, action) == status # "torn"

Accepts(status, action) == status \in {"pending", StatusOf(action)}

Quiet == \A r \in Request : req[r].pc = "off"

\* An order that cannot be read or was decided otherwise is refused at once.
Open(q, p, action) ==
  /\ req[q].pc = "off"
  /\ Accepts(Loaded(p), action)
  /\ req' = [Overlapping EXCEPT ![q] =
       [pc |-> IF Loaded(p) = "pending" THEN "handle" ELSE "persist",
        proc |-> p, action |-> action, got |-> "none",
        overlaps |-> ~Quiet \/ worker.at # "gone" \/ resolver # "idle"
                            \/ run.status = "executing"]]
  /\ came' = [asked |-> came.asked \cup {action}, at |-> came.at \cup {p},
              alone |-> came.alone /\ Quiet]
  /\ UNCHANGED <<hold, stores, worker, resolver, decided, effects, faults>>

\* _approve and _reject load the order again and do not look at its status.
Handle(q) ==
  LET p == req[q].proc
  IN /\ req[q].pc = "handle"
     /\ LockFree(p)
     /\ Loaded(p) # "torn"
     /\ file' = "torn"
     /\ Step(q, "write")
     /\ UNCHANGED <<hold, cache, alarm, exec, run, worker, resolver, history, faults>>

Write(q) ==
  LET status == StatusOf(req[q].action)
  IN /\ req[q].pc = "write"
     /\ file' = status
     /\ cache' = [cache EXCEPT ![req[q].proc] = status]
     /\ decided' = status
     /\ Step(q, "persist")
     /\ UNCHANGED <<hold, alarm, exec, run, worker, resolver, effects, came,
                    faults>>

\* Mutant: only a row that says pending is updated.
PersistM(q) ==
  /\ req[q].pc = "persist"
  /\ Loaded(req[q].proc) # "torn"
  /\ alarm' = IF alarm.approval = "pending"
              THEN [alarm EXCEPT !.approval = StatusOf(req[q].action)] ELSE alarm
  /\ Step(q, "look")
  /\ UNCHANGED <<hold, file, cache, exec, run, worker, resolver, history, faults>>

\* The order is loaded a third time for its hold_reason; update_approval_status.
Persist(q) ==
  /\ req[q].pc = "persist"
  /\ Loaded(req[q].proc) # "torn"
  /\ alarm' = IF alarm.there THEN [alarm EXCEPT !.approval = StatusOf(req[q].action)]
                             ELSE alarm
  /\ Step(q, "look")
  /\ UNCHANGED <<hold, file, cache, exec, run, worker, resolver, history, faults>>

\* Mutant: the actuator does not know the action it is asked for.
EffectM(status) == IF status = "rejected" THEN "cancelled" ELSE "unknown"

\* The actuator action for a decision on this order, by what it writes.
Effect(status) ==
  CASE status = "rejected" -> "cancelled"
    [] status # "rejected" /\ hold = "review" -> "reviewed"
    [] OTHER -> "executed"

\* The lock of the actuator tool, of this process alone, is held while a file is read
\* and while it is written, and is given back in between.
ActuatorFree(p) == \A q \in Request : req[q].proc = p => req[q].pc # "act"

\* ActuatorTool._load of the stable execution id.
Existing == exec

Look(q) ==
  /\ req[q].pc = "look"
  /\ ActuatorFree(req[q].proc)
  /\ Existing # "torn"
  /\ IF Existing = "none"
     THEN Step(q, "open")
     ELSE req' = [req EXCEPT ![q].pc = "record", ![q].got = Existing]
  /\ UNCHANGED <<hold, stores, worker, resolver, history, faults>>

\* The open of ActuatorTool._write does not look again.
Truncate(q) ==
  /\ req[q].pc = "open"
  /\ ActuatorFree(req[q].proc)
  /\ exec' = "torn"
  /\ Step(q, "act")
  /\ UNCHANGED <<hold, file, cache, alarm, run, worker, resolver, history, faults>>

\* Over the longer text of another process the shorter one is no whole file.
Act(q) ==
  LET effect == Effect(StatusOf(req[q].action))
  IN /\ req[q].pc = "act"
     /\ exec' \in IF exec \in {"torn", effect} THEN {effect} ELSE {effect, "torn"}
     /\ effects' = Append(effects, effect)
     /\ req' = [req EXCEPT ![q].pc = "record", ![q].got = effect]
     /\ UNCHANGED <<hold, file, cache, alarm, run, worker, resolver, decided, came, faults>>

\* update_execution_status.
Record(q) ==
  /\ req[q].pc = "record"
  /\ alarm' = IF alarm.there THEN [alarm EXCEPT !.execution = req[q].got] ELSE alarm
  /\ Step(q, "patch")
  /\ UNCHANGED <<hold, file, cache, exec, run, worker, resolver, history, faults>>

\* patch_event without a token passes when no worker owns the run.
Patch(q) ==
  /\ req[q].pc = "patch"
  /\ run.status # "executing"
  /\ run' = [run EXCEPT !.approval = StatusOf(req[q].action), !.execution = req[q].got]
  /\ Step(q, "close")
  /\ UNCHANGED <<hold, file, cache, alarm, exec, worker, resolver, history, faults>>

RunResult(got) == IF got \in {"executed", "reviewed"} THEN "succeeded" ELSE "cancelled"

\* The transition the table allows, or the status the run has already; the answer is 200.
Close(q) ==
  LET to == RunResult(req[q].got)
  IN /\ req[q].pc = "close"
     /\ run.status \in {"waiting_approval", "manual_takeover", to}
     /\ run' = [run EXCEPT !.status = to]
     /\ Closed(q)
     /\ UNCHANGED <<hold, file, cache, alarm, exec, worker, resolver, history, faults>>

\* What ends a request with an exception: a torn file, a run that is owned or has ended
\* otherwise, or, as a fault, an error of the disk or a database.
Stopped(q) ==
  \/ req[q].pc \in {"handle", "persist"} /\ Loaded(req[q].proc) = "torn"
  \/ req[q].pc = "look" /\ ActuatorFree(req[q].proc) /\ Existing = "torn"
  \/ req[q].pc = "patch" /\ run.status = "executing"
  \/ /\ req[q].pc = "close"
     /\ run.status \notin {"waiting_approval", "manual_takeover", RunResult(req[q].got)}

Dropped(q) ==
  /\ req[q].pc # "off"
  /\ \/ Stopped(q) /\ UNCHANGED faults
     \/ Fault
  /\ Closed(q)
  /\ UNCHANGED <<hold, stores, worker, resolver, history>>

\* A process dies and is started again: its cache, requests and pipeline are gone.
Crash(p) ==
  /\ Fault
  /\ cache' = [cache EXCEPT ![p] = "none"]
  /\ req' = [q \in Request |-> IF req[q].proc = p THEN Off ELSE req[q]]
  /\ worker' = IF worker.proc = p THEN [worker EXCEPT !.at = "gone"] ELSE worker
  /\ UNCHANGED <<hold, file, alarm, exec, run, resolver, history>>
-----------------------------------------------------------------------------
Serve(q) ==
  \/ Handle(q) \/ Write(q) \/ Persist(q) \/ Look(q) \/ Truncate(q) \/ Act(q)
  \/ Record(q) \/ Patch(q) \/ Close(q)

Next ==
  \/ StoreAlarm \/ Conclude \/ Snapshot \/ TakeOver \/ ResolveRead \/ ResolveWrite
  \/ \E p \in Proc : Resume(p) \/ Crash(p)
  \/ \E q \in Request :
       \/ \E p \in Proc, action \in {"approve", "reject"} : Open(q, p, action)
       \/ Serve(q) \/ Dropped(q)

Spec == Init /\ [][Next]_vars
-----------------------------------------------------------------------------
(* How the operators have come so far.                                      *)

OneMind == \E action \in {"approve", "reject"} : came.asked \subseteq {action}

OneOffice == \E p \in Proc : came.at \subseteq {p}

\* One after the other; those who disagree, at one process.
Apart == came.alone /\ (OneMind \/ OneOffice)

\* All asked for the same, however they came; or one after the other at one process.
Agreed == OneMind \/ (came.alone /\ OneOffice)
-----------------------------------------------------------------------------
(* What an approval promises.                                              *)

Lifecycle == INSTANCE OrderLifecycle WITH decision <- decided

\* approve's refusal "approval order already ..." and the stable execution id: an order
\* whose requests come one after the other, and if they disagree to one process, is
\* decided once and carried out once, as decided, through crashes, requests that die
\* half-way and are repeated, restarts and whatever the pipeline and the operators of
\* the run do meanwhile.
DecidedOnce ==
  Lifecycle!Init /\ [][Apart' => Lifecycle!Next \/ UNCHANGED <<decided, effects>>]_vars

\* An answer 200 to a request nobody interfered with means that order, alarm row,
\* execution and run agree, however many requests overlapped or died half-way before it,
\* as long as those who disagreed came one after the other to one process.
OkMeansStored ==
  [][\A q \in Request :
       Close(q) /\ ~req[q].overlaps /\ Agreed =>
         LET status == StatusOf(req[q].action)
         IN /\ decided = status
            /\ exec = Effect(status)
            /\ alarm.there => alarm.approval = status /\ alarm.execution = exec
            /\ run'.approval = status /\ run'.execution = exec
            /\ run'.status = RunResult(exec)]_vars

\* The refusal in approve (agent_runtime.py:526): what is approved does not become
\* rejected, nor the other way round.
DecisionIsFinal ==
  [][decided # "none" => decided' = decided]_vars

\* test_a_level_approval_and_actuation_are_idempotent, "_execution_id(approval_id)": an
\* approval that is repeated does not actuate a second time.  Two that overlap do.
ActuatedOnce == Len(effects) <= 1
==============================================================================
