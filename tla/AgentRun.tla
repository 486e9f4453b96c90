------------------------------ MODULE AgentRun ------------------------------
(***************************************************************************)
(* services/agent_runtime.py: one durable run from its creation to its     *)
(* end, through the pipeline, the tools, recovery and the approval API.    *)
(*                                                                         *)
(* A status write and a claim are one step, as RunStore shows them to      *)
(* behave: their UPDATE repeats the fence.  The INSERT and the UPDATE of a *)
(* tool row do not, so the fence check of a begin or a finish is a step of *)
(* its own, and a worker may lose the run between it and the write.  So    *)
(* are the steps the runtime itself strings together: claim, audit and     *)
(* what follows from it, the three statuses of a pass, the handler of a    *)
(* tool, the order, the actuator, the patch and the transition of an       *)
(* approval.  Workers and requests may stop between any two of them.       *)
(*                                                                         *)
(* The sources of a handler's effect that matter are the approval order    *)
(* (human_loop.check) and the actuator's file; both live outside SQLite    *)
(* and are written without a fence.                                        *)
(***************************************************************************)
EXTENDS Naturals, Sequences, RunStatus

CONSTANTS
  Worker,       \* pipeline and recovery threads, of one or several processes
  Request,      \* approval and recovery requests in flight
  NoWorker,     \* owner_id IS NULL
  RuleLevel,    \* the level of the detected events: "A", "B" or "C"
  MaxFaults,    \* bound: crashes, lost leases and swallowed errors
  MaxRetries    \* bound: retry_analysis requests

ASSUME RunAssumption ==
  /\ NoWorker \notin Worker
  /\ RuleLevel \in {"A", "B", "C"}
  /\ MaxFaults \in Nat
  /\ MaxRetries \in Nat

VARIABLES
  status,       \* agent_runs.status
  owner,        \* whose token is in the row, or NoWorker
  live,         \* lease_until is in the future
  snap,         \* event_json: level of the plan, review, approval
  rows,         \* rows[k]: tool_executions.status of tool step k
  order,        \* status of the approval order file, "none" before there is one
  hold,         \* hold_reason of the order: "risk" or "review"
  actuator,     \* status of the actuator's execution file
  settledBy,    \* what gave the run its last status: a worker, approval, operator
  pc,           \* pc[w]: where thread w is
  ev,           \* ev[w]: its event object
  next,         \* next[w]: position in the plan
  bad,          \* bad[w]: an outcome so far was failed or indeterminate
  req,          \* req[q]: an operator's request: its step, its decision, what it
                \* read (order, event) and the execution it answers with
  faults,       \* faults so far
  retries       \* retry_analysis requests so far

runVars == <<status, owner, live, snap, settledBy>>
toolVars == <<rows, order, hold>>
threadVars == <<pc, ev, next, bad>>
boundVars == <<faults, retries>>

vars == <<runVars, toolVars, actuator, threadVars, req, boundVars>>

Levels == {"A", "B", "C"}
Weight == [l \in Levels |-> CASE l = "A" -> 3 [] l = "B" -> 2 [] l = "C" -> 1]

Plan == [l \in Levels |->
          CASE l = "A" -> <<"check", "store", "send_urgent", "generate">>
            [] l = "B" -> <<"check", "store", "send", "log">>
            [] l = "C" -> <<"check", "store">>]

Tool == {"check", "store", "send_urgent", "generate", "send", "log"}

Steps(l) == {Plan[l][i] : i \in 1..Len(Plan[l])}

Event == [level : Levels \cup {"none"}, review : BOOLEAN,
          approval : {"none", "pending", "approved", "rejected"}]

NoEvent == [level |-> "none", review |-> FALSE, approval |-> "none"]

Resolution == {"analyzing", "succeeded", "permanent_failed", "cancelled"}

NoRequest == [step |-> "off", decision |-> "none", seen |-> "none",
              event |-> NoEvent, execution |-> "none"]

PC == {"off", "audit", "park", "finalize", "resume", "replay", "analyse",
       "decided", "tools", "insert", "handler", "failed", "returned",
       "failing", "succeeding"}

TypeOK ==
  /\ status \in Status
  /\ owner \in Worker \cup {NoWorker}
  /\ live \in BOOLEAN
  /\ snap \in Event
  /\ rows \in [Tool -> {"none", "running", "succeeded", "failed"}]
  /\ order \in {"none", "pending", "approved", "rejected"}
  /\ hold \in {"none", "risk", "review"}
  /\ actuator \in {"none", "executed", "reviewed", "cancelled"}
  /\ settledBy \in {"worker", "approval", "operator"}
  /\ pc \in [Worker -> PC]
  /\ ev \in [Worker -> Event]
  /\ next \in [Worker -> 1..5]
  /\ bad \in [Worker -> BOOLEAN]
  /\ req \in [Request ->
               [step : {"off", "decide", "look", "act", "patch", "settle",
                        "resolve"},
                decision : {"none", "approved", "rejected"} \cup Resolution,
                seen : {"none", "pending", "approved", "rejected"},
                event : Event,
                execution : {"none", "executed", "reviewed", "cancelled"}]]
  /\ faults \in 0..MaxFaults
  /\ retries \in 0..MaxRetries

-----------------------------------------------------------------------------
(* Checks and decisions.  Names ending in M are plausible mistakes.        *)

Fence(w) == owner = w /\ live /\ status \in ActiveStatuses

ClaimableM == status \in ActiveStatuses /\ owner = NoWorker

Claimable == status \in ActiveStatuses /\ (owner = NoWorker \/ ~ live)

\* An external action failed, or nobody knows how it ended.
Uncertain == \E k \in Tool : rows[k] \in {"running", "failed"}

\* expected_actions is not empty and a subset of successful_actions.
AllSucceededM(e) ==
  e.level # "none" /\ \E k \in Steps(e.level) : rows[k] = "succeeded"

AllSucceeded(e) ==
  e.level # "none" /\ \A k \in Steps(e.level) : rows[k] = "succeeded"

\* _check_and_hold: level A, or evidence that must be reviewed.
Holds(e) == e.review \/ e.level = "A"

\* The end of a pass: a pending approval outweighs a failed tool.
FinalStatus(w) ==
  CASE ev[w].approval = "pending" -> "waiting_approval"
    [] ev[w].approval # "pending" /\ bad[w] -> "manual_takeover"
    [] OTHER -> "succeeded"

ActionM2(d) == d

\* The actuator action of a decision on the order.
Action(d) ==
  CASE d = "rejected" -> "cancelled"
    [] d = "approved" /\ hold = "review" -> "reviewed"
    [] OTHER -> "executed"

\* An order already decided the other way is refused with 409.
Accepts(d) == order \in {"pending", d}

NeedsNoToolsM == TRUE

\* retry_analysis is refused once tool rows exist.
NeedsNoTools == \A k \in Tool : rows[k] = "none"
-----------------------------------------------------------------------------
\* create_or_get has committed; nobody has claimed the run yet.
Init ==
  /\ status = "analyzing"
  /\ owner = NoWorker
  /\ live = FALSE
  /\ snap = NoEvent
  /\ rows = [k \in Tool |-> "none"]
  /\ order = "none"
  /\ hold = "none"
  /\ actuator = "none"
  /\ settledBy = "worker"
  /\ pc = [w \in Worker |-> "off"]
  /\ ev = [w \in Worker |-> NoEvent]
  /\ next = [w \in Worker |-> 1]
  /\ bad = [w \in Worker |-> FALSE]
  /\ req = [q \in Request |-> NoRequest]
  /\ faults = 0
  /\ retries = 0

(* A status transition of worker w with its event as the new snapshot.     *)

Transition(w, from, to) ==
  /\ Fence(w)
  /\ status \in from
  /\ status' = to
  /\ snap' = ev[w]
  /\ settledBy' = "worker"
  /\ IF to \in ActiveStatuses THEN UNCHANGED <<owner, live>>
                              ELSE owner' = NoWorker /\ live' = FALSE

\* The thread ends and forgets everything.
Ends(w) ==
  /\ pc' = [pc EXCEPT ![w] = "off"]
  /\ ev' = [ev EXCEPT ![w] = NoEvent]
  /\ next' = [next EXCEPT ![w] = 1]
  /\ bad' = [bad EXCEPT ![w] = FALSE]

Goes(w, to) == pc' = [pc EXCEPT ![w] = to] /\ UNCHANGED <<ev, next, bad>>

(* Claim and audit: ingest for a new run, the recovery sweep and            *)
(* resolve_recovery for an old one.                                        *)

Claim(w) ==
  /\ pc[w] = "off"
  /\ Claimable
  /\ owner' = w
  /\ live' = TRUE
  /\ pc' = [pc EXCEPT ![w] = "audit"]
  /\ ev' = [ev EXCEPT ![w] = snap]
  /\ UNCHANGED <<status, snap, settledBy, toolVars, actuator, next, bad, req,
                 boundVars>>

\* The audit reads the tool rows; what follows from them is a later step.
Audit(w) ==
  /\ pc[w] = "audit"
  /\ \/ Uncertain /\ Goes(w, "park")
     \/ ~ Uncertain /\ AllSucceeded(ev[w]) /\ Goes(w, "finalize")
     \/ ~ Uncertain /\ ~ AllSucceeded(ev[w]) /\ Goes(w, "resume")
  /\ UNCHANGED <<runVars, toolVars, actuator, req, boundVars>>

AuditManual(w) ==
  /\ pc[w] = "park"
  /\ Transition(w, ActiveStatuses, "manual_takeover")
  /\ Ends(w)
  /\ UNCHANGED <<toolVars, actuator, req, boundVars>>

AuditFinalize(w) ==
  /\ pc[w] = "finalize"
  /\ Transition(w, ActiveStatuses,
                IF ev[w].approval = "pending" THEN "waiting_approval"
                                              ELSE "succeeded")
  /\ Ends(w)
  /\ UNCHANGED <<toolVars, actuator, req, boundVars>>

Resumable(w) == pc[w] = "resume" /\ Fence(w)

\* _resume_tool_execution: the plan of the snapshot's level, from its start.
AuditResume(w) ==
  /\ Resumable(w)
  /\ ev[w].level # "none"
  /\ status = "executing"
  /\ Goes(w, "tools")
  /\ UNCHANGED <<runVars, toolVars, actuator, req, boundVars>>

\* Otherwise the analysis is replayed, by way of retryable_failed.
AuditReplay(w) ==
  /\ Resumable(w)
  /\ ~ (ev[w].level # "none" /\ status = "executing")
  /\ \/ /\ status = "analyzing"
        /\ Goes(w, "analyse")
        /\ UNCHANGED runVars
     \/ /\ status = "retryable_failed"
        /\ Goes(w, "replay")
        /\ UNCHANGED runVars
     \/ /\ Transition(w, {"decided", "executing"}, "retryable_failed")
        /\ Goes(w, "replay")
  /\ UNCHANGED <<toolVars, actuator, req, boundVars>>

Replay(w) ==
  /\ pc[w] = "replay"
  /\ Transition(w, {"retryable_failed"}, "analyzing")
  /\ Goes(w, "analyse")
  /\ UNCHANGED <<toolVars, actuator, req, boundVars>>

(* The pipeline.  The model, its timeout or its overload may raise the     *)
(* level and may demand a review; the rule level is the floor.             *)

Analyse(w) ==
  /\ pc[w] = "analyse"
  /\ Fence(w)
  /\ status = "analyzing"
  /\ \E l \in Levels, r \in BOOLEAN :
       /\ Weight[l] >= Weight[RuleLevel]
       /\ ev' = [ev EXCEPT ![w] = [level |-> l, review |-> r,
                                   approval |-> ev[w].approval]]
       /\ snap' = ev'[w]
  /\ status' = "decided"
  /\ settledBy' = "worker"
  /\ pc' = [pc EXCEPT ![w] = "decided"]
  /\ UNCHANGED <<owner, live, next, bad, toolVars, actuator, req, boundVars>>

Execute(w) ==
  /\ pc[w] = "decided"
  /\ Transition(w, {"decided"}, "executing")
  /\ Goes(w, "tools")
  /\ UNCHANGED <<toolVars, actuator, req, boundVars>>

HasStep(w) == pc[w] = "tools" /\ next[w] <= Len(Plan[ev[w].level])

Current(w) == Plan[ev[w].level][next[w]]

\* ToolExecutor.begin: the fence check, behind which no row was found.
Begin(w) ==
  /\ HasStep(w)
  /\ Fence(w)
  /\ rows[Current(w)] = "none"
  /\ Goes(w, "insert")
  /\ UNCHANGED <<runVars, toolVars, actuator, req, boundVars>>

\* The unique idempotency key.
Vacant(w) == rows[Current(w)] = "none"

\* The INSERT of begin, which repeats neither owner nor lease nor status.
Insert(w) ==
  /\ pc[w] = "insert"
  /\ Vacant(w)
  /\ rows' = [rows EXCEPT ![Current(w)] = "running"]
  /\ Goes(w, "handler")
  /\ UNCHANGED <<runVars, order, hold, actuator, req, boundVars>>

\* ToolExecutor._existing_outcome: the event object learns the status only.
Reuse(w) ==
  /\ HasStep(w)
  /\ Fence(w)
  /\ rows[Current(w)] # "none"
  /\ bad' = [bad EXCEPT ![w] = @ \/ rows[Current(w)] # "succeeded"]
  /\ next' = [next EXCEPT ![w] = @ + 1]
  /\ UNCHANGED <<runVars, toolVars, actuator, pc, ev, req, boundVars>>

\* human_loop.check: the order file, and the mark on the event object.
Hold(w) ==
  IF Current(w) = "check" /\ Holds(ev[w])
  THEN /\ order' = "pending"
       /\ hold' = IF ev[w].review THEN "review" ELSE "risk"
       /\ ev' = [ev EXCEPT ![w] = [@ EXCEPT !.approval = "pending"]]
  ELSE UNCHANGED <<order, hold, ev>>

\* The handler.  It does not look at the fence.  The tools other than human_loop
\* matter by their outcome alone.  A handler that has returned still counts as failed
\* when its success cannot be recorded (ToolExecutor!DatabaseError).
Handler(w) ==
  /\ pc[w] = "handler"
  /\ \/ Hold(w) /\ \E to \in {"returned", "failed"} : pc' = [pc EXCEPT ![w] = to]
     \/ pc' = [pc EXCEPT ![w] = "failed"] /\ UNCHANGED <<order, hold, ev>>
  /\ UNCHANGED <<runVars, rows, actuator, next, bad, req, boundVars>>

\* ToolExecutor.finish: the fence check.
Finish(w) ==
  /\ pc[w] \in {"returned", "failed"}
  /\ Fence(w)
  /\ Goes(w, IF pc[w] = "returned" THEN "succeeding" ELSE "failing")
  /\ UNCHANGED <<runVars, toolVars, actuator, req, boundVars>>

\* The UPDATE of finish.  It repeats the token of the tool row alone, and nobody else
\* writes to that row.
Record(w) ==
  /\ pc[w] \in {"succeeding", "failing"}
  /\ rows' = [rows EXCEPT ![Current(w)] =
               IF pc[w] = "succeeding" THEN "succeeded" ELSE "failed"]
  /\ bad' = [bad EXCEPT ![w] = @ \/ pc[w] = "failing"]
  /\ next' = [next EXCEPT ![w] = @ + 1]
  /\ pc' = [pc EXCEPT ![w] = "tools"]
  /\ UNCHANGED <<runVars, order, hold, actuator, ev, req, boundVars>>

\* The last transition of a pass, then update_event_snapshot and broadcast.
Conclude(w) ==
  /\ pc[w] = "tools"
  /\ ~ HasStep(w)
  /\ Transition(w, {"executing"}, FinalStatus(w))
  /\ Ends(w)
  /\ UNCHANGED <<toolVars, actuator, req, boundVars>>

\* Where a thread checks the fence before it goes on.
Fenced(w) ==
  /\ pc[w] \notin {"off", "audit", "handler", "succeeding", "failing"}
  /\ pc[w] = "insert" => ~ Vacant(w)

\* StaleRunOwnerError: the thread stops, or the sweep is abandoned.
Stale(w) ==
  /\ Fenced(w)
  /\ ~ Fence(w)
  /\ Ends(w)
  /\ UNCHANGED <<runVars, toolVars, actuator, req, boundVars>>

\* Any other exception of the pipeline: manual takeover, under the fence.
Error(w) ==
  /\ pc[w] \in {"analyse", "decided", "tools", "insert", "returned", "failed"}
  /\ Transition(w, ActiveStatuses, "manual_takeover")
  /\ Ends(w)
  /\ UNCHANGED <<toolVars, actuator, req, boundVars>>

\* The INSERT raises IntegrityError: another thread was faster.
Collides(w) == pc[w] = "insert" /\ ~ Vacant(w) /\ Error(w)

\* The process dies, or the write of an error fails too and is only logged.
Crash(w) ==
  /\ faults < MaxFaults
  /\ pc[w] # "off"
  /\ Ends(w)
  /\ faults' = faults + 1
  /\ UNCHANGED <<runVars, toolVars, actuator, req, retries>>

\* A heartbeat comes too late while the thread goes on.
LoseLease ==
  /\ faults < MaxFaults
  /\ live
  /\ live' = FALSE
  /\ faults' = faults + 1
  /\ UNCHANGED <<status, owner, snap, settledBy, toolVars, actuator, threadVars,
                 req, retries>>

\* Nobody renews the lease of a thread that has ended.
Expire ==
  /\ live
  /\ pc[owner] = "off"
  /\ live' = FALSE
  /\ UNCHANGED <<status, owner, snap, settledBy, toolVars, actuator, threadVars,
                 req, boundVars>>

-----------------------------------------------------------------------------
(* Operators.  They pass no token, so their writes need an unowned row.    *)

Settle(to, by) ==
  /\ owner = NoWorker
  /\ status' = to
  /\ settledBy' = by

Serves(q, r) == req' = [req EXCEPT ![q] = r] /\ UNCHANGED threadVars

(* resolve_recovery: read the run and, for a retry, its tool rows; then    *)
(* write the event that was read.                                          *)

Ask(q, to) ==
  /\ req[q].step = "off"
  /\ status = "manual_takeover"
  /\ IF to = "analyzing"
     THEN /\ NeedsNoTools
          /\ retries < MaxRetries
          /\ retries' = retries + 1
     ELSE UNCHANGED retries
  /\ Serves(q, [NoRequest EXCEPT !.step = "resolve", !.decision = to,
                                 !.event = snap])
  /\ UNCHANGED <<runVars, toolVars, actuator, faults>>

\* The claim that follows a retry is Claim.
Resolve(q) ==
  /\ req[q].step = "resolve"
  /\ status = "manual_takeover"
  /\ Settle(req[q].decision, "operator")
  /\ snap' = req[q].event
  /\ Serves(q, NoRequest)
  /\ UNCHANGED <<owner, live, toolVars, actuator, boundVars>>

(* approve: read the order, decide it, actuate, patch the event, move the  *)
(* run; each is a step, and requests for one order run side by side.       *)

Open(q, d) ==
  /\ req[q].step = "off"
  /\ order # "none"
  /\ Accepts(d)
  /\ Serves(q, [NoRequest EXCEPT !.step = "decide", !.decision = d,
                                 !.seen = order])
  /\ UNCHANGED <<runVars, toolVars, actuator, boundVars>>

\* human_loop.handle, unless the order was seen decided already.
Decide(q) ==
  /\ req[q].step = "decide"
  /\ order' = IF req[q].seen = "pending" THEN req[q].decision ELSE order
  /\ Serves(q, [req[q] EXCEPT !.step = "look"])
  /\ UNCHANGED <<runVars, rows, hold, actuator, boundVars>>

\* The actuator reuses an execution it finds, whatever its action was.
Look(q) ==
  /\ req[q].step = "look"
  /\ IF actuator = "none"
     THEN Serves(q, [req[q] EXCEPT !.step = "act",
                                   !.execution = Action(req[q].decision)])
     ELSE Serves(q, [req[q] EXCEPT !.step = "patch", !.execution = actuator])
  /\ UNCHANGED <<runVars, toolVars, actuator, boundVars>>

Act(q) ==
  /\ req[q].step = "act"
  /\ actuator' = req[q].execution
  /\ Serves(q, [req[q] EXCEPT !.step = "patch"])
  /\ UNCHANGED <<runVars, toolVars, boundVars>>

Patch(q) ==
  /\ req[q].step = "patch"
  /\ owner = NoWorker
  /\ snap' = [snap EXCEPT !.approval = req[q].decision]
  /\ Serves(q, [req[q] EXCEPT !.step = "settle"])
  /\ UNCHANGED <<status, owner, live, settledBy, toolVars, actuator, boundVars>>

RunResult(q) ==
  IF req[q].execution \in {"executed", "reviewed"} THEN "succeeded"
                                                   ELSE "cancelled"

Close(q) ==
  /\ req[q].step = "settle"
  /\ Legal(status, RunResult(q))
  /\ Settle(RunResult(q), "approval")
  /\ Serves(q, NoRequest)
  /\ UNCHANGED <<owner, live, snap, toolVars, actuator, boundVars>>

\* A write raises: the run is owned, or cannot move there (any more).
Refused(q) ==
  /\ \/ req[q].step = "patch" /\ owner # NoWorker
     \/ req[q].step = "resolve" /\ status # "manual_takeover"
     \/ /\ req[q].step = "settle"
        /\ owner # NoWorker \/ ~ Legal(status, RunResult(q))
  /\ Serves(q, NoRequest)
  /\ UNCHANGED <<runVars, toolVars, actuator, boundVars>>

\* The process serving the request dies.
Dropped(q) ==
  /\ faults < MaxFaults
  /\ req[q].step # "off"
  /\ req' = [req EXCEPT ![q] = NoRequest]
  /\ faults' = faults + 1
  /\ UNCHANGED <<runVars, toolVars, actuator, threadVars, retries>>

-----------------------------------------------------------------------------
WorkerStep(w) ==
  \/ Audit(w) \/ AuditManual(w) \/ AuditFinalize(w) \/ AuditResume(w)
  \/ AuditReplay(w) \/ Replay(w) \/ Analyse(w) \/ Execute(w)
  \/ Begin(w) \/ Insert(w) \/ Reuse(w) \/ Handler(w) \/ Finish(w) \/ Record(w)
  \/ Conclude(w) \/ Stale(w) \/ Collides(w)

RequestStep(q) == \/ Decide(q) \/ Look(q) \/ Act(q) \/ Patch(q) \/ Close(q)
                  \/ Resolve(q) \/ Refused(q)

Next ==
  \/ \E w \in Worker : Claim(w) \/ WorkerStep(w) \/ Error(w) \/ Crash(w)
  \/ \E q \in Request : \/ \E d \in {"approved", "rejected"} : Open(q, d)
                        \/ \E to \in Resolution : Ask(q, to)
                        \/ RequestStep(q)
                        \/ Dropped(q)
  \/ LoseLease \/ Expire

Spec == Init /\ [][Next]_vars

\* A started thread runs on, a dead one's lease runs out, and the recovery monitor
\* of some process keeps sweeping.  Operators owe nothing.
Fairness ==
  /\ \A w \in Worker : WF_vars(WorkerStep(w))
  /\ WF_vars(Expire)
  /\ WF_vars(\E w \in Worker : Claim(w))
  /\ \A q \in Request : WF_vars(RequestStep(q))

FairSpec == Spec /\ Fairness
-----------------------------------------------------------------------------
(* What makes the runtime correct.                                         *)

\* recover_incomplete_runs, _run_agent_pipeline: whichever worker succeeds a run,
\* after any number of deaths and claims, every step of its plan is recorded as
\* succeeded.
PlanCompleted ==
  status = "succeeded" /\ settledBy = "worker"
    => /\ snap.level # "none"
       /\ \A k \in Steps(snap.level) : rows[k] = "succeeded"

\* expected={...} and the transition table: the store never refuses a worker that holds
\* the lease because of the status it finds.  Whatever recovery, late workers and
\* operators have done before, the run is where the worker's place in the pipeline takes
\* it to be, and a recovery that finds all tools done finds the run executing, which is
\* the one active status from which a run may be finalised.
OwnersAreNeverRefused ==
  \A w \in Worker : Fence(w) =>
    /\ pc[w] = "replay" => status = "retryable_failed"
    /\ pc[w] = "analyse" => status = "analyzing"
    /\ pc[w] = "decided" => status = "decided"
    /\ pc[w] \in {"tools", "insert", "handler", "returned", "failed", "succeeding",
                  "failing", "finalize"} => status = "executing"

\* tools/human_loop.py, "A 级高危事件：拦截自动执行": a run whose order is not approved
\* is not completed by a worker.
HeldRunsWait ==
  status = "succeeded" /\ settledBy = "worker"
    => order \in {"none", "approved"}

\* resolve_recovery, "tool execution history exists; automatic analysis replay is
\* unsafe": a run with a tool execution history is not sent back to its analysis.
\* A worker that loses its lease before the INSERT of its begin breaks it.
RetryIsSafe ==
  [][status = "manual_takeover" /\ status' = "analyzing"
       => \A k \in Tool : rows[k] = "none"]_vars

\* docs/agent-runtime.md "Trace": a succeeded run has all its tools confirmed,
\* unless an operator says otherwise.
SucceededIsConfirmed ==
  status = "succeeded" /\ settledBy # "operator"
    => \A k \in Steps(snap.level) : rows[k] = "succeeded"

\* The recovery monitor leaves no run behind: an active run is parked or ended in
\* the end, if faults stop.
Converges == status \in ActiveStatuses ~> status \notin ActiveStatuses

\* docs/agent-runtime.md, the chain at its top: an approved order is executed and
\* its status is written back to the run: no run goes on waiting for an approval that
\* was given.
ApprovalIsWrittenBack ==
  (order = "approved" /\ status = "waiting_approval")
    ~> status # "waiting_approval"
=============================================================================
