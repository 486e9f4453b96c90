# TLA+ models of the industrial safety agent runtime

The repository turns camera detections into *runs*: a multimodal analysis, a
deterministic tool plan, tools with outside effects (approval orders, alarm
rows, notices, reports), human approval, and an actuator. A run is durable: it
survives the death of its worker, several worker processes of one host share
its SQLite rows, and operators act on it through HTTP while workers do. The
modules here model that core; TLC checks them on small instances and TLAPS
proves the central results for every value of the constants.

All paths below are relative to the repository (`src/` in `PROJECT.json`).

## 1. Inventory

| part | state it keeps | operations | what is hard |
|---|---|---|---|
| run store, `services/run_store.py` | `agent_runs` rows (status, owner, lease, fencing token `execution_attempt`, event snapshot), `run_transitions` audit rows | create_or_get, claim_run, renew_lease, release_run, transition, save_snapshot, mark_recovery_started, patch_event, recover_expired_runs | a lock per process only; every write is SELECT then UPDATE; leases run out while a write is under way |
| lease heartbeat, `services/run_lease.py` | a thread per pipeline, a "lost" flag | renew, ensure_owned | comes late, dies with its process |
| tool executor, `services/tool_executor.py` | `tool_executions` rows, key locks per process | execute (begin, record_attempt, finish, retry loop, reuse) | outside effects cannot be undone; a result is recorded after the effect |
| agent runtime, `services/agent_runtime.py` | pipeline threads, event objects in memory, report cooldown, lifecycle flag | ingest, pipeline, recovery sweep, approve, resolve_recovery, shutdown | all of the above interleaved; crash between any two steps |
| dispatch, `agents/dispatch.py` | none (tables `RULES`, `LEVEL_WEIGHT`) | plan, execute_plan | the rule level is the floor of the model's level |
| human loop, `tools/human_loop.py` | one JSON file per order, a cache of orders per process | check/hold, handle, get_pending | written outside SQLite, without a fence; caches of processes diverge |
| actuator, `tools/actuator.py` | one JSON file per execution | execute, cancel, review | reuses an execution it finds, whatever the action; looks and writes under two separate holds of its lock |
| alarm database, `tools/database.py` | alarm rows with approval and execution status | store, update_* | a fourth store, written in sequence with the others |
| ingress, `ingest_detection`, `backend.py` | cooldown table, ingest key | duplicate suppression, cooldown, creation, claim, start | a cooldown that is consumed by a creation that fails |
| analysis limiter, `services/analysis_limiter.py` | slots, inflight count | try_start, wait_for_idle | a model call cannot be stopped: one that outlives its timeout keeps its slot and answers late |
| evidence replan, `agents/evidence_replan.py`, `_run_bounded_evidence_replan` | rounds, actions and a review flag in the event | one bounded second look at adjacent frames | any step of it may fail; what failed must not look like a decision |
| safety agent with schema repair and failure attribution, `agents/safety_agent.py`, `agents/failure_attribution.py` | recommendation, repair count and trace in the event | analyze, reanalyze | works on a copy of the event; answers are free text, checked against a contract and repaired once |
| memory, context builder, SOP retrieval, `agents/memory.py`, `agents/context_builder.py`, `agents/sop_retriever.py` | none; they read the facts other runs have stored | query, greedy admission under a token budget, ranking | the facts change between two rounds of one run |
| perception, `agents/perception.py` | none | geometry, rule level | data, not protocol |
| camera, `services/camera_stream.py` | connection, session, frame ring | open, read, evidence_frames | frame numbers across reconnects, asked for long after the detection |
| local vision, `services/local_vision.py` | status, active flag, consecutive failures, violation gate | load, infer, activate, pause | model and camera get ready in any order, failures pause it |
| recent events, realtime, `services/recent_events.py`, `services/realtime.py` | bounded list, websocket clients | remember, publish | merge by event id |
| trace validator, metrics, `services/trace_validator.py`, `services/runtime_metrics.py` | none (read-only) | validate, snapshot | whether the contracts it checks are true |
| application and supervisor, `backend.py`, `serve.py` | processes, readiness, arming thread, detection mode | start, stop, restart, arm | order of shutdown; arming against an operator's request |

How they interact. A detection creates a run (`create_or_get`), the ingesting thread
claims it and starts a pipeline thread. The pipeline reads and writes the run store
under a fence (owner, token, lease, active status), asks the limiter for a slot and
waits for an analysis of a copy of its event, perhaps asks the camera for adjacent
frames and analyses once more, lets dispatch make a plan, and lets dispatch execute it
through the tool executor, whose store checks the same fence with a SELECT of its own.
The first tool of every plan is `human_loop.check`, which writes an order file and marks
the event object of the worker. The last transition parks the run (`waiting_approval`,
`manual_takeover`) or ends it. A recovery sweep in every process claims what no live
lease holds and audits it. An operator approves or rejects an order, which runs through
order file, alarm row, actuator file, event patch and status, one after the other and
without a token, or resolves a run in manual takeover.

## 2. Modules

| module | models | state ↔ code |
|---|---|---|
| `RunStatus` | the statuses and `ALLOWED_TRANSITIONS` | constants of `run_store.py:16-25` |
| `RunLifecycle` | *abstract:* a run's status moves along the table, its epoch grows by one at a claim | - |
| `RunStore` | the store as processes see it, each write split at the gap between SELECT and UPDATE | `status, owner, leaseUntil, attempt, snap` = columns; `call[p]` = a write in the gap; `held[p]` = events in the threads of p; `views[p]` = what requests of p have read; `now` = clock |
| `ToolLedger` | *abstract:* a step is begun once, called within its budget, finished once | - |
| `ToolExecutor` | `execute` for threads of several processes, fence check and write as two steps, database errors, crashes | `rowStatus, rowEpoch` = `tool_executions`; `pc, key, try, res, outcome` = a thread inside `execute`; `epoch, live` = what the fence reads of the run |
| `AgentRun` | one run from creation to end: pipeline, tools, recovery, approval, manual resolution | `status, owner, live, snap` = the row; `rows` = its tool rows, each written in two steps, fence check and write; `order, hold` = order file; `actuator` = execution file; `pc, ev, next, bad` = a worker thread; `req` = an operator's request |
| `Ingress` | a detection from its request to the pipeline thread of its run, recovery sweep, shutdown, death and restart of processes | `rows` = `agent_runs` by order of creation; `phase` = accepting, closing, gone; `cooling` = `_last_report`; `threads` = `_pipeline_threads`; `sweep` = the candidate a sweep has claimed; `req`, `replies` = requests and what was answered |
| `Analysis` | pipelines of one process under the analysis limiter: slots, timeouts, late answers, the second look, the drain of `shutdown` | `pc, round, event` = pipeline threads; `call, raw` = call threads; `free, inflight` = semaphore and counter; `accepting, closing, seen` = shutdown |
| `OrderLifecycle` | *abstract:* an order is decided once and carried out once, as decided | - |
| `Approval` | `approve` over its four stores, with crashes, repeats, the pipeline that made the order, its recovery and `resolve_recovery` | `file, cache[p]` = order file and `_approvals` of each process; `alarm` = alarm row; `exec` = execution file; `run` = row; `worker, resolver, req` = who works on them; `decided, effects` = history of decisions and executions; `came` = how the operators have come so far |
| `Decision` | how one run gets its level: memory, SOP, context, model, repair, adoption or fallback, evidence replan, plan, and what becomes of the hold while its tools run; with the contracts of the trace validator | `run` = row and snapshot; `event` = the pipeline's event; `copy, thread` = the analysis thread and its deep copy; `tools` = the tool rows, `hold` = history of the order; `history` = facts of other runs; `spent` = requests and repairs of the attempt |
| `Sensing` | camera thread, vision thread, arming thread, detection mode, adjacent frames | `camera, ring, latest` = `CameraStream`; `vision` = `LocalVision`; `arm, operator, stopping` = threads of `Application`; `events` = detections handed over; `handed` = the last answer of `evidence_frames`, as a set of rows |
| `RunStoreProofs`, `ToolExecutorProofs`, `AgentRunProofs`, `AnalysisProofs`, `IngressProofs`, `SensingProofs`, `ApprovalProofs`, `DecisionProofs` | theorems and proofs | - |
| `MCRunStore`, `MCToolExecutor`, `MCAgentRun`, `MCIngress`, `MCAnalysis`, `MCApproval`, `MCDecision`, `MCSensing` | the instances of the runs | - |

How the pieces compose. `RunStore` implements `RunLifecycle`, and `ToolExecutor`
implements `ToolLedger`, each by INSTANCE with the abstract specification as a checked
property and a theorem. `AgentRun` stands on those two results: there a store write is
one step that fails when the worker's token is stale, as the UPDATE of the store repeats
the fence. The INSERT and the UPDATE of a tool row do not, so a begin and a finish are
two steps, the fence check (`Begin`, `Finish`) and the write (`Insert`, `Record`), and
the worker may lose the run in between. `ToolExecutor` meets the run through the fence
only (`epoch`, `live`). `Ingress` is `AgentRun`'s complement: many runs and everything
before the pipeline, the pipeline itself one step (`Finish`), and `AgentRun` one run
with everything after its creation. Three modules open up what is one step there:
`Decision` is `AgentRun`'s `Analyse` for one run, and follows its order through the
tools to the end of the run or its recovery, `Analysis` the same for many pipelines that
compete for slots, where what is answered is a choice; `Approval` is its approval
request with the stores `AgentRun` leaves out and more than one process behind the order
file, and implements `OrderLifecycle`. `Sensing` ends where `Ingress` begins, with a
detection handed over, and serves the adjacent frames `Decision` asks for.

Abstractions worth knowing when reading the code next to the model:

* The time a statement compares with may be any `t <= now`: the code reads
  `time.time()` before it waits for the lock or the database.
* A process keeps its owner id over a restart (`RUNTIME_OWNER_ID`), so only the
  token tells an old thread from a new one.
* `release_run` has no caller in the repository. It is modelled, and
  `ReleaseProc` says which processes would call it.
* In `AgentRun` a name of a worker stands for one thread at a time, and
  `owner = w` for "the row holds the token of w". Ingest's own claim is `Claim`
  followed by an audit that finds nothing.
* `AgentRun` leaves out alarm rows (they are `Approval`'s), broadcasts, the recent
  list and the check for an incomplete snapshot. The outcome of the limiter and the
  replan is the nondeterministic level and review flag of its `Analyse`.
* Tools other than `human_loop.check` matter by their outcome alone.
* In `Ingress` a row names the piece of code that claimed it (a request, a sweep,
  the one pipeline thread a process has per run) in place of owner and token.
  Detections are of one camera, type and zone, so a process has one cooldown.
  Every run that leaves the active statuses is "settled". A sweep marks, saves
  and starts one candidate in one step; `AgentRun` has its steps.
* `AgentRun` audits in two steps as well: the tool rows are read (`Audit`), and what
  follows from them (park, finalise, resume, replay) comes later.
* A handler that has returned may still be recorded as failed, as
  `ToolExecutor!DatabaseError` shows.
* In `Analysis` the end of a timeout is a choice that stays open while the call is not
  over. A call never has to come back.
* In `Approval` a file is truncated and then written, in two steps; a reader in
  between, or after a crash in between, finds it torn. A call of the database is one
  step. Crashed processes come back with an empty cache. Nothing keeps requests apart:
  any two may be in flight together, at any processes. The actuator looks for an
  execution file (`Look`) and truncates it (`Truncate`) in separate steps, so two
  requests may both find none. `effects` is the sequence of executions; a second one
  shows.
* The properties of `Approval` say under which history of requests they hold: `Apart`
  (none overlapped another one, and those that disagreed came to one process) and
  `Agreed` (all asked for the same, however they came; or one after the other at one
  process). Past `Agreed` they are silent, which is what section 5 is about.
* In `Decision` camera, family and zone are one scope, a text is a weight in tokens,
  and a SOP lookup is an outcome with a ranked list. A model's answer is what the
  code distinguishes: a level or none, a claim about the evidence, a next step, and
  whether it insists. Every answer cites all it could, the worst case for what is
  adopted. The greedy admission of `ContextBuilder.build` is written as what it yields:
  the one set of candidates in which an item is kept just when it fits behind those
  kept before it.
* In `Decision` the rows of the tools are one variable: nothing yet, the check under
  way, the check done, another tool under way, all done, one failed. The order lives in the
  worker's event until the last transition. `hold` remembers that one was made and whether
  its worker died before that transition ("orphaned"), which no code can know. A worker
  that loses its lease and stops at its next fence check leaves the run in the same state
  as one that dies; what it may still write to its tool row is `AgentRun`'s.
* In `Sensing` a session id is the number of the connection and frames have no
  pixels; whether an inference finds something is a choice.

## 3. Runs

| run | instance | shows |
|---|---|---|
| `store` | 2 processes, one serves operators, both may release, 1 run, lease of 1 tick, 2 ticks, 3 claims | `TokensAreUnique`, `OnlyActiveRunsAreOwned`, `StaleWriterNeverWins`, `RefinesLifecycle`, `AuditTrailIsTrue`, `TypeOK` |
| `tool_threads` | 2 processes, 3 threads (two in one process), 1 step with a retry, 3 claims | `OneThreadPerKey`, `OutcomeIsRecorded`, `SuccessIsReal`, `RefinesLedger`, `TypeOK` |
| `tool_repeat` | 2 threads, 2 claims | *violated:* `DoneIsNotRepeated` |
| `run_recovery` | 2 workers, 1 request at a time, rule level B (A by model), 2 faults, 1 retry | `PlanCompleted`, `OwnersAreNeverRefused`, `TypeOK` |
| `run_converges` | rule level A, 1 fault, 1 retry, fairness | `Converges` |
| `run_hold_lost` | 1 fault | *violated:* `HeldRunsWait` |
| `ingress` | 2 processes, 2 requests at a time sent as often as senders like, 1 key and keyless detections, 2 payloads (1 with an incident), 2 runs, 1 fault, fairness | `OneRunPerKey`, `RepliesAgree`, `FilteredIsFinal`, `CreatedIsHandled`, `TypeOK` |
| `analysis` | 2 pipelines, 1 slot, 2 faults (a refused thread, a raising analysis, a lost lease), fairness | `CallsAreBounded`, `OnlyFinishedAnswersCount`, `MissedLookIsReviewed`, `DrainedIsQuiet`, `NobodyWaitsForTheModel`, `TypeOK` |
| `orders` | 2 processes, 2 requests at a time, repeated as operators like, approvals and rejections at either process, 2 faults; as far as `Agreed` holds | `DecidedOnce`, `OkMeansStored`, `TypeOK` |
| `approval_flip` | approvals and rejections on 2 processes, no fault | *violated:* `DecisionIsFinal` |
| `decision` | 1 run, escalation at 2 stored incidents of at most 2, 3 ranked citations of which 2 may be cited, a token budget of 14, 2 deaths | `BudgetsHold`, `NeverBelowTheRules`, `UncertainIsHeld`, `RoundsCompareAlike`, `TraceIsValid`, `TypeOK` |
| `sensing` | 2 connections, 4 frames, a ring of 3, a window of 2, 2 failures in a row pause the vision (3 in the code), fairness | `EvidenceIsOfTheSameStream`, `VisionArmsItself`, `TypeOK` |

Why the bounds are enough. One run: rows of different runs share nothing but the lock of
a process, and a lock that is held only delays. Two claims are needed for a stale writer
to meet its successor and a third one for a thread that is stale twice. Two processes
with two threads in one of them give both kinds of meeting (shared locks, no shared
locks). Lease and clock: with any `t <= now`, one tick of lease and two of clock already
give a check before, at and after the expiry. `run_recovery` has two faults, so a death
can hit the run that is recovering from a death; level B is the floor and the model may
raise it, so plans of two levels mix across a retry (6.3 million states up to a swap of
the workers). The theorems remove these bounds for what they state. `ingress` needs two
requests of one key on two processes (no shared lock) with equal and with different
payloads, and a second run that is not of that key; its fault is a death, a shutdown, a
lost lease, an error of a request or a pipeline that fails to write its failure.

`analysis` (128 thousand states): one slot and two pipelines of two rounds are
enough for a call nobody waits for to stand in the way of the other pipeline and of
the second round of its own; `Bounded` and the other theorems remove these bounds.
`orders` (4.7 million, up to a swap of the requests) has two requests, so that one can
overtake another at each of the nine places between the stores, and two faults, so that
the repetition of a request that died half-way can die as well. Its `CONSTRAINT Agreed`
stops TLC where both properties have stopped speaking: `Apart` implies `Agreed`, and
once it is false `Agreed` stays false. `decision` (4.7 million): the threshold
lies within what other runs may store, so memory escalates in the middle of a run;
14 tokens admit four of the five candidates there may be, and a second round's
metadata, counted, would cut one more; two deaths give a recovery that is recovered.
`sensing` (1.7 million): with four frames over two connections the ring of three
drops its oldest and holds frames of both.

Deadlock is checked in the store and executor runs that keep moving; in
`AgentRun` a settled run with no request open is a proper end, and so is an idle
`Ingress` whose bound leaves no room for another run, a process that has drained
while a model call hangs, an order nobody asks about any more, a run that is held
or released, and a process that has stopped or whose camera is out of frames, hence
`CHECK_DEADLOCK FALSE` there.

### Fairness

`AgentRun!Fairness` is what the code's scheduling gives: a started thread goes
on (weak fairness of each worker's steps; a death is the explicit action
`Crash`, after which it has no step), nobody renews the lease of a dead thread
(`Expire`), every process runs the recovery monitor (`\E w : Claim(w)`, some
process sweeps), and an HTTP request once accepted is served on. Operators owe
nothing: `Open` and `Ask` are unfair, so a run may wait for ever for a human.
`Converges` needs faults to stop, which `MaxFaults` does.

`Ingress!Fairness` is the same for its parts: an accepted request is served on, a
pipeline thread ends (its model call has a timeout), a lease nobody renews runs
out, some process sweeps, and a process that closes exits. Nobody has to start a
process again (`serve.py` does not): with one fault the other process recovers.
Senders owe nothing.

`Analysis!Fairness`: a started pipeline goes on, as its waits have timeouts; a call
that has come back returns its slot (`finally`); `shutdown` goes on once begun, as its
waits have deadlines. No model owes an answer: `Answer` and `Raises` are unfair, and
`NobodyWaitsForTheModel` is about that.

`Sensing!Fairness`: the model gets loaded, or fails to, the arming thread polls on, and
an accepted request for a mode is served. No camera owes a frame, no operator a
request, and the inference itself is not needed for `VisionArmsItself`.

## 4. What is proved

Every safety property of the passing runs is a theorem: all type invariants, safety
invariants, action properties and the three refinements. What each rests on:

* The assumption of its module on the constants (`StoreAssumption`,
  `ExecutorAssumption`, `RunAssumption`, `AnalysisAssumption`, `IngressAssumption`,
  `SensingAssumption`, `ApprovalAssumption`, `DecisionAssumption`): what they are, that
  there is at least one process and payload, that requests and pipelines are finitely
  many. TLC evaluates them in every run.
* `OneOperator`, for `Refinement` and `TrueAudit` of `RunStoreProofs`: operators use one
  process, as in the run `store`.
* `OneRetry`, for `NeverRefused` of `AgentRunProofs`: one operator request at a time, or
  one retry in all. `run_recovery` has both. Two requests and two retries break the
  theorem (section 5).

The theorems on `Approval` have no assumption of that kind: what they need of the
operators, `Apart` and `Agreed`, is part of the properties; the run `approval_flip` and
section 5 show that it is needed.

`RunStoreProofs`, for any processes, runs, lease time and bounds:

* `TypeCorrect`, `ParkedRunsAreUnowned`.
* `TokensUnique` (`TokensAreUnique`). Not inductive: one has to know that a token
  in a thread is never above the row's counter and that the row's owner is the
  holder of the newest one (`TokenInv`). Claims only add the next token.
* `Fencing` (`StaleWriterNeverWins`). The UPDATE's fence makes the writer's token
  equal to the row's, and no snapshot and no write in the gap carries a token
  above the row's (`SnapInv`).
* `Refinement`, `TrueAudit`, under `OneOperator`. The UPDATE does not re-check
  the status; what saves it is that a write in the gap still sees the status it
  read, unless the row went on and its fence is gone (`SeenInv`).

`ToolExecutorProofs`, for any processes, threads, steps and budgets:
`TypeCorrect`, `ThreadsExcluded`, `OutcomesRecorded`, `SuccessesReal`,
`StarterCalls` and `Refinement` (ToolLedger). The invariant says who may be inside
`execute` behind a row that is still running: the thread that holds the row's
token, alone.

`AgentRunProofs`, for any workers, requests, levels, faults and retries:

* `Inductive` / `TypeCorrect`.
* `Completed` (`PlanCompleted`). It speaks of the end of a pass, so the
  invariant follows a thread along its plan: a thread that has not started its
  tools has no bad outcome (`Fresh`), its position and level are those of a real
  plan (`Placed`), every step behind it is recorded, and succeeded unless `bad`
  says otherwise (`Walked`), the step it is calling is its own running row
  (`Running`), and no two threads are behind one row (`Alone`).
* `OwnerKnowsStatus`: a worker that passes the fence finds the status its place in the
  pipeline takes for granted. It needs no assumption on operators, as it leaves out the
  recovery that finds all tools done. `PhaseInv`: an owned run is active, only its owner
  moves its status, and a decided or executing run has a level in its snapshot, the one
  its owner has read.
* `NeverRefused` (`OwnersAreNeverRefused`), under `OneRetry`, adds that recovery: it
  finds the run executing, the one active status from which a run may be finalised. A
  retry is granted on one read and written later, and a late worker may insert a tool row
  in between or after it, so a run that is analysed again may well have tool rows
  (`RetryIsSafe`, section 5). What it cannot have is a row with an outcome: the fence check of
  `finish` wants the executing run (`DoneWhileExecuting`). `RetryInv`: while a retry is
  granted the run is parked, no tool is done or about to be recorded as done, and there
  is no other grant; and the same of the tools of a run that does not execute yet.

`AnalysisProofs`, for any finite number of pipelines, slots and faults:

* `TypeCorrect`, `Bounded` (`CallsAreBounded`), `LateAnswersStayOut`
  (`OnlyFinishedAnswersCount`), `MissedLooks` (`MissedLookIsReviewed`), `Drained`
  (`DrainedIsQuiet`).
* The invariant `IInv` has four parts. `Tally` counts the call threads in each group of
  states, as the semaphore and the counter do: each step moves one call from one
  group to another, and the lemmas on `At` say what that does to a cardinality.
  `Placed` ties the place of a pipeline to the state of its call, so that a pipeline
  that begins to ask has no call yet in that round: otherwise a step of it could move
  an old call. `Told` is what its event may say there; without it a second round
  could start from a first one that never answered, and miss its review. `Quiet`
  says that nothing starts once runs are no longer accepted, which is what makes
  "no run alive" and "nothing in flight", read one after the other, true together.

`IngressProofs`, for any processes, keys and payloads and any finite number of requests:

* `TypeCorrect`, `OneRun` (`OneRunPerKey`), `Agreement` (`RepliesAgree`), `FilteredStays`
  (`FilteredIsFinal`).
* Only `Create` adds a row, and its insertion is refused by the unique index when there
  is one of that key. The other properties need that what a request, a sweep or a reply names is a
  row of its own key and payload (`Knows`, `Swept`, `Told`), that rows are only ever
  added and never change key or payload (`Kept`), and that nobody gets hold of a filtered
  run (`Untouched`). `Roomy` counts the requests that may still create a run, which is
  how the bound on runs is kept by requests that run side by side.

`SensingProofs`, for any ring, window, number of connections, frames and failures:

* `TypeCorrect`, `SameStream` (`EvidenceIsOfTheSameStream`).
* Frames are numbered over all connections, a row of the ring carries the session of
  the moment, and the session of a detection is read after the inference. What makes the
  two agree is `Known`: whatever frame somebody still holds, if its connection is over
  the ring has no row with its number; `Ordered` gives that for each new row. The row
  the answer is built around is then one of the detection's own connection.

`ApprovalProofs`, for any processes, requests and faults:

* `TypeCorrect`, `Once` (`DecidedOnce`: as long as `Apart` holds, every step is one of
  `OrderLifecycle` or a stutter) and `OkAgrees` (`OkMeansStored`, as long as `Agreed`
  holds). About orders whose requests disagreed while in flight together, or at two
  processes, they say nothing; nor does `Once` about approvals that agreed and
  overlapped, which do execute twice.
* `Sound`, as long as `Agreed` holds: a decision in the order file or in a cache is the
  last one (`Stored`); an order that still looks pending in the one process of operators
  who come one after the other was not decided (`Fresh`); a decision and an effect are
  what somebody asked for (`Minded`, `Effectual`). A request goes from store to store with
  what it has established so far (`Deciding`, `Carrying`): two may carry out the same
  decision side by side, and over each other. `Single`, as long as `Apart` holds: the
  execution file is the only one ever written, for who is about to write has found none.
  `Alone` adds, for requests that overlap nobody, what they have left in the alarm row and
  the run, which is what `OkMeansStored` reads at the end.

`DecisionProofs`, for any threshold, budget, weights, citations and number of deaths:

* `TypeCorrect`, `BudgetsKept` (`BudgetsHold`), `RulesAreTheFloor` (`NeverBelowTheRules`),
  `DoubtIsHeld` (`UncertainIsHeld`), `RoundsAreAlike` (`RoundsCompareAlike`), `TraceHolds`
  (`TraceIsValid`).
* The invariant says the same of each event there is, the snapshot in the row, the
  pipeline's and the copy of the analysis thread, since a death, a timeout or an adoption
  makes one of them into another: levels above the floor (`Sound`), a valid answer has a
  context the builder made (`Backed`), a replan is short, compares like with like and
  marks its reviews (`Replanned`). `Budget` relates the requests made to the repairs made
  and to what the copy records of them: a repair spends a request, and one that a copy
  takes with it when it is abandoned stays spent. `Waiting` ties the copy to the event
  while the pipeline waits, `Phases` says what is established by the time the pipeline
  gets somewhere.
* `Holding` follows the order from the check that makes it to the last transition: while
  its worker lives the worker's event says pending, and a run whose check is done and that
  has no order needs none. `DoubtIsHeld` and `TraceHolds` rest on it. Both except the runs
  whose worker was lost in between, which recovery may end as succeeded without an operator
  (`run_hold_lost`); of those `TraceHolds` says that they break the contract on unresolved
  evidence and no other.
* `ContextFits`: for any items, the greedy admission keeps nothing or what fits the token
  budget. The admission is a recursion over a sorted list in the code and a set with a
  fixed-point property in the model (`Keeps`); that there is such a set for every input is
  proved by taking a least counterexample (`WFMin` on its cardinality) where an induction
  could not be instantiated.

Only model-checked:

* liveness, which is beyond the prover: `Converges`, `CreatedIsHandled`,
  `NobodyWaitsForTheModel`, `VisionArmsItself`;
* the three violations of section 3, which need a counterexample and no proof.

The inductive invariants were checked by TLC on the instances of the runs before they
were proved.

`OnlyTheStarterCalls` is proved (`StarterCalls`) and has no run of its own.

## 5. Disagreements between the code and what the repository says of it

Three of them have a run TLC finds violated; `PROJECT.json` quotes the lines.

1. `tool_repeat`: a database error while the outcome of a returned handler is
   recorded makes the retry loop call the handler again.
2. `run_hold_lost`: a crash between the hold and the last transition of a pass
   loses the pending approval, and recovery completes the run. Without faults
   `HeldRunsWait` holds of every run (`MaxFaults = 0`), so this is about recovery alone.
3. `approval_flip`: the process that made an order prefers its own memory of it, still
   pending after another process has approved and executed it, and turns it
   round.

Six more are stated as properties of the modules, without a run; each is violated
with the constants given here.

* `RunStore!LegalTransitions`, operators on both processes: two processes that settle an
  unowned run one after the other leave a final status, a move `transition` means to
  refuse, as the UPDATE does not repeat the status it read.
* `ToolExecutor!ResultsAreFenced`, two threads and two claims: a superseded worker can
  record a tool result, as the UPDATE of `finish` repeats only the token of the
  tool row.
* `AgentRun!RetryIsSafe`, two workers, one request, rule level C, one fault, one retry: a
  worker loses its lease between the fence check and the INSERT of `begin`, the run is
  parked without a tool row and a retry is granted; the row appears, and the retry sends a
  run with a tool history back to its analysis, which `docs/agent-runtime.md` (line 188)
  and the refusal in `agent_runtime.py:662` mean to exclude.
* `Approval!ActuatedOnce`, one process, two requests, no fault: two approvals of one order
  in flight together both find no execution file and both execute. The lock of the
  actuator covers the look and the write, and not what is in between;
  `tests/test_stability.py:156` repeats an approval only after the first one.
* `AgentRun!SucceededIsConfirmed`, no fault: an approval ends a run as succeeded although
  a tool failed.
* `AgentRun!ApprovalIsWrittenBack`, `FairSpec`, no fault: an approval given while the run
  still executes is carried out but not written back, and the run waits for it for
  ever.

The rest came up while modelling.

*Runs.* A result that a superseded worker records (`Record`) may change a tool row of a
run that is parked, which its operators have already looked at. With two requests and
two retries `OwnersAreNeverRefused` fails too: the slower of two retries, read before
the other one ran its tools, passes `expected={"manual_takeover"}`
(`agent_runtime.py:666`) when the run is parked again, and replays the analysis over a
tool history. In `Ingress`, `Gate` starts the cooldown before `Create` makes the run: an
error in between (`Fails`), or a conflict of two requests of one key with different
payloads, leaves an incident without a run, and its repetition is filtered; under a key
that filtered run is the answer for good. A sweep that claims a run between `Create` and
`ClaimOwn` makes the first answer a reused one, and the run goes on without its evidence
image.

*Orders.* An approval and a rejection that overlap both read the order as pending
(`agent_runtime.py:526`, before `handle` takes its lock), and an executed actuator can
end up behind a rejected order; the one that is answered 200 need not be the one that
was carried out. `Approval` reaches this on one process, and `DecidedOnce` and
`OkMeansStored` are silent from there on. A crash between the truncation and the write
of an order or execution file leaves half a file, on which each later request fails. At
the end of a pass `update_event_snapshot` (`agent_runtime.py:1183`) writes the worker's
approval status over what an operator has written to the alarm row, and a resumed run,
whose event knows of no approval, writes "auto". An operator may cancel a run in manual
takeover whose order is pending; an approval that comes later is still carried out.

*Decisions.* A timeout or an overload before the first answer leaves an empty
`sop_retrieval`, so `validate_trace` reports `missing_catalog_version`
(`trace_validator.py:273`) for each run that fell back to the rules, and a run that
fails before its context is built is reported with `invalid_context_status`;
`TraceIsValid` therefore speaks of runs with a context. The repair budget is kept in
the event: it holds for an attempt with the snapshot it starts from, and a death
after the repair and before the next snapshot gives another one, which is why
`BudgetsHold` is stated per attempt. A review found in one attempt and saved with the
decision is forgotten when the process dies before the plan is executed and the
replay falls back to the rules. Escalation by memory happens in the copy and is lost
when the analysis times out. A level A of the model is adopted whatever its
confidence. The hash of the first round's output is read after the timeout and may
be that of a late answer (`Analysis!Outcome` keeps it as `hash`); nothing is decided on
it.

*Sensing.* Three failures in a row, or a pause while one failure is shown as degraded,
leave the status degraded with inference off and `activate` refused
(`local_vision.py:185-198, 298-309`); only a restart helps. An operator's pause made
while the model loads is undone by the arming thread (`backend.py:86-105`). A detection
in flight is handed over after a pause. A slot is lost for good when the thread of a
call cannot be started (`analysis_limiter.py:45`); `CallsAreBounded` accounts for it.

## 6. Not modelled

The components with status `not_modelled` in `PROJECT.json`, each with its reason, and
parts of others:

* perception, prompts, text scoring, the estimate of tokens, hashes and reports are
  data: they have no state and take part in no protocol. Where a property depends on
  them they are choices or weights.
* recent events and the realtime broadcaster are for display, and nothing reads them
  back; the notifier and the reporter are tools of which `AgentRun` keeps the outcome.
* evidence storage and configuration are files and environment. HTTP parsing, health
  reports and metrics are I/O.
* the tracker and the violation gate of local vision: a detection of `Sensing` is what
  passes them.
* a runtime whose model mode is not `ollama` (`agent_runtime.py:952-956`), which sends
  every run to a review.
* of `validate_trace`, the contracts on tool rows and leases, which `ToolExecutor` and
  `RunStore` have as properties of their own, and the building of the trace.
* schema migration and statistics of the alarm database, and list queries.
* the frontend, the set-up scripts and the benchmarks are not part of the runtime.

## 7. Plan

Done, in this order: `RunStatus`, `RunLifecycle`, `RunStore` and its proofs;
`ToolLedger`, `ToolExecutor` and its proofs; `AgentRun` and its first proofs;
`Ingress`; `Analysis` and its proofs; `OrderLifecycle` and `Approval`; `Decision`;
`Sensing`; the proofs of `Ingress`, `Sensing`, `Approval` and `Decision`; the fence
check and the write of a tool row apart in `AgentRun`, with `NeverRefused`; requests of
any kind at any time in `Approval`; the tools behind the hold in `Decision`.

Next, most important first:

1. The assumptions of the theorems that need one: what still holds of an order past
   `Agreed`, and of a store when operators use two processes.
2. That `Analysis` and `Decision` do in their many steps what `AgentRun` does in its one,
   as refinements with theorems of their own.
3. The tool and lease contracts of the trace validator over the histories of
   `AgentRun`, and the violation gate of local vision.
