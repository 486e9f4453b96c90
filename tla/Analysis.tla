------------------------------ MODULE Analysis ------------------------------
(***************************************************************************)
(* services/analysis_limiter.py and its users in agent_runtime.py: the     *)
(* pipelines of one process ask a model under a limit of calls in flight   *)
(* and go on without it after a timeout, perhaps ask once more about       *)
(* adjacent frames, and are drained by shutdown.                           *)
(*                                                                         *)
(* A call is the thread AnalysisLimiter.try_start makes.  It works on a    *)
(* deep copy of the event, and nothing can stop it: one whose pipeline has *)
(* gone on keeps its slot until it returns, if it ever does.  The end of a *)
(* timeout is a choice that is always open while the call is not over.     *)
(***************************************************************************)
EXTENDS Integers, FiniteSets

CONSTANTS
  Pipelines,    \* the pipeline threads of the process over its life
  MaxInflight,  \* settings.llm_max_inflight
  MaxFaults     \* bound: threads the system refuses, analyses that raise, lost leases

ASSUME AnalysisAssumption ==
  /\ IsFiniteSet(Pipelines)
  /\ MaxInflight \in Nat \ {0}
  /\ MaxFaults \in Nat

VARIABLES
  pc,           \* pc[p]: where the pipeline p is
  round,        \* round[p]: 1, or 2 for the second look
  event,        \* event[p]: what the pipeline's own event says of the analysis
  call,         \* call[c]: the thread of the call c
  raw,          \* raw[c]: the call has stored what the model said
  free,         \* the value of the semaphore _slots
  inflight,     \* _inflight
  accepting,    \* _accepting_runs
  closing,      \* where shutdown is
  seen,         \* what shutdown has seen: idle, no runs, drained
  faults        \* faults so far

pipes == <<pc, round, event>>
limiter == <<call, raw, free, inflight>>
closer == <<accepting, closing, seen>>
vars == <<pc, round, event, call, raw, free, inflight, accepting, closing, seen, faults>>

\* A pipeline makes at most one call in each of its two rounds.
Calls == Pipelines \X {1, 2}

Ended == {"decided", "stale", "failed"}

\* The pipeline threads that is_alive() finds.
Alive == {p \in Pipelines : pc[p] \notin {"new"} \cup Ended}

\* The call threads that have taken a slot and not given it back.
Holders == {c \in Calls : call[c] \in {"taken", "started", "running", "returned", "uncounted"}}

Counted == {c \in Calls : call[c] \in {"started", "running", "returned", "lost"}}

Lost == {c \in Calls : call[c] = "lost"}

Event == [status : {"none", "overloaded", "timeout", "answered"},
          from : 0..2,          \* the round whose copy it carries, 0: none
          hash : BOOLEAN,       \* the first decision round names a raw output
          review : BOOLEAN]     \* evidence_assessment.review_required

TypeOK ==
  /\ pc \in [Pipelines -> {"new", "ask", "taken", "started", "waiting", "outcome", "decide"}
                            \cup Ended]
  /\ round \in [Pipelines -> {1, 2}]
  /\ event \in [Pipelines -> Event]
  /\ call \in [Calls -> {"none", "taken", "started", "running", "returned", "uncounted",
                         "released", "over", "lost"}]
  /\ raw \in [Calls -> BOOLEAN]
  /\ free \in 0..MaxInflight
  /\ inflight \in Nat
  /\ accepting \in BOOLEAN
  /\ closing \in {"no", "runs", "calls", "count", "report", "closed"}
  /\ seen \in [idle : BOOLEAN, noRuns : BOOLEAN, drained : BOOLEAN]
  /\ faults \in 0..MaxFaults

Init ==
  /\ pc = [p \in Pipelines |-> "new"]
  /\ round = [p \in Pipelines |-> 1]
  /\ event = [p \in Pipelines |->
                [status |-> "none", from |-> 0, hash |-> FALSE, review |-> FALSE]]
  /\ call = [c \in Calls |-> "none"]
  /\ raw = [c \in Calls |-> FALSE]
  /\ free = MaxInflight
  /\ inflight = 0
  /\ accepting = TRUE
  /\ closing = "no"
  /\ seen = [idle |-> FALSE, noRuns |-> FALSE, drained |-> FALSE]
  /\ faults = 0

Fault == faults < MaxFaults /\ faults' = faults + 1

Cur(p) == <<p, round[p]>>
-----------------------------------------------------------------------------
(* The pipeline, _run_agent_pipeline and _run_bounded_evidence_replan.      *)

Goes(p, to) == pc' = [pc EXCEPT ![p] = to]

\* Mutant: pipelines start while the process drains.
StartableM == TRUE

\* _start_pipeline asks for _accepting_runs under the lifecycle lock.
Startable == accepting

Start(p) ==
  /\ pc[p] = "new"
  /\ Startable
  /\ Goes(p, "ask")
  /\ UNCHANGED <<round, event, limiter, closer, faults>>

\* try_start takes a slot without waiting, counts the call and starts its thread.
Take(p) ==
  /\ pc[p] = "ask"
  /\ free > 0
  /\ free' = free - 1
  /\ call' = [call EXCEPT ![Cur(p)] = "taken"]
  /\ Goes(p, "taken")
  /\ UNCHANGED <<round, event, raw, inflight, closer, faults>>

Count(p) ==
  /\ pc[p] = "taken"
  /\ inflight' = inflight + 1
  /\ call' = [call EXCEPT ![Cur(p)] = "started"]
  /\ Goes(p, "started")
  /\ UNCHANGED <<round, event, raw, free, closer, faults>>

Launch(p) ==
  /\ pc[p] = "started"
  /\ call' = [call EXCEPT ![Cur(p)] = "running"]
  /\ Goes(p, "waiting")
  /\ UNCHANGED <<round, event, raw, free, inflight, closer, faults>>

\* Thread.start raises: nobody returns the slot, and the pipeline ends in its handler.
LaunchFails(p) ==
  /\ Fault
  /\ pc[p] = "started"
  /\ call' = [call EXCEPT ![Cur(p)] = "lost"]
  /\ Goes(p, "failed")
  /\ UNCHANGED <<round, event, raw, free, inflight, closer>>

\* Mutant: a second look that failed is forgotten.
WithoutAnswerM(p, status) ==
  IF round[p] = 1 THEN [event[p] EXCEPT !.status = status] ELSE event[p]

\* The event after a round without an answer: the first one falls back to the rules,
\* the second one keeps the first answer and demands a review.
WithoutAnswer(p, status) ==
  IF round[p] = 1 THEN [event[p] EXCEPT !.status = status]
                  ELSE [event[p] EXCEPT !.review = TRUE]

AfterRound(p) == IF round[p] = 1 THEN "outcome" ELSE "decide"

Rejected(p) ==
  /\ pc[p] = "ask"
  /\ free = 0
  /\ event' = [event EXCEPT ![p] = WithoutAnswer(p, "overloaded")]
  /\ Goes(p, AfterRound(p))
  /\ UNCHANGED <<round, limiter, closer, faults>>

\* Mutant: the slot of a call is given back when its pipeline stops waiting.
TimeoutM(p) ==
  /\ pc[p] = "waiting"
  /\ call[Cur(p)] # "over"
  /\ event' = [event EXCEPT ![p] = WithoutAnswer(p, "timeout")]
  /\ free' = free + 1
  /\ Goes(p, AfterRound(p))
  /\ UNCHANGED <<round, call, raw, inflight, closer, faults>>

Timeout(p) ==
  /\ pc[p] = "waiting"
  /\ call[Cur(p)] # "over"
  /\ event' = [event EXCEPT ![p] = WithoutAnswer(p, "timeout")]
  /\ Goes(p, AfterRound(p))
  /\ UNCHANGED <<round, limiter, closer, faults>>

\* Mutant: the result of completed.wait is not looked at.
FinishedM(c) == call[c] \in {"running", "over"}

\* What completed.wait tells the pipeline.
Finished(c) == call[c] = "over"

\* _copy_analysis_result.  The second look may end in an error or an invalid answer
\* (a review), or in a result that demands one itself.
Answered(p) ==
  /\ pc[p] = "waiting"
  /\ Finished(Cur(p))
  /\ \E usable, review \in BOOLEAN :
       /\ usable => raw[Cur(p)]
       /\ event' = [event EXCEPT ![p] =
            IF round[p] = 1 THEN [@ EXCEPT !.status = "answered", !.from = 1]
            ELSE IF usable  THEN [@ EXCEPT !.from = 2, !.review = review]
                            ELSE WithoutAnswer(p, "answered")]
  /\ Goes(p, AfterRound(p))
  /\ UNCHANGED <<round, limiter, closer, faults>>

\* The first decision round is recorded with analysis_result["raw"] as it is by now;
\* then the answer is final, is sent to a review, or asks for adjacent frames.
Outcome(p) ==
  /\ pc[p] = "outcome"
  /\ LET noted == [event[p] EXCEPT !.hash = raw[<<p, 1>>]]
     IN \/ /\ \E review \in BOOLEAN :
                /\ review => event[p].status = "answered"
                /\ event' = [event EXCEPT ![p] = [noted EXCEPT !.review = review]]
           /\ Goes(p, "decide")
           /\ UNCHANGED round
        \/ /\ event[p].status = "answered" /\ raw[<<p, 1>>]
           /\ event' = [event EXCEPT ![p] = noted]
           /\ round' = [round EXCEPT ![p] = 2]
           /\ Goes(p, "ask")
  /\ UNCHANGED <<limiter, closer, faults>>

\* Plan, tools and the last transition.
Decide(p) ==
  /\ pc[p] = "decide"
  /\ Goes(p, "decided")
  /\ UNCHANGED <<round, event, limiter, closer, faults>>

\* lease.ensure_owned, before each round and after the second, finds the lease lost.
Stale(p) ==
  /\ Fault
  /\ pc[p] \in {"ask", "decide"}
  /\ Goes(p, "stale")
  /\ UNCHANGED <<round, event, limiter, closer>>
-----------------------------------------------------------------------------
(* The call thread.                                                         *)

Moves(c, to) == call' = [call EXCEPT ![c] = to]

Answer(c) ==
  /\ call[c] = "running"
  /\ Moves(c, "returned")
  /\ raw' = [raw EXCEPT ![c] = TRUE]
  /\ UNCHANGED <<pipes, free, inflight, closer, faults>>

\* safety.analyze raises: the copy stays as far as it got, and no raw output is stored.
Raises(c) ==
  /\ Fault
  /\ call[c] = "running"
  /\ Moves(c, "returned")
  /\ UNCHANGED <<pipes, raw, free, inflight, closer>>

Uncount(c) ==
  /\ call[c] = "returned"
  /\ inflight' = inflight - 1
  /\ Moves(c, "uncounted")
  /\ UNCHANGED <<pipes, raw, free, closer, faults>>

GiveBack(c) ==
  /\ call[c] = "uncounted"
  /\ free' = free + 1
  /\ Moves(c, "released")
  /\ UNCHANGED <<pipes, raw, inflight, closer, faults>>

Complete(c) ==
  /\ call[c] = "released"
  /\ Moves(c, "over")
  /\ UNCHANGED <<pipes, raw, free, inflight, closer, faults>>

Return(c) == Uncount(c) \/ GiveBack(c) \/ Complete(c)
-----------------------------------------------------------------------------
(* shutdown.                                                                *)

Close ==
  /\ closing = "no"
  /\ accepting' = FALSE
  /\ closing' = "runs"
  /\ UNCHANGED <<pipes, limiter, seen, faults>>

\* The loop over the pipeline threads ends when none is alive or the deadline passes.
StopJoining ==
  /\ closing = "runs"
  /\ closing' = "calls"
  /\ UNCHANGED <<pipes, limiter, accepting, seen, faults>>

\* Mutant: a wait without a deadline.
StopWaitingM ==
  /\ closing = "calls"
  /\ inflight = 0
  /\ seen' = [seen EXCEPT !.idle = TRUE]
  /\ closing' = "count"
  /\ UNCHANGED <<pipes, limiter, accepting, faults>>

\* wait_for_idle ends when nothing is in flight, or at the deadline.
StopWaiting ==
  /\ closing = "calls"
  /\ seen' = [seen EXCEPT !.idle = (inflight = 0)]
  /\ closing' = "count"
  /\ UNCHANGED <<pipes, limiter, accepting, faults>>

\* lifecycle_status, under the lifecycle lock and then under the limiter's.
CountRuns ==
  /\ closing = "count"
  /\ seen' = [seen EXCEPT !.noRuns = (Alive = {})]
  /\ closing' = "report"
  /\ UNCHANGED <<pipes, limiter, accepting, faults>>

Report ==
  /\ closing = "report"
  /\ seen' = [seen EXCEPT !.drained = seen.idle /\ seen.noRuns /\ inflight = 0]
  /\ closing' = "closed"
  /\ UNCHANGED <<pipes, limiter, accepting, faults>>

ShutdownStep == StopJoining \/ StopWaiting \/ CountRuns \/ Report
-----------------------------------------------------------------------------
PipelineStep(p) ==
  \/ Take(p) \/ Count(p) \/ Launch(p) \/ Rejected(p) \/ Timeout(p) \/ Answered(p)
  \/ Outcome(p) \/ Decide(p)

Next ==
  \/ \E p \in Pipelines : Start(p) \/ PipelineStep(p) \/ LaunchFails(p) \/ Stale(p)
  \/ \E c \in Calls : Answer(c) \/ Raises(c) \/ Return(c)
  \/ Close \/ ShutdownStep

Spec == Init /\ [][Next]_vars

\* Started pipelines run on, a call that has come back returns what it holds, and
\* shutdown goes on once it has begun.  No model owes an answer.
Fairness ==
  /\ \A p \in Pipelines : WF_vars(PipelineStep(p))
  /\ \A c \in Calls : WF_vars(Return(c))
  /\ WF_vars(ShutdownStep)

FairSpec == Spec /\ Fairness
-----------------------------------------------------------------------------
(* What the limit, the isolation and the drain promise.                     *)

\* The docstring of AnalysisLimiter: repeated timeouts do not pile up threads.  The calls
\* that run never exceed the limit, those included whose pipeline has long gone on, and
\* the free slots are what the calls and the failed starts have left.
CallsAreBounded ==
  /\ Cardinality(Holders) <= MaxInflight
  /\ free = MaxInflight - Cardinality(Holders) - Cardinality(Lost)

\* docs/agent-runtime.md, "Bounded": what a pipeline takes into its event is a call that
\* was over; one that came too late is not taken, in either round.
OnlyFinishedAnswersCount ==
  \A p \in Pipelines :
    /\ event[p].from # 0 => call[<<p, event[p].from>>] = "over"
    /\ event[p].from = 0 <=> event[p].status # "answered"

\* A second look that was asked for and did not come, for want of a slot, time or a usable
\* answer, leaves a decision that a human reviews.
MissedLookIsReviewed ==
  \A p \in Pipelines :
    pc[p] \in {"decide", "decided"} /\ round[p] = 2 /\ event[p].from = 1 => event[p].review

\* shutdown: what it reports as drained is quiet, and stays so.
DrainedIsQuiet == seen.drained => Alive = {} /\ Counted = {}

\* A pipeline decides although no model ever answers, shutdown comes to its end although
\* calls hang, and a call that has come back makes room.
NobodyWaitsForTheModel ==
  /\ \A p \in Pipelines : pc[p] = "ask" ~> pc[p] \in Ended
  /\ closing = "runs" ~> closing = "closed"
  /\ \A c \in Calls : call[c] = "returned" ~> call[c] = "over"
==============================================================================
