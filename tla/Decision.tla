------------------------------ MODULE Decision ------------------------------
(***************************************************************************)
(* How one run is decided: the analysis thread works on a deep copy of the *)
(* event (memory, SOP, context, model, schema repair), the pipeline waits  *)
(* for it, adopts its result or falls back to the rules, asks at most once *)
(* for adjacent frames and once for a second opinion, and the dispatcher   *)
(* turns the outcome into a level that human_loop holds or lets pass.      *)
(* The process may die at any step; recovery starts again from the         *)
(* snapshot, which knows of a hold only once the other tools are done.     *)
(* How a tool gets its row is ToolExecutor's, who may own the run is       *)
(* AgentRun's, slots of the analysis limiter are Analysis's.               *)
(***************************************************************************)
EXTENDS Naturals, Sequences, FiniteSets, FiniteSetsExt, SequencesExt

CONSTANTS Threshold,     \* MEMORY_ESCALATION_HISTORY_COUNT
          MaxHistory,    \* bound: facts stored in the scope of this run
          Ranked,        \* citation ids as retrieved, best score first
          Binding,       \* those that name the event's type exactly
          MaxCitations, MaxMemoryEvents, TokenBudget,
          Required,      \* tokens of the items that are always kept
          Tokens,        \* tokens of an optional item, by kind
          MaxCrashes     \* bound: deaths of the process

ASSUME DecisionAssumption ==
  /\ Threshold \in Nat \ {0} /\ MaxHistory \in Nat /\ MaxCrashes \in Nat
  /\ Ranked \in Seq(Nat) /\ Binding \subseteq Range(Ranked)
  /\ MaxCitations \in Nat /\ MaxMemoryEvents \in Nat /\ TokenBudget \in Nat
  /\ Required \in Nat
  /\ Tokens \in [{"sop", "summary", "memory", "round"} -> Nat]

VARIABLES run,      \* the row: status, and the snapshot of the event
          event,    \* the pipeline's event
          copy,     \* the analysis thread's deep copy of it, while it waits
          thread,   \* where the analysis thread is
          pc,       \* where the pipeline is
          tools,    \* the rows of the tools of the plan
          hold,     \* history: an order was made, and whether its run lost it
          history,  \* facts in alarm_memory_facts for this scope, last 60 min
          spent,    \* model requests and repairs of this attempt
          crashes

toolVars == <<tools, hold>>
vars == <<run, event, copy, thread, pc, toolVars, history, spent, crashes>>

MaxRounds == 2
MaxActions == 1
MaxRepairs == 1
MaxRequests == 3

Weight == [C |-> 1, B |-> 2, A |-> 3]
Level == DOMAIN Weight
Relations == {"consistent", "conflict", "image_only", "detections_only",
              "insufficient"}
NextSteps == {"decide", "inspect_adjacent_frames", "manual_review"}
Receipts == {"succeeded", "unavailable", "failed", "no_evidence"}

-----------------------------------------------------------------------------
(* The governed context: required items, then optional ones that fit.      *)

Item == [kind : {"sop", "summary", "memory"}, id : Nat]

Priority == [sop |-> 80, summary |-> 60, memory |-> 50]

Candidates(cites, facts) ==
  {[kind |-> "sop", id |-> cites[i]] : i \in 1..Min({Len(cites), MaxCitations})}
  \cup {[kind |-> "summary", id |-> 0] : n \in {1} \cap {Min({facts, 1})}}
  \cup {[kind |-> "memory", id |-> n] : n \in 1..Min({facts, MaxMemoryEvents})}

Before(a, b) == \/ Priority[a.kind] > Priority[b.kind]
                \/ Priority[a.kind] = Priority[b.kind] /\ a.id < b.id

\* The size the budget is held against: the round's own metadata is left out.
\* Mutant: it is counted.
SizeM(items, round) ==
  Required + round * Tokens["round"] + MapThenSumSet(LAMBDA x : Tokens[x.kind], items)
Size(items, round) ==
  Required + MapThenSumSet(LAMBDA x : Tokens[x.kind], items)

\* In this order, an item is kept when it fits with those kept before it.
Admit(cites, facts, round) ==
  CHOOSE kept \in SUBSET Candidates(cites, facts) :
    \A x \in Candidates(cites, facts) :
      x \in kept <=> Size({y \in kept : Before(y, x)} \cup {x}, round) <= TokenBudget

Admitted == [found \in BOOLEAN |-> [facts \in 0..MaxHistory |->
               [round \in 1..MaxRounds |->
                  Admit(IF found THEN Ranked ELSE <<>>, facts, round)]]]

NoContext == [status |-> "none", items |-> {}, facts |-> 0]
Skipped == [status |-> "skipped", items |-> {}, facts |-> 0]
Built(sop, facts, round) ==
  [status |-> "built", items |-> Admitted[sop = "retrieved"][facts][round],
   facts |-> facts]

Cited(context) == {x.id : x \in {y \in context.items : y.kind = "sop"}}
Retrieved(sop) == IF sop = "retrieved" THEN Range(Ranked) ELSE {}

-----------------------------------------------------------------------------
(* The model's answer, and what the code makes of it.  An answer that is   *)
(* no JSON at all is NoAnswer.  Every answer cites all it could: the worst *)
(* case for what is adopted.                                               *)

NoAnswer == [level |-> "none", claim |-> "none", step |-> "omitted", insists |-> FALSE]
Answer == [level : Level \cup {"none"},
           claim : {"consistent", "conflict", "unfounded_conflict", "insufficient"},
           step : NextSteps \cup {"unregistered", "omitted"},
           insists : BOOLEAN]    \* confidence >= 0.55, or an urgent action

NextStep(a) == CASE a.step = "unregistered" -> "manual_review"
                 [] a.step = "omitted" ->
                      IF a.claim = "insufficient" THEN "manual_review" ELSE "decide"
                 [] OTHER -> a.step

\* Mutant: the claim is believed as it stands.
AssessM(image, a) == IF image THEN a.claim ELSE "detections_only"
Assess(image, a) ==
  CASE ~image -> "detections_only"
    [] a.claim \in {"conflict", "consistent"} -> a.claim
    [] OTHER -> "insufficient"

NoRec == [level |-> "none", relation |-> "none", step |-> "decide",
          insists |-> FALSE, cites |-> {}, review |-> FALSE]

\* _normalize_recommendation and assess_evidence; an A always asks for a person.
Recommendation(e, a) ==
  IF a = NoAnswer THEN NoRec
  ELSE LET relation == Assess(e.image, a) IN
       [level |-> a.level, relation |-> relation, step |-> NextStep(a),
        insists |-> a.level = "A" \/ (a.level = "B" /\ a.insists),  \* a C raises nothing
        cites |-> Cited(e.context) \cap Retrieved(e.sop),
        review |-> relation = "conflict"]

Advice(e) == {Recommendation(e, a) : a \in Answer \cup {NoAnswer}}

Repair(status, count) == [status |-> status, count |-> count]

\* Mutant: the attempt that the trace records is not counted.
MayRepairM(e) == e.repair.status /= "none"
MayRepair(e) == e.repair.count < MaxRepairs

NoReplan == [status |-> "none", rounds |-> <<>>, actions |-> <<>>, review |-> FALSE]
NoDecision == [level |-> "none", rule |-> "none", review |-> FALSE, grounded |-> {}]

NewEvent(level, image) ==
  [base |-> level, level |-> level, image |-> image, llm |-> "pending",
   valid |-> FALSE, rec |-> NoRec, context |-> NoContext, sop |-> "none",
   repair |-> Repair("none", 0), replan |-> NoReplan, decision |-> NoDecision,
   approval |-> "auto"]

Init ==
  /\ event \in {NewEvent(level, image) : level \in Level, image \in BOOLEAN}
  /\ run = [status |-> "analyzing", event |-> event]
  /\ copy = event
  /\ thread = [at |-> "idle", round |-> 1]
  /\ pc = "start"
  /\ tools = "none"
  /\ hold = "none"
  /\ history \in 0..MaxHistory
  /\ spent = [requests |-> 0, repairs |-> 0, before |-> 0]
  /\ crashes = 0

-----------------------------------------------------------------------------
(* The analysis thread: SafetyAgent.analyze and reanalyze, on the copy.    *)

\* Repeated incidents of the same camera, family and zone make a B an A.
Escalate(e, facts) == IF e.level = "B" /\ facts >= Threshold
                        THEN [e EXCEPT !.level = "A"] ELSE e

\* The second round takes the memory and the citations of the first.
Facts(round) == IF round = 1 THEN history ELSE copy.context.facts

Consult ==
  /\ thread.at = "begin"
  /\ \E sop \in IF thread.round = 1
                  THEN {"retrieved", "no_evidence", "retrieval_error"} ELSE {copy.sop} :
       LET facts == Facts(thread.round)
       IN copy' = [(IF thread.round = 1 THEN Escalate(copy, facts) ELSE copy)
                     EXCEPT !.sop = sop,
                            !.context = Built(sop, facts, thread.round)]
  /\ thread' = [thread EXCEPT !.at = "asked"]
  /\ spent' = [spent EXCEPT !.requests = @ + 1]
  /\ UNCHANGED <<run, event, pc, history>>

\* _finalize_model_result with the answer that was kept.
Concluded(e, rec) == [e EXCEPT !.rec = rec, !.valid = rec.level \in Level,
                               !.llm = IF rec.level \in Level THEN "success" ELSE "invalid_json"]

Respond ==
  /\ thread.at = "asked"
  /\ \E rec \in Advice(copy) :
       \/ /\ rec.level \in Level
          /\ copy' = Concluded(copy, rec)
          /\ thread' = [thread EXCEPT !.at = "done"]
          /\ UNCHANGED spent
       \/ /\ rec.level \notin Level
          /\ MayRepair(copy)
          /\ copy' = [copy EXCEPT !.rec = rec]
          /\ thread' = [thread EXCEPT !.at = "repair"]
          /\ spent' = [spent EXCEPT !.requests = @ + 1, !.repairs = @ + 1]
       \/ /\ rec.level \notin Level
          /\ ~MayRepair(copy)
          /\ copy' = [Concluded(copy, rec) EXCEPT !.repair.status = "exhausted"]
          /\ thread' = [thread EXCEPT !.at = "done"]
          /\ UNCHANGED spent
  /\ UNCHANGED <<run, event, pc, history>>

\* The answer of _call_repair; a call that fails counts as one without JSON.
Repaired ==
  /\ thread.at = "repair"
  /\ \E rec \in Advice(copy) :
       copy' = IF rec.level \in Level
                 THEN [Concluded(copy, rec) EXCEPT
                         !.repair = Repair("repaired", copy.repair.count + 1)]
                 ELSE [Concluded(copy, copy.rec) EXCEPT
                         !.repair = Repair("exhausted", copy.repair.count + 1)]
  /\ thread' = [thread EXCEPT !.at = "done"]
  /\ UNCHANGED <<run, event, pc, history, spent>>

\* The memory database, the builder or the model call raises.
Raise ==
  /\ thread.at \in {"begin", "asked"}
  /\ copy' = [copy EXCEPT !.llm = "failed", !.valid = FALSE,
                !.rec = IF thread.round = 1 THEN NoRec ELSE @,
                !.repair = IF thread.round = 1 /\ @.status = "not_needed"
                             THEN Repair("not_allowed", 0) ELSE @]
  /\ thread' = [thread EXCEPT !.at = "done"]
  /\ UNCHANGED <<run, event, pc, history, spent>>

-----------------------------------------------------------------------------
(* The pipeline: the first round.                                          *)

Fallback(e, why) == [e EXCEPT !.llm = why, !.valid = FALSE, !.rec = NoRec,
                              !.context = Skipped, !.repair = Repair("not_allowed", 0)]

WithTrace(e) == IF e.repair.status = "none"
                  THEN [e EXCEPT !.repair = Repair("not_needed", 0)] ELSE e

Begin ==
  /\ pc = "start"
  /\ LET e == WithTrace(event) IN
       /\ spent' = [requests |-> 0, repairs |-> 0, before |-> e.repair.count]
       /\ \/ /\ event' = e
             /\ copy' = e
             /\ thread' = [at |-> "begin", round |-> 1]
             /\ pc' = "first"
          \/ /\ event' = Fallback(e, "overloaded")
             /\ pc' = "replan"
             /\ UNCHANGED <<copy, thread>>
  /\ UNCHANGED <<run, history>>

\* _copy_analysis_result.  Mutant: the escalated detections stay in the copy.
AdoptM(e, c) == [e EXCEPT !.rec = c.rec, !.llm = c.llm, !.valid = c.valid,
                          !.context = c.context, !.repair = c.repair, !.sop = c.sop]
Adopt(e, c) == [e EXCEPT !.level = c.level, !.rec = c.rec, !.llm = c.llm,
                         !.valid = c.valid, !.context = c.context,
                         !.repair = c.repair, !.sop = c.sop]

\* Nobody reads the copy any more; what a late thread does to it is Analysis's.
Forget == copy' = event' /\ thread' = [at |-> "idle", round |-> 1]

AdoptFirst ==
  /\ pc = "first"
  /\ thread.at = "done"
  /\ event' = Adopt(event, copy)
  /\ pc' = "replan"
  /\ Forget
  /\ UNCHANGED <<run, history, spent>>

TimeoutFirst ==
  /\ pc = "first"
  /\ thread.at /= "done"
  /\ event' = Fallback(event, "timeout")
  /\ pc' = "replan"
  /\ Forget
  /\ UNCHANGED <<run, history, spent>>

-----------------------------------------------------------------------------
(* The bounded evidence replan.                                            *)

\* append_decision_round
WithRound(replan, e) ==
  [replan EXCEPT !.rounds = Append(@, [level |-> e.rec.level, context |-> e.context])]

\* _require_evidence_review
Reviewed(e) == [e EXCEPT !.rec.review = TRUE, !.replan.status = "manual_review",
                         !.replan.review = TRUE]

Inspects(e) == /\ e.valid
               /\ e.rec.relation /= "conflict"
               /\ e.rec.step = "inspect_adjacent_frames"

\* The first round decides by itself, or needs a person.
Unsettled(e) == \/ e.rec.relation \in {"conflict", "insufficient"}
                \/ e.rec.step = "manual_review"

FirstRound(e) == [e EXCEPT !.replan = WithRound(NoReplan, e)]

Settle ==
  /\ pc = "replan"
  /\ LET e == FirstRound(event) IN
       /\ ~Inspects(e)
       /\ event' = CASE ~e.valid -> [e EXCEPT !.replan.status = "model_unavailable"]
                     [] e.valid /\ Unsettled(e) -> Reviewed(e)
                     [] OTHER -> [e EXCEPT !.replan.status = "not_requested"]
  /\ pc' = "plan"
  /\ UNCHANGED <<run, thread, history, spent>>
  /\ copy' = event'

\* AdjacentFrameEvidenceTool.execute, the snapshot, and the second thread.
Inspect ==
  /\ pc = "replan"
  /\ Inspects(event)
  /\ \E receipt \in Receipts :
       LET e == [FirstRound(event) EXCEPT !.replan.actions = <<receipt>>] IN
       /\ run' = [run EXCEPT !.event = e]
       /\ \/ /\ receipt = "succeeded"
             /\ event' = e
             /\ copy' = e
             /\ thread' = [at |-> "begin", round |-> 2]
             /\ pc' = "second"
          \/ /\ event' = Reviewed(e)      \* no frames, or no capacity
             /\ pc' = "plan"
             /\ UNCHANGED <<copy, thread>>
  /\ UNCHANGED <<history, spent>>

\* terminal_review_reason, and the comparison of the two risk levels.
\* Mutant: a lower second level settles the matter.
ContestedM(first, e) == Unsettled(e) \/ e.rec.step = "inspect_adjacent_frames"
Contested(first, e) == \/ Unsettled(e)
                       \/ e.rec.step = "inspect_adjacent_frames"
                       \/ Weight[e.rec.level] < Weight[first.level]

AdoptSecond ==
  /\ pc = "second"
  /\ thread.at = "done"
  /\ copy.llm = "success"
  /\ LET a == Adopt(event, copy)
         e == [a EXCEPT !.replan = WithRound(@, a)]
     IN event' = IF Contested(event.rec, e)
                   THEN Reviewed(e) ELSE [e EXCEPT !.replan.status = "resolved"]
  /\ run' = [run EXCEPT !.event = event']
  /\ pc' = "plan"
  /\ Forget
  /\ UNCHANGED <<history, spent>>

\* Timeout, or a second answer that is no use: the first one stands, reviewed.
RefuseSecond ==
  /\ pc = "second"
  /\ thread.at /= "done" \/ copy.llm /= "success"
  /\ event' = Reviewed(event)
  /\ pc' = "plan"
  /\ Forget
  /\ UNCHANGED <<run, history, spent>>

-----------------------------------------------------------------------------
(* The dispatcher's decision and the hold.                                 *)

\* _make_decision
FinalLevel(e) == IF /\ e.rec.level \in Level
                    /\ Weight[e.rec.level] > Weight[e.level]
                    /\ e.rec.insists
                   THEN e.rec.level ELSE e.level

\* _finalize_grounding.  Mutant: what was retrieved need not have been read.
GroundedM(e) == Retrieved(e.sop) \cap Binding
Grounded(e) == Retrieved(e.sop) \cap Cited(e.context) \cap Binding

Plan ==
  /\ pc = "plan"
  /\ event' = [event EXCEPT !.decision =
                 [level |-> FinalLevel(event), rule |-> event.level,
                  review |-> event.rec.review, grounded |-> Grounded(event)]]
  /\ run' = [status |-> "decided", event |-> event']
  /\ pc' = "decided"
  /\ UNCHANGED <<thread, history, spent>>
  /\ copy' = event'

Dispatch ==
  /\ pc = "decided"
  /\ run' = [status |-> "executing", event |-> event]
  /\ pc' = "executing"
  /\ UNCHANGED <<event, copy, thread, history, spent>>

\* The rows together: "none", "checking" (that of the check is running), "checked",
\* "others" (that of another tool is running), "all" succeeded, or one "failed".
Holds(decision) == decision.review \/ decision.level = "A"

Held(e) == [e EXCEPT !.approval = IF Holds(e.decision) THEN "pending" ELSE @]

Ran(row) ==
  /\ tools' = row
  /\ UNCHANGED <<run, thread, pc, history, spent>>

\* HumanLoopTool._check_and_hold, the first tool of every plan: it makes the order and
\* marks the event of the worker, or raises before it has done so.
Check ==
  /\ pc = "executing"
  /\ tools = "none"
  /\ \/ /\ event' = Held(event)
        /\ hold' = IF Holds(event.decision) THEN "made" ELSE hold
        /\ Ran("checking")
     \/ UNCHANGED <<event, hold>> /\ Ran("failed")
  /\ copy' = event'

\* The result of a tool is recorded, unless the tool or the database fails.
Outcomes == [checking |-> {"checked", "failed"}, others |-> {"checked", "all", "failed"}]

Recorded ==
  /\ pc = "executing"
  /\ tools \in DOMAIN Outcomes
  /\ \E row \in Outcomes[tools] : Ran(row)
  /\ UNCHANGED <<event, copy, hold>>

\* The next tool of the plan; after a crash, the first one without a row.
OtherTool ==
  /\ pc = "executing"
  /\ tools = "checked"
  /\ Ran("others")
  /\ UNCHANGED <<event, copy, hold>>

\* The last transition: only now the row knows what the check has made of the event.
End(e) == CASE e.approval = "pending" -> "waiting_approval"
            [] e.approval /= "pending" /\ tools = "failed" -> "manual_takeover"
            [] OTHER -> "succeeded"

Conclude ==
  /\ pc = "executing"
  /\ tools \in {"all", "failed"}
  /\ run' = [status |-> End(event), event |-> event]
  /\ pc' = "done"
  /\ UNCHANGED <<event, copy, thread, tools, hold, history, spent>>

-----------------------------------------------------------------------------
(* The environment.                                                        *)

\* Another run of the scope stores its alarm, as long as ours is undecided.
OtherAlarm ==
  /\ pc \in {"start", "first", "replan", "second"}
  /\ history < MaxHistory
  /\ history' = history + 1
  /\ UNCHANGED <<run, event, copy, thread, pc, spent>>

\* The process dies, and with it the event that knows of the order.  A worker that loses
\* its lease and stops at its next fence check leaves the run in the same state.
Crash ==
  /\ pc \notin {"dead", "done"}
  /\ crashes < MaxCrashes
  /\ crashes' = crashes + 1
  /\ pc' = "dead"
  /\ event' = run.event
  /\ hold' = IF hold = "made" THEN "orphaned" ELSE hold
  /\ Forget
  /\ UNCHANGED <<run, tools, history, spent>>

\* What the new attempt writes before anything reads it is not carried over.
Carried(e) == [e EXCEPT !.rec = NoRec, !.llm = "pending", !.valid = FALSE,
                        !.replan = NoReplan, !.decision = NoDecision]

\* Recovery audits the rows of an executing run: an uncertain one needs a person, a
\* complete plan is finalised and any other is resumed, with the event of the snapshot;
\* a check that is recorded is not made again.
Uncertain == tools \in {"checking", "others", "failed"}

Audit ==
  /\ run.status = "executing"
  /\ \/ /\ Uncertain
        /\ run' = [run EXCEPT !.status = "manual_takeover"]
        /\ pc' = "done"
     \/ /\ tools = "all"
        /\ run' = [run EXCEPT !.status = End(event)]
        /\ pc' = "done"
     \/ /\ tools \in {"none", "checked"}
        /\ pc' = "executing"
        /\ UNCHANGED run
  /\ UNCHANGED event

Restart ==
  /\ run.status /= "executing"
  /\ pc' = "start"
  /\ event' = Carried(event)
  /\ run' = [status |-> "analyzing", event |-> event']

Recover ==
  /\ pc = "dead"
  /\ Audit \/ Restart
  /\ Forget
  /\ UNCHANGED <<tools, hold, history, spent, crashes>>

Thread == Consult \/ Respond \/ Repaired \/ Raise
Pipeline == \/ Begin \/ AdoptFirst \/ TimeoutFirst \/ Settle \/ Inspect
            \/ AdoptSecond \/ RefuseSecond \/ Plan \/ Dispatch
Tools == Check \/ Recorded \/ OtherTool \/ Conclude

Next == \/ (Thread \/ Pipeline \/ OtherAlarm) /\ UNCHANGED <<toolVars, crashes>>
        \/ Tools /\ UNCHANGED crashes
        \/ Crash
        \/ Recover

Spec == Init /\ [][Next]_vars

-----------------------------------------------------------------------------
(* What validate_trace asks of the run that get_trace shows.               *)

RepairContract(e) ==
  {x \in {"repair_attempt_budget_exceeded"} : e.repair.count > 1}
  \cup {x \in {"unexpected_repair_attempt"} :
          e.repair.status \in {"not_needed", "not_allowed"} /\ e.repair.count > 0}
  \cup {x \in {"invalid_successful_repair_trace"} :
          e.repair.status = "repaired" /\ e.repair.count /= 1}
  \cup {x \in {"missing_repair_status"} : e.repair.status = "none"}

ContextContract(e) ==
  {x \in {"invalid_context_status"} : e.context.status = "none"}
  \cup {x \in {"context_skipped_without_runtime_fallback"} :
          e.context.status = "skipped" /\ e.llm \notin {"overloaded", "timeout"}}
  \cup {x \in {"missing_catalog_version"} :
          e.sop \notin {"retrieved", "no_evidence"}}

ReplanContract(e, status) ==
  LET rounds == e.replan.rounds   actions == e.replan.actions IN
  {x \in {"evidence_replan_round_budget_exceeded"} : Len(rounds) > MaxRounds}
  \cup {x \in {"evidence_action_budget_exceeded"} : Len(actions) > MaxActions}
  \cup {x \in {"resolved_replan_missing_round_or_action"} :
          e.replan.status = "resolved" /\ (Len(rounds) /= 2 \/ actions /= <<"succeeded">>)}
  \cup {x \in {"replan_final_context_hash_mismatch"} :
          Len(rounds) = 2 /\ rounds[2].context /= e.context}
  \cup {x \in {"evidence_replan_review_not_enforced"} :
          e.replan.review /\ ~e.decision.review}
  \cup {x \in {"unresolved_evidence_run_succeeded"} :
          e.replan.review /\ status = "succeeded"}
  \cup {x \in {"manual_review_status_without_hold"} :
          e.replan.status = "manual_review" /\ ~e.replan.review}

CitationContract(e) ==
  {x \in {"selected_citation_not_in_model_context"} :
     ~(e.rec.cites \subseteq Cited(e.context) \cap Retrieved(e.sop))}
  \cup {x \in {"grounded_citation_not_in_context"} :
          ~(e.decision.grounded \subseteq Cited(e.context) \cap Retrieved(e.sop))}

ApprovalContract(e, status) ==
  {x \in {"evidence_conflict_review_not_required"} :
     e.rec.relation = "conflict" /\ ~e.decision.review}
  \cup {x \in {"waiting_run_has_invalid_approval_status"} :
          status = "waiting_approval" /\ e.approval /= "pending"}

TraceErrors(status, e) ==
  RepairContract(e) \cup ContextContract(e) \cup ReplanContract(e, status)
  \cup CitationContract(e) \cup ApprovalContract(e, status)

-----------------------------------------------------------------------------
(* Properties.                                                             *)

Calls == {"pending", "success", "invalid_json", "failed", "timeout", "overloaded"}
Lookups == {"none", "retrieved", "no_evidence", "retrieval_error"}
Recs == [level : Level \cup {"none"}, relation : Relations \cup {"none"},
         step : NextSteps, insists : BOOLEAN, cites : SUBSET Range(Ranked),
         review : BOOLEAN]
Contexts == [status : {"none", "built", "skipped"}, items : SUBSET Item,
             facts : 0..MaxHistory]
Repairs == [status : {"none", "not_needed", "not_allowed", "repaired", "exhausted"},
            count : 0..MaxRepairs]
Rounds == [level : Level \cup {"none"}, context : Contexts]
Replans == [status : {"none", "model_unavailable", "manual_review", "not_requested",
                      "resolved"},
            rounds : Seq(Rounds), actions : Seq(Receipts), review : BOOLEAN]
Decisions == [level : Level \cup {"none"}, rule : Level \cup {"none"},
              review : BOOLEAN, grounded : SUBSET Range(Ranked)]
Event == [base : Level, level : Level, image : BOOLEAN, llm : Calls, valid : BOOLEAN,
          rec : Recs, context : Contexts, sop : Lookups, repair : Repairs,
          replan : Replans, decision : Decisions, approval : {"auto", "pending"}]

\* The row, the pipeline's event and the thread's copy have their types: in
\* particular an evidence relation is one of the registered ones, whatever
\* the model claims (assess_evidence).
TypeOK ==
  /\ run \in [status : {"analyzing", "decided", "executing", "waiting_approval", "succeeded",
                        "manual_takeover"},
              event : Event]
  /\ event \in Event /\ copy \in Event
  /\ thread \in [at : {"idle", "begin", "asked", "repair", "done"}, round : 1..MaxRounds]
  /\ pc \in {"start", "first", "replan", "second", "plan", "decided", "executing",
             "done", "dead"}
  /\ tools \in {"none", "checking", "checked", "others", "all", "failed"}
  /\ hold \in {"none", "made", "orphaned"}
  /\ history \in 0..MaxHistory
  /\ spent \in [requests : Nat, repairs : Nat, before : Nat]
  /\ crashes \in 0..MaxCrashes

\* One attempt makes at most three model requests, two rounds and one evidence
\* action; it repairs at most once, and not at all when the snapshot it began
\* with records a repair (docs/agent-runtime.md, the budget table).
BudgetsHold ==
  /\ spent.requests <= MaxRequests
  /\ spent.repairs + spent.before <= MaxRepairs
  /\ \A e \in {run.event, event, copy} :
       /\ Len(e.replan.rounds) <= MaxRounds
       /\ Len(e.replan.actions) <= MaxActions

\* Whatever the model answers, in whichever round, attempt or repair, and
\* whenever it answers: the decided level is not below what perception
\* reported, and a repeated incident that an adopted context has shown to the
\* model is decided as an A (plan, _apply_memory_escalation).
NeverBelowTheRules ==
  event.decision.level \in Level =>
    /\ Weight[event.decision.level] >= Weight[event.base]
    /\ (/\ pc \in {"decided", "executing", "done"}
        /\ event.base = "B"
        /\ event.context.facts >= Threshold) => event.decision.level = "A"

\* A run that succeeds without an operator has no A decision, no conflict, no
\* valid answer that is in doubt or asks for more, and no second round that
\* took back a level of the first (the review list of docs/agent-runtime.md) -
\* but for the runs whose worker was lost after the order was made and before
\* the last transition, which recovery ends or resumes without knowing of it.
UncertainIsHeld ==
  (run.status = "succeeded" /\ hold /= "orphaned") =>
    /\ run.event.decision.level /= "A"
    /\ run.event.rec.relation /= "conflict"
    /\ run.event.valid => /\ run.event.rec.relation /= "insufficient"
                          /\ run.event.rec.step = "decide"
    /\ Len(run.event.replan.rounds) = 2 =>
         Weight[run.event.replan.rounds[2].level] >= Weight[run.event.replan.rounds[1].level]

\* The two rounds of a replan are told the same memory and the same
\* citations, though other runs store alarms in between: what differs is the
\* evidence (analyze, reanalyze, ContextBuilder.build).
RoundsCompareAlike ==
  Len(event.replan.rounds) = 2 =>
    event.replan.rounds[2].context = event.replan.rounds[1].context

\* A run that ended with a context it has shown to the model, after a lookup
\* that knows its catalog, satisfies the contracts the trace validator checks,
\* with mixed rounds and attempts and with deaths on the way - but for a run
\* that lost its order, of which the validator may find that it succeeded
\* unreviewed, and nothing else.
TraceIsValid ==
  (/\ pc = "done"
   /\ run.event.context.status = "built"
   /\ run.event.sop \in {"retrieved", "no_evidence"}) =>
     TraceErrors(run.status, run.event)
       \subseteq IF hold = "orphaned" THEN {"unresolved_evidence_run_succeeded"} ELSE {}
=============================================================================
