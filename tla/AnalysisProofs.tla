--------------------------- MODULE AnalysisProofs ---------------------------
(***************************************************************************)
(* Theorems about the analysis calls of one process, for any finite set of *)
(* pipelines, any limit and any number of faults.                          *)
(***************************************************************************)
EXTENDS Analysis, TLAPS, FiniteSetTheorems

-----------------------------------------------------------------------------
(* Type correctness.                                                       *)

LEMMA CurIsCall == ASSUME TypeOK, NEW p \in Pipelines PROVE Cur(p) \in Calls
BY DEF TypeOK, Cur, Calls

\* An update of one event keeps the type of all.
LEMMA EventType ==
  ASSUME TypeOK, NEW p \in Pipelines, NEW e \in Event, event' = [event EXCEPT ![p] = e]
  PROVE  event' \in [Pipelines -> Event]
BY DEF TypeOK

LEMMA WithoutAnswerType ==
  ASSUME TypeOK, NEW p \in Pipelines, NEW s \in {"overloaded", "timeout", "answered"}
  PROVE  WithoutAnswer(p, s) \in Event
<1>1. event[p] \in Event
  BY DEF TypeOK
<1>2. [event[p] EXCEPT !.status = s] \in Event /\ [event[p] EXCEPT !.review = TRUE] \in Event
  BY <1>1 DEF Event
<1>3. QED
  BY <1>2 DEF WithoutAnswer

LEMMA EventFields ==
  ASSUME NEW e \in Event, NEW b \in BOOLEAN
  PROVE  /\ [e EXCEPT !.status = "answered", !.from = 1] \in Event
         /\ [e EXCEPT !.from = 2, !.review = b] \in Event
         /\ [e EXCEPT !.hash = b] \in Event
         /\ [e EXCEPT !.review = b] \in Event
<1>1. [e EXCEPT !.status = "answered", !.from = 1] \in Event
  BY 1 \in 0..2 DEF Event
<1>2. [e EXCEPT !.from = 2, !.review = b] \in Event
  BY 2 \in 0..2 DEF Event
<1>3. [e EXCEPT !.hash = b] \in Event /\ [e EXCEPT !.review = b] \in Event
  BY DEF Event
<1>4. QED
  BY <1>1, <1>2, <1>3

LEMMA InitType == Init => TypeOK
<1> SUFFICES ASSUME Init PROVE TypeOK
  OBVIOUS
<1>1. [status |-> "none", from |-> 0, hash |-> FALSE, review |-> FALSE] \in Event
  BY DEF Event
<1>2. event \in [Pipelines -> Event]
  BY <1>1 DEF Init
<1>3. seen \in [idle : BOOLEAN, noRuns : BOOLEAN, drained : BOOLEAN]
  BY DEF Init
<1>4. raw \in [Calls -> BOOLEAN] /\ accepting \in BOOLEAN
  BY Zenon DEF Init
<1>5. QED
  BY <1>2, <1>3, <1>4, AnalysisAssumption DEF Init, TypeOK, Ended

\* The pipeline's own steps.
LEMMA PipelineType ==
  ASSUME TypeOK, NEW p \in Pipelines,
         Start(p) \/ PipelineStep(p) \/ LaunchFails(p) \/ Stale(p)
  PROVE  TypeOK'
<1> USE AnalysisAssumption, CurIsCall
<1>1. CASE Start(p)
  BY <1>1 DEF Start, Goes, TypeOK, limiter, closer
<1>2. CASE Take(p)
  BY <1>2 DEF Take, Goes, TypeOK, closer
<1>3. CASE Count(p)
  BY <1>3 DEF Count, Goes, TypeOK, closer
<1>4. CASE Launch(p)
  BY <1>4 DEF Launch, Goes, TypeOK, closer
<1>5. CASE LaunchFails(p)
  BY <1>5 DEF LaunchFails, Fault, Goes, TypeOK, closer, Ended
<1>6. CASE Rejected(p)
  <2>1. event' \in [Pipelines -> Event]
    BY <1>6, WithoutAnswerType, EventType DEF Rejected
  <2>2. QED
    BY <1>6, <2>1 DEF Rejected, AfterRound, Goes, TypeOK, limiter, closer
<1>7. CASE Timeout(p)
  <2>1. event' \in [Pipelines -> Event]
    BY <1>7, WithoutAnswerType, EventType DEF Timeout
  <2>2. QED
    BY <1>7, <2>1 DEF Timeout, AfterRound, Goes, TypeOK, limiter, closer
<1>8. CASE Answered(p)
  <2>1. PICK usable, review \in BOOLEAN :
          event' = [event EXCEPT ![p] =
            IF round[p] = 1 THEN [event[p] EXCEPT !.status = "answered", !.from = 1]
            ELSE IF usable  THEN [event[p] EXCEPT !.from = 2, !.review = review]
                            ELSE WithoutAnswer(p, "answered")]
    BY <1>8 DEF Answered
  <2>2. event[p] \in Event
    BY DEF TypeOK
  <2>3. [event[p] EXCEPT !.status = "answered", !.from = 1] \in Event
    BY <2>2, EventFields
  <2>4. [event[p] EXCEPT !.from = 2, !.review = review] \in Event
    BY <2>2, EventFields
  <2>5. event' \in [Pipelines -> Event]
    BY <2>1, <2>3, <2>4, WithoutAnswerType, EventType
  <2>6. QED
    BY <1>8, <2>5 DEF Answered, AfterRound, Goes, TypeOK, limiter, closer
<1>9. CASE Outcome(p)
  <2> DEFINE noted == [event[p] EXCEPT !.hash = raw[<<p, 1>>]]
  <2>1. noted \in Event
    <3>1. event[p] \in Event /\ raw[<<p, 1>>] \in BOOLEAN
      BY DEF TypeOK, Calls
    <3>2. QED
      BY <3>1, EventFields
  <2>2. \A review \in BOOLEAN : [noted EXCEPT !.review = review] \in Event
    BY <2>1, EventFields
  <2>3. event' \in [Pipelines -> Event]
    BY <1>9, <2>1, <2>2, EventType DEF Outcome
  <2>4. QED
    BY <1>9, <2>3 DEF Outcome, Goes, TypeOK, limiter, closer
<1>10. CASE Decide(p)
  BY <1>10 DEF Decide, Goes, TypeOK, limiter, closer, Ended
<1>11. CASE Stale(p)
  BY <1>11 DEF Stale, Fault, Goes, TypeOK, limiter, closer, Ended
<1>12. QED
  BY <1>1, <1>2, <1>3, <1>4, <1>5, <1>6, <1>7, <1>8, <1>9, <1>10, <1>11 DEF PipelineStep

\* The call threads' steps.
LEMMA CallType ==
  ASSUME TypeOK, NEW c \in Calls, Answer(c) \/ Raises(c)
  PROVE  TypeOK'
<1>1. CASE Answer(c)
  <2>1. raw' \in [Calls -> BOOLEAN]
    BY <1>1, Zenon DEF Answer, TypeOK
  <2>2. QED
    BY <1>1, <2>1 DEF Answer, Moves, TypeOK, pipes, closer
<1>2. CASE Raises(c)
  BY <1>2, AnalysisAssumption DEF Raises, Fault, Moves, TypeOK, pipes, closer
<1>3. QED
  BY <1>1, <1>2

LEMMA ShutdownType ==
  ASSUME TypeOK, Close \/ ShutdownStep
  PROVE  TypeOK'
<1>1. CASE Close
  <2>1. accepting' \in BOOLEAN
    BY <1>1, Zenon DEF Close
  <2>2. QED
    BY <1>1, <2>1 DEF Close, TypeOK, pipes, limiter
<1>2. CASE StopJoining
  BY <1>2 DEF StopJoining, TypeOK, pipes, limiter
<1>3. CASE StopWaiting
  <2>1. seen' \in [idle : BOOLEAN, noRuns : BOOLEAN, drained : BOOLEAN]
    BY <1>3 DEF StopWaiting, TypeOK
  <2>2. QED
    BY <1>3, <2>1 DEF StopWaiting, TypeOK, pipes, limiter
<1>4. CASE CountRuns
  <2>1. seen' \in [idle : BOOLEAN, noRuns : BOOLEAN, drained : BOOLEAN]
    BY <1>4 DEF CountRuns, TypeOK
  <2>2. QED
    BY <1>4, <2>1 DEF CountRuns, TypeOK, pipes, limiter
<1>5. CASE Report
  <2>1. seen' \in [idle : BOOLEAN, noRuns : BOOLEAN, drained : BOOLEAN]
    BY <1>5 DEF Report, TypeOK
  <2>2. QED
    BY <1>5, <2>1 DEF Report, TypeOK, pipes, limiter
<1>6. QED
  BY <1>1, <1>2, <1>3, <1>4, <1>5 DEF ShutdownStep

-----------------------------------------------------------------------------
(* Counting calls.  Three sets of calls are told apart by what their       *)
(* thread is at; a step moves one call at most.                            *)

At(f, S) == {c \in Calls : f[c] \in S}
In(v, S) == IF v \in S THEN 1 ELSE 0

LEMMA CallsFinite == IsFiniteSet(Calls)
<1>1. {1, 2} = {1} \cup {2}
  OBVIOUS
<1>2. IsFiniteSet({1} \cup {2})
  BY FS_Singleton, FS_AddElement, Zenon
<1>3. IsFiniteSet({1, 2})
  BY <1>1, <1>2, Zenon
<1>4. IsFiniteSet(Pipelines)
  BY AnalysisAssumption
<1>5. QED
  BY <1>3, <1>4, FS_Product DEF Calls

LEMMA AtFinite ==
  ASSUME NEW f, NEW S PROVE IsFiniteSet(At(f, S)) /\ Cardinality(At(f, S)) \in Nat
BY CallsFinite, FS_Subset, FS_CardinalityType DEF At

\* What the number of calls in S becomes when the call c goes over to v.
LEMMA Recount ==
  ASSUME NEW f, NEW g, NEW S, NEW c \in Calls, NEW v,
         g[c] = v, \A d \in Calls \ {c} : g[d] = f[d]
  PROVE  Cardinality(At(g, S)) = Cardinality(At(f, S)) - In(f[c], S) + In(v, S)
<1>2. IsFiniteSet(At(f, S)) /\ Cardinality(At(f, S)) \in Nat
  BY AtFinite
<1>3. c \in At(f, S) <=> f[c] \in S
  BY DEF At
<1>4. CASE v \in S
  <2>1. At(g, S) = At(f, S) \cup {c}
    BY <1>4 DEF At
  <2>2. Cardinality(At(g, S)) =
          IF c \in At(f, S) THEN Cardinality(At(f, S)) ELSE Cardinality(At(f, S)) + 1
    BY <1>2, <2>1, FS_AddElement
  <2>3. QED
    BY <1>2, <1>3, <1>4, <2>2 DEF In
<1>5. CASE v \notin S
  <2>1. At(g, S) = At(f, S) \ {c}
    BY <1>5 DEF At
  <2>2. Cardinality(At(g, S)) =
          IF c \in At(f, S) THEN Cardinality(At(f, S)) - 1 ELSE Cardinality(At(f, S))
    BY <1>2, <2>1, FS_RemoveElement
  <2>3. QED
    BY <1>2, <1>3, <1>5, <2>2 DEF In
<1>6. QED
  BY <1>4, <1>5

-----------------------------------------------------------------------------
(* The inductive invariant.                                                *)

HoldStates == {"taken", "started", "running", "returned", "uncounted"}
CountStates == {"started", "running", "returned", "lost"}
LostStates == {"lost"}

\* What a slot and a count stand for.
Tally ==
  /\ free = MaxInflight - Cardinality(At(call, HoldStates)) - Cardinality(At(call, LostStates))
  /\ inflight = Cardinality(At(call, CountStates))

\* Where a pipeline is, and what that says of its calls.
Placed(p) ==
  /\ pc[p] \in {"new", "outcome"} => round[p] = 1
  /\ pc[p] = "new" => call[<<p, 1>>] = "none"
  /\ round[p] = 1 => call[<<p, 2>>] = "none"
  /\ pc[p] = "ask" => call[Cur(p)] = "none"
  /\ pc[p] = "taken" => call[Cur(p)] = "taken"
  /\ pc[p] = "started" => call[Cur(p)] = "started"
  /\ pc[p] = "waiting" =>
       call[Cur(p)] \in {"running", "returned", "uncounted", "released", "over"}

\* What the event says, by where its pipeline is.
Told(p) ==
  /\ event[p].from # 0 => call[<<p, event[p].from>>] = "over"
  /\ event[p].from = 0 <=> event[p].status # "answered"
  /\ round[p] = 2 => event[p].status = "answered"
  /\ round[p] = 1 /\ pc[p] \in {"new", "ask", "taken", "started", "waiting"} =>
       event[p].from = 0
  /\ pc[p] \in {"decide", "decided"} /\ round[p] = 2 /\ event[p].from = 1 =>
       event[p].review

\* What shutdown has seen is still so.
Quiet ==
  /\ closing # "no" => ~accepting
  /\ seen.noRuns => closing \in {"report", "closed"} /\ Alive = {}
  /\ seen.drained => seen.noRuns /\ closing = "closed" /\ At(call, CountStates) = {}

IInv == TypeOK /\ Tally /\ (\A p \in Pipelines : Placed(p) /\ Told(p)) /\ Quiet

LEMMA InitIInv == Init => IInv
<1> SUFFICES ASSUME Init PROVE IInv
  OBVIOUS
<1>1. TypeOK
  BY InitType
<1>2. At(call, HoldStates) = {} /\ At(call, LostStates) = {} /\ At(call, CountStates) = {}
  BY DEF Init, At, HoldStates, CountStates, LostStates
<1>3. Tally
  <2>1. Cardinality({}) = 0
    BY FS_EmptySet
  <2>2. /\ Cardinality(At(call, HoldStates)) = 0
        /\ Cardinality(At(call, LostStates)) = 0
        /\ Cardinality(At(call, CountStates)) = 0
    BY <1>2, <2>1, Zenon
  <2>3. QED
    BY <2>2, AnalysisAssumption DEF Tally, Init
<1>4. ASSUME NEW p \in Pipelines PROVE Placed(p) /\ Told(p)
  BY DEF Init, Placed, Told, Calls
<1>5. Quiet
  BY DEF Init, Quiet
<1>6. QED
  BY <1>1, <1>3, <1>4, <1>5 DEF IInv

-----------------------------------------------------------------------------
(* Every step keeps the tally.                                             *)

\* The call c goes over to v, the others stay.
Becomes(c, v) == call'[c] = v /\ \A d \in Calls \ {c} : call'[d] = call[d]

LEMMA Moved ==
  ASSUME NEW c \in Calls, NEW v, Becomes(c, v)
  PROVE  /\ Cardinality(At(call', HoldStates)) =
              Cardinality(At(call, HoldStates)) - In(call[c], HoldStates) + In(v, HoldStates)
         /\ Cardinality(At(call', CountStates)) =
              Cardinality(At(call, CountStates)) - In(call[c], CountStates) + In(v, CountStates)
         /\ Cardinality(At(call', LostStates)) =
              Cardinality(At(call, LostStates)) - In(call[c], LostStates) + In(v, LostStates)
<1>1. \A S : Cardinality(At(call', S)) =
              Cardinality(At(call, S)) - In(call[c], S) + In(v, S)
  BY Recount DEF Becomes
<1>2. QED
  BY <1>1

LEMMA InStates ==
  /\ \A v \in {"taken", "started", "running", "returned", "uncounted"} : In(v, HoldStates) = 1
  /\ \A v \in {"none", "released", "over", "lost"} : In(v, HoldStates) = 0
  /\ \A v \in {"started", "running", "returned", "lost"} : In(v, CountStates) = 1
  /\ \A v \in {"none", "taken", "uncounted", "released", "over"} : In(v, CountStates) = 0
  /\ \A v \in {"none", "taken", "started", "running", "returned", "uncounted", "released",
               "over"} : In(v, LostStates) = 0
  /\ In("lost", LostStates) = 1
BY DEF In, HoldStates, CountStates, LostStates

LEMMA TallyStep == IInv /\ [Next]_vars => Tally'
<1> SUFFICES ASSUME IInv, [Next]_vars PROVE Tally'
  OBVIOUS
<1>1. /\ Cardinality(At(call, HoldStates)) \in Nat
      /\ Cardinality(At(call, LostStates)) \in Nat
      /\ Cardinality(At(call, CountStates)) \in Nat
  BY AtFinite
<1>2. TypeOK /\ MaxInflight \in Nat
  BY AnalysisAssumption DEF IInv
<1>3. CASE UNCHANGED <<call, free, inflight>>
  BY <1>3 DEF IInv, Tally
<1>4. ASSUME NEW p \in Pipelines, Take(p) PROVE Tally'
  <2>1. Cur(p) \in Calls /\ call[Cur(p)] = "none"
    BY <1>2, <1>4, CurIsCall DEF IInv, Placed, Take
  <2>2. Becomes(Cur(p), "taken")
    BY <1>2, <1>4, CurIsCall DEF Take, Becomes, TypeOK
  <2>3. /\ Cardinality(At(call', HoldStates)) = Cardinality(At(call, HoldStates)) + 1
        /\ Cardinality(At(call', LostStates)) = Cardinality(At(call, LostStates))
        /\ Cardinality(At(call', CountStates)) = Cardinality(At(call, CountStates))
    BY <1>1, <2>1, <2>2, Moved, InStates
  <2>4. QED
    BY <1>1, <1>2, <1>4, <2>3 DEF Take, Tally, IInv
<1>5. ASSUME NEW p \in Pipelines, Count(p) PROVE Tally'
  <2>1. Cur(p) \in Calls /\ call[Cur(p)] = "taken"
    BY <1>2, <1>5, CurIsCall DEF IInv, Placed, Count
  <2>2. Becomes(Cur(p), "started")
    BY <1>2, <1>5, CurIsCall DEF Count, Becomes, TypeOK
  <2>3. /\ Cardinality(At(call', HoldStates)) = Cardinality(At(call, HoldStates))
        /\ Cardinality(At(call', LostStates)) = Cardinality(At(call, LostStates))
        /\ Cardinality(At(call', CountStates)) = Cardinality(At(call, CountStates)) + 1
    BY <1>1, <2>1, <2>2, Moved, InStates
  <2>4. QED
    BY <1>1, <1>2, <1>5, <2>3 DEF Count, Tally, IInv
<1>6. ASSUME NEW p \in Pipelines, Launch(p) PROVE Tally'
  <2>1. Cur(p) \in Calls /\ call[Cur(p)] = "started"
    BY <1>2, <1>6, CurIsCall DEF IInv, Placed, Launch
  <2>2. Becomes(Cur(p), "running")
    BY <1>2, <1>6, CurIsCall DEF Launch, Becomes, TypeOK
  <2>3. /\ Cardinality(At(call', HoldStates)) = Cardinality(At(call, HoldStates))
        /\ Cardinality(At(call', LostStates)) = Cardinality(At(call, LostStates))
        /\ Cardinality(At(call', CountStates)) = Cardinality(At(call, CountStates))
    BY <1>1, <2>1, <2>2, Moved, InStates
  <2>4. QED
    BY <1>1, <1>2, <1>6, <2>3 DEF Launch, Tally, IInv
<1>7. ASSUME NEW p \in Pipelines, LaunchFails(p) PROVE Tally'
  <2>1. Cur(p) \in Calls /\ call[Cur(p)] = "started"
    BY <1>2, <1>7, CurIsCall DEF IInv, Placed, LaunchFails
  <2>2. Becomes(Cur(p), "lost")
    BY <1>2, <1>7, CurIsCall DEF LaunchFails, Becomes, TypeOK
  <2>3. /\ Cardinality(At(call', HoldStates)) = Cardinality(At(call, HoldStates)) - 1
        /\ Cardinality(At(call', LostStates)) = Cardinality(At(call, LostStates)) + 1
        /\ Cardinality(At(call', CountStates)) = Cardinality(At(call, CountStates))
    BY <1>1, <2>1, <2>2, Moved, InStates
  <2>4. QED
    BY <1>1, <1>2, <1>7, <2>3 DEF LaunchFails, Tally, IInv
<1>8. ASSUME NEW c \in Calls, Answer(c) \/ Raises(c) PROVE Tally'
  <2>1. call[c] = "running" /\ Becomes(c, "returned")
    BY <1>2, <1>8 DEF Becomes, TypeOK, Answer, Raises, Moves
  <2>2. /\ Cardinality(At(call', HoldStates)) = Cardinality(At(call, HoldStates))
        /\ Cardinality(At(call', LostStates)) = Cardinality(At(call, LostStates))
        /\ Cardinality(At(call', CountStates)) = Cardinality(At(call, CountStates))
    BY <1>1, <2>1, Moved, InStates
  <2>3. QED
    BY <1>1, <1>2, <1>8, <2>2 DEF Answer, Raises, Tally, IInv
<1>9. ASSUME NEW c \in Calls, Uncount(c) PROVE Tally'
  <2>1. call[c] = "returned" /\ Becomes(c, "uncounted")
    BY <1>2, <1>9 DEF Becomes, TypeOK, Uncount, Moves
  <2>2. /\ Cardinality(At(call', HoldStates)) = Cardinality(At(call, HoldStates))
        /\ Cardinality(At(call', LostStates)) = Cardinality(At(call, LostStates))
        /\ Cardinality(At(call', CountStates)) = Cardinality(At(call, CountStates)) - 1
    BY <1>1, <2>1, Moved, InStates
  <2>3. QED
    BY <1>1, <1>2, <1>9, <2>2 DEF Uncount, Tally, IInv
<1>10. ASSUME NEW c \in Calls, GiveBack(c) PROVE Tally'
  <2>1. call[c] = "uncounted" /\ Becomes(c, "released")
    BY <1>2, <1>10 DEF Becomes, TypeOK, GiveBack, Moves
  <2>2. /\ Cardinality(At(call', HoldStates)) = Cardinality(At(call, HoldStates)) - 1
        /\ Cardinality(At(call', LostStates)) = Cardinality(At(call, LostStates))
        /\ Cardinality(At(call', CountStates)) = Cardinality(At(call, CountStates))
    BY <1>1, <2>1, Moved, InStates
  <2>3. QED
    BY <1>1, <1>2, <1>10, <2>2 DEF GiveBack, Tally, IInv
<1>11. ASSUME NEW c \in Calls, Complete(c) PROVE Tally'
  <2>1. call[c] = "released" /\ Becomes(c, "over")
    BY <1>2, <1>11 DEF Becomes, TypeOK, Complete, Moves
  <2>2. /\ Cardinality(At(call', HoldStates)) = Cardinality(At(call, HoldStates))
        /\ Cardinality(At(call', LostStates)) = Cardinality(At(call, LostStates))
        /\ Cardinality(At(call', CountStates)) = Cardinality(At(call, CountStates))
    BY <1>1, <2>1, Moved, InStates
  <2>3. QED
    BY <1>1, <1>2, <1>11, <2>2 DEF Complete, Tally, IInv
<1>12. ASSUME NEW p \in Pipelines,
              \/ Start(p) \/ Rejected(p) \/ Timeout(p) \/ Answered(p) \/ Outcome(p)
              \/ Decide(p) \/ Stale(p)
       PROVE  Tally'
  BY <1>3, <1>12
     DEF Start, Rejected, Timeout, Answered, Outcome, Decide, Stale, limiter
<1>13. CASE Close \/ ShutdownStep \/ UNCHANGED vars
  BY <1>3, <1>13
     DEF Close, ShutdownStep, StopJoining, StopWaiting, CountRuns, Report, limiter, vars
<1>14. QED
  BY <1>4, <1>5, <1>6, <1>7, <1>8, <1>9, <1>10, <1>11, <1>12, <1>13
     DEF Next, PipelineStep, Return

-----------------------------------------------------------------------------
(* Every step keeps the types.                                             *)

LEMMA TypeStep == IInv /\ [Next]_vars => TypeOK'
<1> SUFFICES ASSUME IInv, [Next]_vars PROVE TypeOK'
  OBVIOUS
<1>1. TypeOK /\ Tally'
  BY TallyStep DEF IInv
<1>2. ASSUME NEW p \in Pipelines, Start(p) \/ PipelineStep(p) \/ LaunchFails(p) \/ Stale(p)
      PROVE  TypeOK'
  BY <1>1, <1>2, PipelineType
<1>3. ASSUME NEW c \in Calls, Answer(c) \/ Raises(c) PROVE TypeOK'
  BY <1>1, <1>3, CallType
<1>4. ASSUME NEW c \in Calls, Uncount(c) PROVE TypeOK'
  <2>1. inflight' \in Nat
    BY <1>1, AtFinite DEF Tally
  <2>2. QED
    BY <1>1, <1>4, <2>1 DEF Uncount, Moves, TypeOK, pipes, closer
<1>5. ASSUME NEW c \in Calls, GiveBack(c) PROVE TypeOK'
  <2>1. Cardinality(At(call', HoldStates)) \in Nat /\ Cardinality(At(call', LostStates)) \in Nat
    BY AtFinite
  <2>2. free' <= MaxInflight
    BY <1>1, <2>1, AnalysisAssumption DEF Tally
  <2>3. free' \in 0..MaxInflight
    BY <1>1, <1>5, <2>2, AnalysisAssumption DEF GiveBack, TypeOK
  <2>4. QED
    BY <1>1, <1>5, <2>3 DEF GiveBack, Moves, TypeOK, pipes, closer
<1>6. ASSUME NEW c \in Calls, Complete(c) PROVE TypeOK'
  BY <1>1, <1>6 DEF Complete, Moves, TypeOK, pipes, closer
<1>7. CASE Close \/ ShutdownStep
  BY <1>1, <1>7, ShutdownType
<1>8. CASE UNCHANGED vars
  BY <1>1, <1>8 DEF vars, TypeOK
<1>9. QED
  BY <1>2, <1>3, <1>4, <1>5, <1>6, <1>7, <1>8 DEF Next, Return

-----------------------------------------------------------------------------
(* Every step keeps the pipelines' places and what their events say.       *)

\* A pipeline whose variables stay, and whose calls stay or go through the steps of
\* their own threads.
LEMMA Bystander ==
  ASSUME TypeOK, NEW p \in Pipelines, Placed(p), Told(p),
         pc'[p] = pc[p], round'[p] = round[p], event'[p] = event[p],
         \A c \in {<<p, 1>>, <<p, 2>>} :
           \/ call'[c] = call[c]
           \/ /\ call[c] \in {"running", "returned", "uncounted", "released"}
              /\ call'[c] \in {"returned", "uncounted", "released", "over"}
  PROVE  Placed(p)' /\ Told(p)'
<1>1. round[p] \in {1, 2} /\ event[p].from \in {0, 1, 2}
  <2>1. event[p] \in Event
    BY DEF TypeOK
  <2>2. event[p].from \in 0..2
    BY <2>1 DEF Event
  <2>3. QED
    BY <2>2 DEF TypeOK
<1>2. Placed(p)'
  BY <1>1 DEF Placed, Cur
<1>3. Told(p)'
  BY <1>1 DEF Told
<1>4. QED
  BY <1>2, <1>3

\* The steps of other pipelines, of shutdown, and of nobody.
LEMMA CallsMove ==
  ASSUME TypeOK, NEW p \in Pipelines, NEW c \in Calls,
         Answer(c) \/ Raises(c) \/ Return(c), Placed(p), Told(p)
  PROVE  Placed(p)' /\ Told(p)'
<1>1. <<p, 1>> \in Calls /\ <<p, 2>> \in Calls
  BY DEF Calls
<1>2. \A d \in Calls :
        \/ call'[d] = call[d]
        \/ /\ call[d] \in {"running", "returned", "uncounted", "released"}
           /\ call'[d] \in {"returned", "uncounted", "released", "over"}
  BY DEF Answer, Raises, Return, Uncount, GiveBack, Complete, Moves, TypeOK
<1>3. UNCHANGED <<pc, round, event>>
  BY DEF Answer, Raises, Return, Uncount, GiveBack, Complete, pipes
<1>4. QED
  BY <1>1, <1>2, <1>3, Bystander

LEMMA OthersMove ==
  ASSUME TypeOK, NEW p \in Pipelines, NEW q \in Pipelines \ {p},
         Start(q) \/ PipelineStep(q) \/ LaunchFails(q) \/ Stale(q), Placed(p), Told(p)
  PROVE  Placed(p)' /\ Told(p)'
<1>1. Cur(q) # <<p, 1>> /\ Cur(q) # <<p, 2>>
  BY DEF Cur
<1>2. <<p, 1>> \in Calls /\ <<p, 2>> \in Calls
  BY DEF Calls
<1>3. pc'[p] = pc[p] /\ round'[p] = round[p]
  BY DEF Start, PipelineStep, LaunchFails, Stale, Take, Count, Launch, Rejected, Timeout,
         Answered, Outcome, Decide, Goes, TypeOK
<1>4. event'[p] = event[p]
  BY DEF Start, PipelineStep, LaunchFails, Stale, Take, Count, Launch, Rejected, Timeout,
         Answered, Outcome, Decide, TypeOK
<1>5. call'[<<p, 1>>] = call[<<p, 1>>] /\ call'[<<p, 2>>] = call[<<p, 2>>]
  BY <1>1, <1>2
     DEF Start, PipelineStep, LaunchFails, Stale, Take, Count, Launch, Rejected, Timeout,
         Answered, Outcome, Decide, limiter, TypeOK
<1>6. QED
  BY <1>3, <1>4, <1>5, Bystander

\* The steps of the pipeline itself.
LEMMA OwnMove ==
  ASSUME TypeOK, NEW p \in Pipelines, Placed(p), Told(p),
         Start(p) \/ PipelineStep(p) \/ LaunchFails(p) \/ Stale(p)
  PROVE  Placed(p)' /\ Told(p)'
<1>1. /\ round[p] \in {1, 2} /\ event[p] \in Event
      /\ event[p].from \in {0, 1, 2}
      /\ <<p, 1>> \in Calls /\ <<p, 2>> \in Calls
  <2>1. event[p] \in Event /\ round[p] \in {1, 2}
    BY DEF TypeOK
  <2>2. event[p].from \in 0..2
    BY <2>1 DEF Event
  <2>3. QED
    BY <2>1, <2>2 DEF Calls
<1>2. CASE Start(p)
  BY <1>1, <1>2 DEF Start, Goes, limiter, TypeOK, Placed, Told, Cur
<1>3. CASE Take(p)
  BY <1>1, <1>3 DEF Take, Goes, TypeOK, Placed, Told, Cur
<1>4. CASE Count(p)
  BY <1>1, <1>4 DEF Count, Goes, TypeOK, Placed, Told, Cur
<1>5. CASE Launch(p)
  BY <1>1, <1>5 DEF Launch, Goes, TypeOK, Placed, Told, Cur
<1>6. CASE LaunchFails(p)
  BY <1>1, <1>6 DEF LaunchFails, Goes, TypeOK, Placed, Told, Cur
<1>7. ASSUME NEW s \in {"overloaded", "timeout", "answered"}, pc[p] \in {"ask", "waiting"},
             event'[p] = WithoutAnswer(p, s), pc'[p] = AfterRound(p),
             s = "answered" => round[p] = 2, UNCHANGED <<round, call>>
      PROVE  Placed(p)' /\ Told(p)'
  <2>1. CASE round[p] = 1
    <3>1. event'[p].from = 0 /\ event'[p].status # "answered"
      BY <1>1, <1>7, <2>1 DEF WithoutAnswer, Event, Told
    <3>2. pc'[p] = "outcome"
      BY <1>7, <2>1 DEF AfterRound
    <3>3. QED
      BY <1>7, <2>1, <3>1, <3>2 DEF Placed, Told, Cur
  <2>2. CASE round[p] = 2
    <3>1. /\ event'[p].from = event[p].from
          /\ event'[p].status = event[p].status
          /\ event'[p].review
      BY <1>1, <1>7, <2>2 DEF WithoutAnswer, Event
    <3>2. pc'[p] = "decide"
      BY <1>7, <2>2 DEF AfterRound
    <3>3. QED
      BY <1>7, <2>2, <3>1, <3>2 DEF Placed, Told, Cur
  <2>3. QED
    BY <1>1, <2>1, <2>2
<1>8. CASE Rejected(p)
  BY <1>7, <1>8 DEF Rejected, Goes, limiter, TypeOK
<1>9. CASE Timeout(p)
  BY <1>7, <1>9 DEF Timeout, Goes, limiter, TypeOK
<1>10. CASE Answered(p)
  <2>1. PICK usable, review \in BOOLEAN :
          event' = [event EXCEPT ![p] =
            IF round[p] = 1 THEN [event[p] EXCEPT !.status = "answered", !.from = 1]
            ELSE IF usable  THEN [event[p] EXCEPT !.from = 2, !.review = review]
                            ELSE WithoutAnswer(p, "answered")]
    BY <1>10 DEF Answered
  <2>2. /\ pc[p] = "waiting" /\ call[Cur(p)] = "over" /\ pc'[p] = AfterRound(p)
        /\ UNCHANGED <<round, call>>
    BY <1>10 DEF Answered, Finished, Goes, limiter, TypeOK
  <2>3. CASE round[p] = 1
    <3>1. event'[p].from = 1 /\ event'[p].status = "answered"
      BY <1>1, <2>1, <2>3 DEF TypeOK, Event
    <3>2. pc'[p] = "outcome"
      BY <2>2, <2>3 DEF AfterRound
    <3>3. QED
      BY <2>2, <2>3, <3>1, <3>2 DEF Placed, Told, Cur
  <2>4. CASE round[p] = 2 /\ usable
    <3>1. event'[p].from = 2 /\ event'[p].status = event[p].status
      BY <1>1, <2>1, <2>4 DEF TypeOK, Event
    <3>2. pc'[p] = "decide"
      BY <2>2, <2>4 DEF AfterRound
    <3>3. QED
      BY <2>2, <2>4, <3>1, <3>2 DEF Placed, Told, Cur
  <2>5. CASE round[p] = 2 /\ ~usable
    <3>1. event'[p] = WithoutAnswer(p, "answered")
      BY <2>1, <2>5 DEF TypeOK
    <3>2. QED
      BY <1>7, <2>2, <2>5, <3>1
  <2>6. QED
    BY <1>1, <2>3, <2>4, <2>5
<1>11. CASE Outcome(p)
  <2> DEFINE noted == [event[p] EXCEPT !.hash = raw[<<p, 1>>]]
  <2>1. noted.from = event[p].from /\ noted.status = event[p].status /\ noted \in Event
    <3>1. noted \in Event
      BY <1>1, EventFields DEF TypeOK
    <3>2. noted.from = event[p].from /\ noted.status = event[p].status
      BY <1>1 DEF Event
    <3>3. QED
      BY <3>1, <3>2
  <2>2. pc[p] = "outcome" /\ round[p] = 1 /\ UNCHANGED call
    BY <1>11 DEF Outcome, Placed, limiter
  <2>3. event'[p].from = event[p].from /\ event'[p].status = event[p].status
    <3>1. CASE event' = [event EXCEPT ![p] = noted]
      BY <2>1, <3>1 DEF TypeOK
    <3>2. ASSUME NEW b \in BOOLEAN, event' = [event EXCEPT ![p] = [noted EXCEPT !.review = b]]
          PROVE  event'[p].from = event[p].from /\ event'[p].status = event[p].status
      <4>1. event'[p] = [noted EXCEPT !.review = b]
        BY <3>2 DEF TypeOK
      <4>2. QED
        BY <2>1, <4>1 DEF Event
    <3>3. QED
      BY <1>11, <3>1, <3>2 DEF Outcome
  <2>4. CASE pc'[p] = "decide" /\ UNCHANGED round
    BY <2>2, <2>3, <2>4 DEF Placed, Told, Cur
  <2>5. CASE pc'[p] = "ask" /\ round'[p] = 2 /\ event[p].status = "answered"
    BY <2>2, <2>3, <2>5 DEF Placed, Told, Cur
  <2>6. QED
    BY <1>11, <2>4, <2>5 DEF Outcome, Goes, TypeOK
<1>12. CASE Decide(p)
  BY <1>1, <1>12 DEF Decide, Goes, limiter, TypeOK, Placed, Told, Cur
<1>13. CASE Stale(p)
  BY <1>1, <1>13 DEF Stale, Goes, limiter, TypeOK, Placed, Told, Cur
<1>14. QED
  BY <1>2, <1>3, <1>4, <1>5, <1>6, <1>8, <1>9, <1>10, <1>11, <1>12, <1>13 DEF PipelineStep

LEMMA PipesStep == IInv /\ [Next]_vars => \A p \in Pipelines : Placed(p)' /\ Told(p)'
<1> SUFFICES ASSUME IInv, [Next]_vars, NEW p \in Pipelines PROVE Placed(p)' /\ Told(p)'
  OBVIOUS
<1>1. TypeOK /\ Placed(p) /\ Told(p)
  BY DEF IInv
<1>2. ASSUME NEW q \in Pipelines, Start(q) \/ PipelineStep(q) \/ LaunchFails(q) \/ Stale(q)
      PROVE  Placed(p)' /\ Told(p)'
  BY <1>1, <1>2, OwnMove, OthersMove
<1>3. ASSUME NEW c \in Calls, Answer(c) \/ Raises(c) \/ Return(c)
      PROVE  Placed(p)' /\ Told(p)'
  BY <1>1, <1>3, CallsMove
<1>4. CASE Close \/ ShutdownStep \/ UNCHANGED vars
  <2>1. UNCHANGED <<pc, round, event, call>>
    BY <1>4 DEF Close, ShutdownStep, StopJoining, StopWaiting, CountRuns, Report, pipes,
                limiter, vars
  <2>2. QED
    BY <1>1, <2>1, Bystander
<1>5. QED
  BY <1>2, <1>3, <1>4 DEF Next

-----------------------------------------------------------------------------
(* What shutdown has seen stays so.                                        *)

\* Nothing starts once runs are refused, and where no pipeline is alive none counts a call.
LEMMA NobodyStarts ==
  ASSUME TypeOK, [Next]_vars, ~accepting, Alive = {}
  PROVE  /\ UNCHANGED <<pc, event>>
         /\ \A c \in Calls : call'[c] \in CountStates => call[c] \in CountStates
<1>1. \A p \in Pipelines : pc[p] = "new" \/ pc[p] \in Ended
  BY DEF Alive
<1>2. ASSUME NEW p \in Pipelines, Start(p) \/ PipelineStep(p) \/ LaunchFails(p) \/ Stale(p)
      PROVE  FALSE
  BY <1>1, <1>2
     DEF Start, Startable, PipelineStep, LaunchFails, Stale, Take, Count, Launch, Rejected,
         Timeout, Answered, Outcome, Decide, Ended
<1>3. ASSUME NEW c \in Calls, Answer(c) \/ Raises(c) \/ Return(c)
      PROVE  /\ UNCHANGED <<pc, event>>
             /\ \A d \in Calls : call'[d] \in CountStates => call[d] \in CountStates
  BY <1>3
     DEF Answer, Raises, Return, Uncount, GiveBack, Complete, Moves, pipes, TypeOK, CountStates
<1>4. CASE Close \/ ShutdownStep \/ UNCHANGED vars
  BY <1>4 DEF Close, ShutdownStep, StopJoining, StopWaiting, CountRuns, Report, pipes,
              limiter, vars
<1>5. QED
  BY <1>2, <1>3, <1>4 DEF Next

LEMMA QuietStep == IInv /\ [Next]_vars => Quiet'
<1> SUFFICES ASSUME IInv, [Next]_vars PROVE Quiet'
  OBVIOUS
<1>1. TypeOK /\ Tally /\ Quiet
  BY DEF IInv
<1>2. seen.noRuns => Alive' = {}
  <2>1. SUFFICES ASSUME seen.noRuns PROVE Alive' = {}
    OBVIOUS
  <2>2. ~accepting /\ Alive = {}
    BY <1>1, <2>1 DEF Quiet
  <2>3. QED
    BY <1>1, <2>2, NobodyStarts DEF Alive
<1>3. seen.drained => At(call', CountStates) = {}
  <2>1. SUFFICES ASSUME seen.drained PROVE At(call', CountStates) = {}
    OBVIOUS
  <2>2. ~accepting /\ Alive = {} /\ At(call, CountStates) = {}
    BY <1>1, <2>1 DEF Quiet
  <2>3. QED
    BY <1>1, <2>2, NobodyStarts DEF At
<1>4. CASE UNCHANGED closer
  BY <1>1, <1>2, <1>3, <1>4 DEF Quiet, closer
<1>5. CASE Close
  BY <1>1, <1>5 DEF Quiet, Close
<1>6. CASE StopJoining
  BY <1>1, <1>6 DEF Quiet, StopJoining
<1>7. CASE StopWaiting
  <2>1. seen'.noRuns = seen.noRuns /\ seen'.drained = seen.drained
    BY <1>1, <1>7 DEF StopWaiting, TypeOK
  <2>2. QED
    BY <1>1, <1>7, <2>1 DEF Quiet, StopWaiting
<1>8. CASE CountRuns
  <2>1. (seen'.noRuns <=> Alive = {}) /\ seen'.drained = seen.drained
    BY <1>1, <1>8 DEF CountRuns, TypeOK
  <2>2. Alive' = Alive
    BY <1>8 DEF CountRuns, Alive, pipes
  <2>3. QED
    BY <1>1, <1>8, <2>1, <2>2 DEF Quiet, CountRuns
<1>9. CASE Report
  <2>1. seen'.noRuns = seen.noRuns /\ (seen'.drained => seen.noRuns /\ inflight = 0)
    BY <1>1, <1>9 DEF Report, TypeOK
  <2>2. call' = call /\ Alive' = Alive /\ closing' = "closed" /\ accepting' = accepting
    BY <1>9 DEF Report, Alive, pipes, limiter
  <2>3. inflight = 0 => At(call, CountStates) = {}
    BY <1>1, AtFinite, FS_EmptySet DEF Tally
  <2>4. QED
    BY <1>1, <1>9, <2>1, <2>2, <2>3 DEF Quiet, Report
<1>10. CASE UNCHANGED vars
  BY <1>4, <1>10 DEF vars, closer
<1>11. ASSUME NEW p \in Pipelines, Start(p) \/ PipelineStep(p) \/ LaunchFails(p) \/ Stale(p)
       PROVE  Quiet'
  BY <1>4, <1>11
     DEF Start, PipelineStep, LaunchFails, Stale, Take, Count, Launch, Rejected, Timeout,
         Answered, Outcome, Decide
<1>12. ASSUME NEW c \in Calls, Answer(c) \/ Raises(c) \/ Return(c) PROVE Quiet'
  BY <1>4, <1>12 DEF Answer, Raises, Return, Uncount, GiveBack, Complete
<1>13. QED
  BY <1>5, <1>6, <1>7, <1>8, <1>9, <1>10, <1>11, <1>12 DEF Next, ShutdownStep

-----------------------------------------------------------------------------
(* The theorems.                                                           *)

LEMMA Inductive == Spec => []IInv
<1>1. IInv /\ [Next]_vars => IInv'
  BY TallyStep, TypeStep, PipesStep, QuietStep DEF IInv
<1>2. QED
  BY InitIInv, <1>1, PTL DEF Spec

\* Pipelines, calls, events and counters of the limiter keep their types: the semaphore
\* never holds more slots than it was made with (AnalysisLimiter.try_start).
THEOREM TypeCorrect == Spec => []TypeOK
BY Inductive, PTL DEF IInv

\* However many pipelines time out and go on, the calls that run never exceed
\* llm_max_inflight, and the free slots are what running calls and failed starts have
\* left (AnalysisLimiter.try_start).
THEOREM Bounded == Spec => []CallsAreBounded
<1>1. IInv => CallsAreBounded
  <2> SUFFICES ASSUME IInv PROVE CallsAreBounded
    OBVIOUS
  <2>1. Holders = At(call, HoldStates) /\ Lost = At(call, LostStates)
    BY DEF Holders, Lost, At, HoldStates, LostStates
  <2>2. Cardinality(At(call, HoldStates)) \in Nat /\ Cardinality(At(call, LostStates)) \in Nat
    BY AtFinite
  <2>3. free = MaxInflight - Cardinality(Holders) - Cardinality(Lost) /\ free >= 0
    BY <2>1, AnalysisAssumption DEF IInv, Tally, TypeOK
  <2>4. QED
    BY <2>1, <2>2, <2>3, AnalysisAssumption DEF CallsAreBounded
<1>2. QED
  BY Inductive, <1>1, PTL

\* An answer that comes after its timeout never enters the event, in either round
\* (_run_agent_pipeline, _copy_analysis_result).
THEOREM LateAnswersStayOut == Spec => []OnlyFinishedAnswersCount
<1>1. IInv => OnlyFinishedAnswersCount
  BY DEF IInv, Told, OnlyFinishedAnswersCount
<1>2. QED
  BY Inductive, <1>1, PTL

\* A second look that was asked for and missed leaves a review
\* (_run_bounded_evidence_replan).
THEOREM MissedLooks == Spec => []MissedLookIsReviewed
<1>1. IInv => MissedLookIsReviewed
  BY DEF IInv, Told, MissedLookIsReviewed
<1>2. QED
  BY Inductive, <1>1, PTL

\* A drained process stays quiet: no pipeline lives and no call is counted (shutdown).
THEOREM Drained == Spec => []DrainedIsQuiet
<1>1. IInv => DrainedIsQuiet
  <2>1. Counted = At(call, CountStates)
    BY DEF Counted, At, CountStates
  <2>2. QED
    BY <2>1 DEF IInv, Quiet, DrainedIsQuiet
<1>2. QED
  BY Inductive, <1>1, PTL
=============================================================================
