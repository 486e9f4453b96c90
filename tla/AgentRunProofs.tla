--------------------------- MODULE AgentRunProofs ---------------------------
(***************************************************************************)
(* Proofs about AgentRun: any number of worker threads, operators, faults  *)
(* and retries.  A worker may complete a run only on recorded successes;   *)
(* the argument is that the rows a pass has walked over never change       *)
(* again, because each running row has exactly one thread that will finish *)
(* it (WorkInv).  What it may rely on while it owns the row is PhaseInv;   *)
(* what a granted retry may rely on until it is written is RetryInv.       *)
(***************************************************************************)
EXTENDS AgentRun, TLAPS

\* w has inserted the row of a tool and not recorded its outcome.
HoldsRow(w) == pc[w] \in {"handler", "returned", "failed", "succeeding", "failing"}

AtStep(w) == pc[w] = "insert" \/ HoldsRow(w)

InPlan(w) == pc[w] = "tools" \/ AtStep(w)

Outside == {"off", "audit", "park", "finalize", "resume", "replay", "analyse",
            "decided"}

\* What a worker may rely on before, at and behind its place in the plan.
Fresh(w) ==
  pc[w] \in Outside
    => next[w] = 1 /\ bad[w] = FALSE

Placed(w) ==
  /\ pc[w] = "decided" \/ InPlan(w) => ev[w].level # "none"
  /\ InPlan(w) => next[w] <= Len(Plan[ev[w].level]) + 1
  /\ AtStep(w) => next[w] <= Len(Plan[ev[w].level])

Walked(w) ==
  InPlan(w) /\ bad[w] = FALSE
    => \A i \in 1..(next[w] - 1) : rows[Plan[ev[w].level][i]] = "succeeded"

Running(w) == HoldsRow(w) => rows[Current(w)] = "running"

Alone(w) ==
  \A v \in Worker : HoldsRow(w) /\ HoldsRow(v) /\ v # w => Current(v) # Current(w)

WorkInv ==
  \A w \in Worker : Fresh(w) /\ Placed(w) /\ Walked(w) /\ Running(w) /\ Alone(w)

\* A request carries a decision of its own kind.
ReqInv ==
  \A q \in Request :
    /\ req[q].step \in {"decide", "look", "act", "patch", "settle"}
         => req[q].decision \in {"approved", "rejected"}
    /\ req[q].step = "resolve" => req[q].decision \in Resolution

\* What the audit found stays true: a row that succeeded does so for good.
Audited ==
  \A w \in Worker :
    pc[w] = "finalize" => /\ ev[w].level # "none"
                          /\ \A k \in Steps(ev[w].level) : rows[k] = "succeeded"

IInv == TypeOK /\ ReqInv /\ WorkInv /\ Audited /\ PlanCompleted
-----------------------------------------------------------------------------
\* Every plan has two to four steps, all of them tools.
LEMMA PlanShape ==
  \A l \in Levels : /\ Len(Plan[l]) \in 2..4
                    /\ \A i \in 1..Len(Plan[l]) : Plan[l][i] \in Tool
<1> TAKE l \in Levels
<1>1. CASE l = "A"
  BY <1>1 DEF Plan, Levels, Tool
<1>2. CASE l = "B"
  BY <1>2 DEF Plan, Levels, Tool
<1>3. CASE l = "C"
  BY <1>3 DEF Plan, Levels, Tool
<1> QED BY <1>1, <1>2, <1>3 DEF Levels

\* The step at which a worker stands is a tool.
LEMMA CurrentIsTool ==
  ASSUME TypeOK, WorkInv, NEW w \in Worker, HasStep(w) \/ AtStep(w)
  PROVE  /\ Current(w) \in Tool
         /\ ev[w].level \in Levels
         /\ next[w] \in 1..Len(Plan[ev[w].level])
         /\ Len(Plan[ev[w].level]) \in 2..4
<1>1. ev[w].level \in Levels
  BY DEF TypeOK, WorkInv, Placed, InPlan, HasStep, Event
<1>2. Len(Plan[ev[w].level]) \in 2..4
  BY <1>1, PlanShape
<1>3. next[w] \in 1..Len(Plan[ev[w].level])
  BY <1>2 DEF TypeOK, WorkInv, Placed, HasStep
<1> QED BY <1>1, <1>2, <1>3, PlanShape DEF Current

\* So are the steps a worker has walked over.
LEMMA WalkedSteps ==
  ASSUME TypeOK, WorkInv, NEW w \in Worker, InPlan(w), NEW i \in 1..(next[w] - 1)
  PROVE  /\ ev[w].level \in Levels
         /\ i \in 1..Len(Plan[ev[w].level])
         /\ Plan[ev[w].level][i] \in Tool
<1>1. ev[w].level \in Levels /\ next[w] <= Len(Plan[ev[w].level]) + 1
  BY DEF WorkInv, Placed, TypeOK, Event
<1>2. i \in 1..Len(Plan[ev[w].level])
  BY <1>1, PlanShape DEF TypeOK
<1> QED BY <1>1, <1>2, PlanShape
-----------------------------------------------------------------------------
LEMMA InitIInv == ASSUME RunAssumption, Init PROVE IInv
<1>1. TypeOK
  <2>1. NoEvent \in Event
    BY DEF NoEvent, Event, Levels
  <2>2. /\ status \in Status
        /\ owner \in Worker \cup {NoWorker}
        /\ live \in BOOLEAN
        /\ snap \in Event
        /\ rows \in [Tool -> {"none", "running", "succeeded", "failed"}]
        /\ order \in {"none", "pending", "approved", "rejected"}
        /\ hold \in {"none", "risk", "review"}
        /\ actuator \in {"none", "executed", "reviewed", "cancelled"}
        /\ settledBy \in {"worker", "approval", "operator"}
    BY <2>1 DEF Init, Status, ActiveStatuses
  <2>3. /\ pc \in [Worker -> PC]
        /\ ev \in [Worker -> Event]
        /\ next \in [Worker -> 1..5]
        /\ bad \in [Worker -> BOOLEAN]
    BY <2>1 DEF Init, PC
  <2>4. \A q \in Request : req[q] = NoRequest
    BY DEF Init
  <2>5. faults \in 0..MaxFaults /\ retries \in 0..MaxRetries
    BY DEF Init, RunAssumption
  <2> QED BY <2>1, <2>2, <2>3, <2>4, <2>5 DEF TypeOK, Init, NoRequest
<1>2. ReqInv
  BY DEF Init, ReqInv, NoRequest
<1>3. WorkInv
  BY DEF Init, WorkInv, Fresh, Placed, Walked, Running, Alone, InPlan, AtStep, HoldsRow
<1>4. Audited /\ PlanCompleted
  BY DEF Init, Audited, PlanCompleted
<1> QED BY <1>1, <1>2, <1>3, <1>4 DEF IInv
-----------------------------------------------------------------------------
(* Frames: what a step of one thread, or none, leaves of WorkInv.           *)

LEMMA ThreadsKept ==
  ASSUME WorkInv, UNCHANGED <<rows, threadVars>>
  PROVE  WorkInv'
BY DEF WorkInv, Fresh, Placed, Walked, Running, Alone, InPlan, AtStep, HoldsRow,
       Current, threadVars

\* v is where it was.
Still(v) == /\ pc'[v] = pc[v]
            /\ ev'[v] = ev[v]
            /\ next'[v] = next[v]
            /\ bad'[v] = bad[v]

LEMMA OneThreadMoved ==
  ASSUME WorkInv, NEW w \in Worker,
         UNCHANGED rows,
         \A v \in Worker \ {w} : Still(v),
         Fresh(w)', Placed(w)', Walked(w)', Running(w)',
         HoldsRow(w)' => HoldsRow(w) /\ Current(w)' = Current(w)
  PROVE  WorkInv'
<1>1. \A v \in Worker \ {w} :
        /\ Fresh(v)' /\ Placed(v)' /\ Walked(v)' /\ Running(v)'
        /\ HoldsRow(v)' = HoldsRow(v)
        /\ Current(v)' = Current(v)
  BY DEF WorkInv, Still, Fresh, Placed, Walked, Running, InPlan, AtStep, HoldsRow, Current
<1>2. ASSUME NEW u \in Worker, NEW v \in Worker,
             HoldsRow(u)', HoldsRow(v)', v # u
      PROVE  Current(v)' # Current(u)'
  <2>1. HoldsRow(u) /\ Current(u)' = Current(u)
    BY <1>1, <1>2
  <2>2. HoldsRow(v) /\ Current(v)' = Current(v)
    BY <1>1, <1>2
  <2> QED BY <1>2, <2>1, <2>2 DEF WorkInv, Alone
<1> QED BY <1>1, <1>2 DEF WorkInv, Alone

LEMMA ThreadEnded ==
  ASSUME TypeOK, WorkInv, NEW w \in Worker, Ends(w), UNCHANGED rows
  PROVE  WorkInv'
<1>1. \A v \in Worker \ {w} : Still(v)
  BY DEF TypeOK, Ends, Still
<1>2. pc'[w] = "off" /\ next'[w] = 1 /\ bad'[w] = FALSE
  BY DEF TypeOK, Ends
<1>3. Fresh(w)' /\ Placed(w)' /\ Walked(w)' /\ Running(w)' /\ ~ HoldsRow(w)'
  BY <1>2 DEF Fresh, Placed, Walked, Running, InPlan, AtStep, HoldsRow
<1> QED BY <1>1, <1>3, OneThreadMoved

\* A thread outside the tools, with a fresh place in the plan, goes to another.
LEMMA FreshThreadGoes ==
  ASSUME TypeOK, WorkInv, NEW w \in Worker, NEW to \in PC,
         pc[w] \in Outside,
         to \in (Outside \ {"off"}) \cup {"tools"},
         pc' = [pc EXCEPT ![w] = to],
         \A v \in Worker \ {w} : ev'[v] = ev[v],
         to \in {"decided", "tools"} => ev'[w].level \in Levels,
         UNCHANGED <<rows, next, bad>>
  PROVE  WorkInv'
<1>1. \A v \in Worker \ {w} : Still(v)
  BY DEF TypeOK, Still
<1>2. pc'[w] = to /\ next'[w] = 1 /\ bad'[w] = FALSE
  BY DEF TypeOK, WorkInv, Fresh
<1>3. Fresh(w)' /\ Running(w)' /\ ~ HoldsRow(w)'
  BY <1>2 DEF Fresh, Outside, Running, HoldsRow
<1>4. Placed(w)'
  <2>1. CASE to \in {"decided", "tools"}
    <3>1. ev'[w].level \in Levels /\ ev'[w].level # "none"
      BY <2>1 DEF Levels
    <3>2. Len(Plan[ev'[w].level]) \in 2..4
      BY <3>1, PlanShape
    <3>3. ~ AtStep(w)'
      BY <1>2, <1>3, <2>1 DEF AtStep
    <3> QED BY <1>2, <3>1, <3>2, <3>3 DEF Placed
  <2>2. CASE to \notin {"decided", "tools"}
    BY <1>2, <2>2 DEF Placed, Outside, InPlan, AtStep, HoldsRow
  <2> QED BY <2>1, <2>2
<1>5. Walked(w)'
  <2>1. 1..(next'[w] - 1) = {}
    BY <1>2
  <2> QED BY <2>1 DEF Walked
<1> QED BY <1>1, <1>3, <1>4, <1>5, OneThreadMoved

\* A thread in a handler moves on within it, its place unchanged.
LEMMA HolderGoes ==
  ASSUME TypeOK, WorkInv, NEW w \in Worker, HoldsRow(w),
         NEW to \in {"returned", "failed", "succeeding", "failing"},
         pc' = [pc EXCEPT ![w] = to],
         \A v \in Worker \ {w} : ev'[v] = ev[v],
         ev'[w].level = ev[w].level,
         UNCHANGED <<rows, next, bad>>
  PROVE  WorkInv'
<1>1. \A v \in Worker \ {w} : Still(v)
  BY DEF TypeOK, Still
<1>2. pc'[w] = to
  BY DEF TypeOK
<1>3. HoldsRow(w)' /\ InPlan(w)' /\ InPlan(w) /\ Current(w)' = Current(w)
  BY <1>2 DEF HoldsRow, AtStep, InPlan, Current
<1>4. Fresh(w)' /\ Placed(w)' /\ Running(w)'
  BY <1>2, <1>3 DEF WorkInv, Fresh, Placed, Running, AtStep, Outside
<1>5. Walked(w)'
  BY <1>3 DEF WorkInv, Walked
<1> QED BY <1>1, <1>3, <1>4, <1>5, OneThreadMoved
-----------------------------------------------------------------------------
(* The steps that move a thread through its plan.                          *)

\* The fence check of a begin: the thread stays at its step.
LEMMA BeginWork ==
  ASSUME IInv, NEW w \in Worker, Begin(w)
  PROVE  WorkInv'
<1>1. TypeOK /\ WorkInv
  BY DEF IInv
<1>2. /\ HasStep(w) /\ pc[w] = "tools" /\ InPlan(w)
      /\ pc' = [pc EXCEPT ![w] = "insert"]
      /\ UNCHANGED <<rows, ev, next, bad>>
  BY DEF Begin, HasStep, Goes, InPlan, toolVars
<1>3. \A v \in Worker \ {w} : Still(v)
  BY <1>1, <1>2 DEF TypeOK, Still
<1>4. pc'[w] = "insert" /\ ~ HoldsRow(w)' /\ InPlan(w)'
  BY <1>1, <1>2 DEF TypeOK, HoldsRow, InPlan, AtStep
<1>5. Fresh(w)' /\ Running(w)'
  BY <1>4 DEF Fresh, Running, Outside
<1>6. Placed(w)'
  BY <1>1, <1>2, <1>4 DEF WorkInv, Placed, HasStep
<1>7. Walked(w)'
  BY <1>1, <1>2 DEF WorkInv, Walked
<1> QED BY <1>1, <1>2, <1>3, <1>4, <1>5, <1>6, <1>7, OneThreadMoved

LEMMA InsertWork ==
  ASSUME IInv, NEW w \in Worker, Insert(w)
  PROVE  WorkInv'
<1> DEFINE c == Current(w)
<1>1. TypeOK /\ WorkInv
  BY DEF IInv
<1>2. /\ pc[w] = "insert" /\ AtStep(w) /\ InPlan(w)
      /\ rows[c] = "none" /\ rows' = [rows EXCEPT ![c] = "running"]
      /\ pc' = [pc EXCEPT ![w] = "handler"]
      /\ ev' = ev /\ next' = next /\ bad' = bad
  BY DEF Insert, Vacant, AtStep, Goes, InPlan
<1>3. /\ c \in Tool
      /\ ev[w].level \in Levels
      /\ next[w] \in 1..Len(Plan[ev[w].level])
      /\ Len(Plan[ev[w].level]) \in 2..4
  BY <1>1, <1>2, CurrentIsTool
<1>4. pc'[w] = "handler" /\ HoldsRow(w)' /\ InPlan(w)' /\ Current(w)' = c
  BY <1>1, <1>2 DEF TypeOK, HoldsRow, AtStep, InPlan, Current
<1>5. \A v \in Worker \ {w} :
        /\ Still(v) /\ HoldsRow(v)' = HoldsRow(v) /\ InPlan(v)' = InPlan(v)
        /\ Current(v)' = Current(v)
  BY <1>1, <1>2 DEF TypeOK, Still, HoldsRow, AtStep, InPlan, Current
<1>6. rows'[c] = "running" /\ \A k \in Tool \ {c} : rows'[k] = rows[k]
  BY <1>1, <1>2, <1>3 DEF TypeOK
<1>7. \A k \in Tool : rows[k] # "none" => rows'[k] = rows[k]
  BY <1>2, <1>6
<1>8. ASSUME NEW v \in Worker PROVE Fresh(v)' /\ Placed(v)'
  <2>1. CASE v = w
    BY <1>2, <1>3, <1>4, <2>1 DEF Fresh, Outside, Placed, AtStep, HoldsRow, Levels
  <2>2. CASE v # w
    BY <1>1, <1>5, <2>2 DEF WorkInv, Fresh, Outside, Placed, AtStep, Still
  <2> QED BY <2>1, <2>2
<1>9. ASSUME NEW v \in Worker PROVE Running(v)'
  <2>1. CASE v = w
    BY <1>4, <1>6, <2>1 DEF Running
  <2>2. CASE v # w
    <3>1. SUFFICES ASSUME HoldsRow(v) PROVE rows'[Current(v)] = "running"
      BY <1>5, <2>2 DEF Running
    <3>2. Current(v) \in Tool /\ rows[Current(v)] = "running"
      BY <1>1, <3>1, CurrentIsTool DEF WorkInv, Running, AtStep
    <3> QED BY <1>7, <3>2
  <2> QED BY <2>1, <2>2
<1>10. ASSUME NEW v \in Worker PROVE Walked(v)'
  <2>1. SUFFICES ASSUME InPlan(v)', bad'[v] = FALSE, NEW i \in 1..(next'[v] - 1)
                 PROVE  rows'[Plan[ev'[v].level][i]] = "succeeded"
    BY DEF Walked
  <2>2. InPlan(v) /\ bad[v] = FALSE /\ i \in 1..(next[v] - 1)
    BY <1>2, <1>5, <2>1
  <2>3. rows[Plan[ev[v].level][i]] = "succeeded"
    BY <1>1, <2>2 DEF WorkInv, Walked
  <2>4. Plan[ev[v].level][i] \in Tool
    BY <1>1, <2>2, WalkedSteps
  <2> QED BY <1>2, <1>7, <2>3, <2>4
<1>11. ASSUME NEW u \in Worker, NEW v \in Worker, HoldsRow(u)', HoldsRow(v)', v # u
       PROVE  Current(v)' # Current(u)'
  <2>1. ASSUME NEW x \in Worker, x # w, HoldsRow(x)' PROVE Current(x)' # c
    <3>1. HoldsRow(x) /\ Current(x)' = Current(x)
      BY <1>5, <2>1
    <3>2. rows[Current(x)] = "running"
      BY <1>1, <3>1 DEF WorkInv, Running
    <3> QED BY <1>2, <3>1, <3>2
  <2>2. CASE u = w
    BY <1>4, <1>11, <2>1, <2>2
  <2>3. CASE v = w
    BY <1>4, <1>11, <2>1, <2>3
  <2>4. CASE u # w /\ v # w
    BY <1>1, <1>5, <1>11, <2>4 DEF WorkInv, Alone
  <2> QED BY <2>2, <2>3, <2>4
<1> QED BY <1>8, <1>9, <1>10, <1>11 DEF WorkInv, Alone

\* Taking the step at next[w]: its row is succeeded, or the pass is bad.
LEMMA RecordWork ==
  ASSUME IInv, NEW w \in Worker, Record(w)
  PROVE  WorkInv'
<1> DEFINE c == Current(w)
           r == IF pc[w] = "succeeding" THEN "succeeded" ELSE "failed"
<1>1. TypeOK /\ WorkInv
  BY DEF IInv
<1>2. /\ HoldsRow(w) /\ InPlan(w) /\ rows[c] = "running"
      /\ rows' = [rows EXCEPT ![c] = r]
      /\ bad' = [bad EXCEPT ![w] = @ \/ pc[w] = "failing"]
      /\ next' = [next EXCEPT ![w] = @ + 1]
      /\ pc' = [pc EXCEPT ![w] = "tools"]
      /\ ev' = ev
  BY <1>1 DEF Record, HoldsRow, AtStep, InPlan, WorkInv, Running
<1>3. /\ c \in Tool
      /\ ev[w].level \in Levels
      /\ next[w] \in 1..Len(Plan[ev[w].level])
      /\ Len(Plan[ev[w].level]) \in 2..4
  BY <1>1, <1>2, CurrentIsTool DEF AtStep
<1>4. pc'[w] = "tools" /\ ~ HoldsRow(w)' /\ next'[w] = next[w] + 1
  BY <1>1, <1>2 DEF TypeOK, HoldsRow
<1>5. \A v \in Worker \ {w} :
        /\ Still(v) /\ HoldsRow(v)' = HoldsRow(v) /\ InPlan(v)' = InPlan(v)
        /\ Current(v)' = Current(v)
  BY <1>1, <1>2 DEF TypeOK, Still, HoldsRow, AtStep, InPlan, Current
<1>6. rows'[c] = r /\ \A k \in Tool \ {c} : rows'[k] = rows[k]
  BY <1>1, <1>2, <1>3 DEF TypeOK
<1>7. bad'[w] = FALSE => bad[w] = FALSE /\ r = "succeeded"
  <2>1. bad'[w] = (bad[w] \/ pc[w] = "failing")
    BY <1>1, <1>2, Zenon DEF TypeOK
  <2>2. pc[w] \in {"succeeding", "failing"}
    BY DEF Record
  <2>3. bad[w] \in BOOLEAN
    BY <1>1 DEF TypeOK
  <2> QED BY <2>1, <2>2, <2>3
<1>8. ASSUME NEW v \in Worker PROVE Fresh(v)' /\ Placed(v)'
  <2>1. CASE v = w
    BY <1>2, <1>3, <1>4, <2>1 DEF Fresh, Outside, Placed, AtStep, HoldsRow, Levels
  <2>2. CASE v # w
    BY <1>1, <1>5, <2>2 DEF WorkInv, Fresh, Outside, Placed, AtStep, Still
  <2> QED BY <2>1, <2>2
<1>9. ASSUME NEW v \in Worker PROVE Running(v)'
  <2>1. CASE v = w
    BY <1>4, <2>1 DEF Running
  <2>2. CASE v # w
    <3>1. SUFFICES ASSUME HoldsRow(v) PROVE rows'[Current(v)] = "running"
      BY <1>5, <2>2 DEF Running
    <3>2. Current(v) \in Tool /\ rows[Current(v)] = "running"
      BY <1>1, <3>1, CurrentIsTool DEF WorkInv, Running, AtStep
    <3>3. Current(v) # c
      BY <1>1, <1>2, <2>2, <3>1 DEF WorkInv, Alone
    <3> QED BY <1>6, <3>2, <3>3
  <2> QED BY <2>1, <2>2
<1>10. ASSUME NEW v \in Worker PROVE Walked(v)'
  <2>1. SUFFICES ASSUME InPlan(v)', bad'[v] = FALSE, NEW i \in 1..(next'[v] - 1)
                 PROVE  rows'[Plan[ev'[v].level][i]] = "succeeded"
    BY DEF Walked
  <2>2. InPlan(v) /\ bad[v] = FALSE
    BY <1>2, <1>5, <1>7, <2>1 DEF Still
  <2>3. ASSUME i \in 1..(next[v] - 1)
        PROVE  rows'[Plan[ev[v].level][i]] = "succeeded"
    <3>1. rows[Plan[ev[v].level][i]] = "succeeded"
      BY <1>1, <2>2, <2>3 DEF WorkInv, Walked
    <3>2. Plan[ev[v].level][i] \in Tool
      BY <1>1, <2>2, <2>3, WalkedSteps
    <3> QED BY <1>2, <1>6, <3>1, <3>2
  <2>4. CASE v = w
    <3>1. CASE i = next[w]
      BY <1>2, <1>6, <1>7, <2>1, <2>4, <3>1 DEF Current
    <3>2. CASE i # next[w]
      <4>1. i \in 1..(next[v] - 1)
        BY <1>3, <1>4, <2>4, <3>2
      <4> QED BY <1>2, <2>3, <4>1
    <3> QED BY <3>1, <3>2
  <2>5. CASE v # w
    <3>1. next'[v] = next[v]
      BY <1>5, <2>5 DEF Still
    <3> QED BY <1>2, <2>3, <3>1
  <2> QED BY <2>4, <2>5
<1>11. ASSUME NEW u \in Worker, NEW v \in Worker, HoldsRow(u)', HoldsRow(v)', v # u
       PROVE  Current(v)' # Current(u)'
  <2>1. u # w /\ v # w
    BY <1>4, <1>11
  <2> QED BY <1>1, <1>5, <1>11, <2>1 DEF WorkInv, Alone
<1> QED BY <1>8, <1>9, <1>10, <1>11 DEF WorkInv, Alone

LEMMA ReuseWork ==
  ASSUME IInv, NEW w \in Worker, Reuse(w)
  PROVE  WorkInv'
<1>1. TypeOK /\ WorkInv
  BY DEF IInv
<1>2. /\ HasStep(w) /\ pc[w] = "tools" /\ InPlan(w)
      /\ bad' = [bad EXCEPT ![w] = @ \/ rows[Current(w)] # "succeeded"]
      /\ next' = [next EXCEPT ![w] = @ + 1]
      /\ pc' = pc /\ ev' = ev /\ rows' = rows
  BY DEF Reuse, HasStep, InPlan, toolVars
<1>3. /\ ev[w].level \in Levels
      /\ next[w] \in 1..Len(Plan[ev[w].level])
      /\ Len(Plan[ev[w].level]) \in 2..4
  BY <1>1, <1>2, CurrentIsTool
<1>4. next'[w] = next[w] + 1 /\ ~ HoldsRow(w)'
  BY <1>1, <1>2 DEF TypeOK, HoldsRow
<1>5. \A v \in Worker \ {w} : Still(v)
  BY <1>1, <1>2 DEF TypeOK, Still
<1>6. bad'[w] = FALSE => bad[w] = FALSE /\ rows[Current(w)] = "succeeded"
  <2>1. bad'[w] = (bad[w] \/ rows[Current(w)] # "succeeded")
    BY <1>1, <1>2, Zenon DEF TypeOK
  <2>2. bad[w] \in BOOLEAN
    BY <1>1 DEF TypeOK
  <2> QED BY <2>1, <2>2
<1>7. Fresh(w)' /\ Placed(w)' /\ Running(w)'
  BY <1>2, <1>3, <1>4 DEF Fresh, Outside, Placed, AtStep, Running, Levels
<1>8. Walked(w)'
  <2>0. SUFFICES ASSUME bad'[w] = FALSE
                 PROVE  \A i \in 1..(next'[w] - 1) :
                          rows'[Plan[ev'[w].level][i]] = "succeeded"
    BY DEF Walked
  <2>1. SUFFICES ASSUME NEW i \in 1..next[w]
                 PROVE  rows[Plan[ev[w].level][i]] = "succeeded"
    <3>1. next'[w] - 1 = next[w]
      BY <1>3, <1>4
    <3> QED BY <1>2, <3>1
  <2>2. CASE i = next[w]
    BY <1>6, <2>0, <2>2 DEF Current
  <2>3. CASE i # next[w]
    <3>1. i \in 1..(next[w] - 1)
      BY <1>3, <2>3
    <3> QED BY <1>1, <1>2, <1>6, <2>0, <3>1 DEF WorkInv, Walked
  <2> QED BY <2>2, <2>3
<1> QED BY <1>1, <1>2, <1>4, <1>5, <1>7, <1>8, OneThreadMoved
-----------------------------------------------------------------------------
LEMMA WorkStep == ASSUME IInv, Next PROVE WorkInv'
<1> USE DEF IInv
<1>1. ASSUME NEW w \in Worker, Claim(w) PROVE WorkInv'
  <2>1. /\ pc[w] = "off" /\ pc' = [pc EXCEPT ![w] = "audit"]
        /\ ev' = [ev EXCEPT ![w] = snap]
        /\ UNCHANGED <<rows, next, bad>>
    BY <1>1 DEF Claim, toolVars
  <2>2. \A v \in Worker \ {w} : ev'[v] = ev[v]
    BY <2>1 DEF TypeOK
  <2> QED BY <2>1, <2>2, FreshThreadGoes DEF PC, Outside
<1>2. ASSUME NEW w \in Worker,
             AuditManual(w) \/ AuditFinalize(w) \/ Conclude(w) \/ Stale(w)
               \/ Collides(w) \/ Error(w) \/ Crash(w)
      PROVE  WorkInv'
  BY <1>2, ThreadEnded
     DEF AuditManual, AuditFinalize, Conclude, Stale, Collides, Error, Crash, toolVars
<1>3. ASSUME NEW w \in Worker, AuditResume(w) PROVE WorkInv'
  <2>1. pc[w] = "resume" /\ ev[w].level # "none"
    BY <1>3 DEF AuditResume, Resumable
  <2>2. pc' = [pc EXCEPT ![w] = "tools"] /\ UNCHANGED <<rows, ev, next, bad>>
    BY <1>3 DEF AuditResume, Goes, toolVars
  <2>3. ev'[w].level \in Levels
    BY <2>1, <2>2 DEF TypeOK, Event
  <2> QED BY <2>1, <2>2, <2>3, FreshThreadGoes DEF PC, Outside
<1>4. ASSUME NEW w \in Worker, AuditReplay(w) PROVE WorkInv'
  <2>1. pc[w] = "resume" /\ UNCHANGED <<rows, ev, next, bad>>
    BY <1>4 DEF AuditReplay, Resumable, Goes, toolVars
  <2>2. PICK to \in {"analyse", "replay"} : pc' = [pc EXCEPT ![w] = to]
    BY <1>4 DEF AuditReplay, Goes
  <2> QED BY <2>1, <2>2, FreshThreadGoes DEF PC, Outside
<1>5. ASSUME NEW w \in Worker, Replay(w) PROVE WorkInv'
  <2>1. pc[w] = "replay" /\ UNCHANGED <<rows, ev, next, bad>>
    BY <1>5 DEF Replay, Goes, toolVars
  <2>2. pc' = [pc EXCEPT ![w] = "analyse"]
    BY <1>5 DEF Replay, Goes
  <2> QED BY <2>1, <2>2, FreshThreadGoes DEF PC, Outside
<1>6. ASSUME NEW w \in Worker, Analyse(w) PROVE WorkInv'
  <2>1. pc[w] = "analyse" /\ UNCHANGED <<rows, next, bad>>
    BY <1>6 DEF Analyse, toolVars
  <2>2. pc' = [pc EXCEPT ![w] = "decided"]
    BY <1>6 DEF Analyse
  <2>3. PICK l \in Levels, r \in BOOLEAN :
          ev' = [ev EXCEPT ![w] = [level |-> l, review |-> r,
                                   approval |-> ev[w].approval]]
    BY <1>6 DEF Analyse
  <2>4. ev'[w].level \in Levels /\ \A v \in Worker \ {w} : ev'[v] = ev[v]
    BY <2>3 DEF TypeOK
  <2> QED BY <2>1, <2>2, <2>4, FreshThreadGoes DEF PC, Outside
<1>7. ASSUME NEW w \in Worker, Execute(w) PROVE WorkInv'
  <2>1. pc[w] = "decided" /\ UNCHANGED <<rows, ev, next, bad>>
    BY <1>7 DEF Execute, Goes, toolVars
  <2>2. pc' = [pc EXCEPT ![w] = "tools"]
    BY <1>7 DEF Execute, Goes
  <2>3. ev'[w].level \in Levels
    BY <2>1 DEF TypeOK, Event, WorkInv, Placed
  <2> QED BY <2>1, <2>2, <2>3, FreshThreadGoes DEF PC, Outside
<1>8. ASSUME NEW w \in Worker, Handler(w) PROVE WorkInv'
  <2>1. HoldsRow(w) /\ UNCHANGED <<rows, next, bad>>
    BY <1>8 DEF Handler, HoldsRow
  <2>2. PICK to \in {"returned", "failed"} : pc' = [pc EXCEPT ![w] = to]
    BY <1>8 DEF Handler
  <2>3. ev'[w].level = ev[w].level /\ \A v \in Worker \ {w} : ev'[v] = ev[v]
    <3>1. ev' = [ev EXCEPT ![w] = [@ EXCEPT !.approval = "pending"]] \/ ev' = ev
      BY <1>8 DEF Handler, Hold
    <3> QED BY <3>1 DEF TypeOK, Event
  <2> QED BY <2>1, <2>2, <2>3, HolderGoes
<1>9. ASSUME NEW q \in Request,
             \/ \E d \in {"approved", "rejected"} : Open(q, d)
             \/ \E to \in Resolution : Ask(q, to)
             \/ RequestStep(q)
             \/ Dropped(q)
      PROVE  WorkInv'
  <2>1. UNCHANGED <<rows, threadVars>>
    BY <1>9 DEF Open, Ask, RequestStep, Decide, Look, Act, Patch, Close, Resolve,
                Refused, Dropped, Serves, toolVars
  <2> QED BY <2>1, ThreadsKept
<1>10. ASSUME LoseLease \/ Expire PROVE WorkInv'
  BY <1>10, ThreadsKept DEF LoseLease, Expire, toolVars
<1>11. ASSUME NEW w \in Worker, Audit(w) PROVE WorkInv'
  <2>1. pc[w] = "audit" /\ UNCHANGED <<rows, ev, next, bad>>
    BY <1>11 DEF Audit, Goes, toolVars
  <2>2. PICK to \in {"park", "finalize", "resume"} : pc' = [pc EXCEPT ![w] = to]
    BY <1>11 DEF Audit, Goes
  <2> QED BY <2>1, <2>2, FreshThreadGoes DEF PC, Outside
<1>12. ASSUME NEW w \in Worker, Finish(w) PROVE WorkInv'
  <2>1. HoldsRow(w) /\ UNCHANGED <<rows, ev, next, bad>>
    BY <1>12 DEF Finish, Goes, HoldsRow, toolVars
  <2>2. PICK to \in {"succeeding", "failing"} : pc' = [pc EXCEPT ![w] = to]
    BY <1>12 DEF Finish, Goes
  <2> QED BY <2>1, <2>2, HolderGoes
<1> QED BY <1>1, <1>2, <1>3, <1>4, <1>5, <1>6, <1>7, <1>8, <1>9, <1>10, <1>11,
           <1>12, BeginWork, InsertWork, RecordWork, ReuseWork DEF Next, WorkerStep

LEMMA RequestsStep == ASSUME IInv, Next PROVE ReqInv'
<1>1. TypeOK /\ ReqInv
  BY DEF IInv
<1>2. ASSUME NEW q \in Request,
             NEW r, req' = [req EXCEPT ![q] = r],
             r.step \in {"decide", "look", "act", "patch", "settle"}
               => r.decision \in {"approved", "rejected"},
             r.step = "resolve" => r.decision \in Resolution
      PROVE  ReqInv'
  BY <1>1, <1>2 DEF ReqInv, TypeOK
<1>3. ASSUME NEW q \in Request, NEW d \in {"approved", "rejected"}, Open(q, d)
      PROVE  ReqInv'
  BY <1>2, <1>3 DEF Open, Serves, NoRequest
<1>4. ASSUME NEW q \in Request, NEW to \in Resolution, Ask(q, to) PROVE ReqInv'
  BY <1>2, <1>4 DEF Ask, Serves, NoRequest
<1>5. ASSUME NEW q \in Request, Decide(q) PROVE ReqInv'
  BY <1>1, <1>2, <1>5 DEF Decide, Serves, ReqInv, TypeOK
<1>6. ASSUME NEW q \in Request, Look(q) PROVE ReqInv'
  <2>1. PICK x : req' = [req EXCEPT ![q] = [req[q] EXCEPT !.step = "act",
                                                          !.execution = x]]
              \/ req' = [req EXCEPT ![q] = [req[q] EXCEPT !.step = "patch",
                                                          !.execution = x]]
    BY <1>6 DEF Look, Serves
  <2> QED BY <1>1, <1>2, <1>6, <2>1 DEF Look, ReqInv, TypeOK
<1>7. ASSUME NEW q \in Request, Act(q) PROVE ReqInv'
  BY <1>1, <1>2, <1>7 DEF Act, Serves, ReqInv, TypeOK
<1>8. ASSUME NEW q \in Request, Patch(q) PROVE ReqInv'
  BY <1>1, <1>2, <1>8 DEF Patch, Serves, ReqInv, TypeOK
<1>9. ASSUME NEW q \in Request,
             Close(q) \/ Resolve(q) \/ Refused(q) \/ Dropped(q)
      PROVE  ReqInv'
  BY <1>2, <1>9 DEF Close, Resolve, Refused, Dropped, Serves, NoRequest
<1>10. ASSUME UNCHANGED req PROVE ReqInv'
  BY <1>1, <1>10 DEF ReqInv
<1>11. ASSUME NEW w \in Worker,
              Claim(w) \/ WorkerStep(w) \/ Error(w) \/ Crash(w)
       PROVE  UNCHANGED req
  BY <1>11 DEF Claim, WorkerStep, Audit, AuditManual, AuditFinalize, AuditResume,
     AuditReplay, Replay, Analyse, Execute, Begin, Insert, Reuse, Handler, Finish,
     Record, Conclude, Stale, Collides, Error, Crash
<1>12. ASSUME LoseLease \/ Expire PROVE UNCHANGED req
  BY <1>12 DEF LoseLease, Expire
<1> QED BY <1>3, <1>4, <1>5, <1>6, <1>7, <1>8, <1>9, <1>10, <1>11, <1>12
        DEF Next, RequestStep
-----------------------------------------------------------------------------
(* TypeOK, in the groups that one step writes.                             *)

RunTyped ==
  /\ status \in Status
  /\ owner \in Worker \cup {NoWorker}
  /\ live \in BOOLEAN
  /\ snap \in Event
  /\ settledBy \in {"worker", "approval", "operator"}

ToolsTyped ==
  /\ rows \in [Tool -> {"none", "running", "succeeded", "failed"}]
  /\ order \in {"none", "pending", "approved", "rejected"}
  /\ hold \in {"none", "risk", "review"}

ThreadsTyped ==
  /\ pc \in [Worker -> PC]
  /\ ev \in [Worker -> Event]
  /\ next \in [Worker -> 1..5]
  /\ bad \in [Worker -> BOOLEAN]

ActuatorTyped == actuator \in {"none", "executed", "reviewed", "cancelled"}

RequestType ==
  [step : {"off", "decide", "look", "act", "patch", "settle", "resolve"},
   decision : {"none", "approved", "rejected"} \cup Resolution,
   seen : {"none", "pending", "approved", "rejected"},
   event : Event,
   execution : {"none", "executed", "reviewed", "cancelled"}]

RequestsTyped == req \in [Request -> RequestType]

BoundsTyped == faults \in 0..MaxFaults /\ retries \in 0..MaxRetries

LEMMA TypeGroups ==
  TypeOK <=> /\ RunTyped /\ ToolsTyped /\ ThreadsTyped /\ ActuatorTyped
             /\ RequestsTyped /\ BoundsTyped
BY DEF TypeOK, RunTyped, ToolsTyped, ThreadsTyped, ActuatorTyped, RequestsTyped,
       RequestType, BoundsTyped

LEMMA NoEventTyped == NoEvent \in Event
BY DEF NoEvent, Event, Levels

LEMMA NoRequestTyped == NoRequest \in RequestType
BY NoEventTyped DEF NoRequest, RequestType

LEMMA EndsTyped ==
  ASSUME TypeOK, NEW w \in Worker, Ends(w) PROVE ThreadsTyped'
BY NoEventTyped DEF TypeOK, Ends, ThreadsTyped, PC

LEMMA GoesTyped ==
  ASSUME TypeOK, NEW w \in Worker, NEW to \in PC, Goes(w, to)
  PROVE  ThreadsTyped'
BY DEF TypeOK, Goes, ThreadsTyped

LEMMA TransitionTyped ==
  ASSUME TypeOK, NEW w \in Worker, NEW from, NEW to \in Status,
         Transition(w, from, to)
  PROVE  RunTyped'
BY DEF TypeOK, Transition, RunTyped

LEMMA RunStep == ASSUME IInv, Next PROVE RunTyped'
<1>1. TypeOK /\ WorkInv /\ ReqInv /\ RunTyped
  BY TypeGroups DEF IInv
<1>2. ASSUME UNCHANGED runVars PROVE RunTyped'
  BY <1>1, <1>2 DEF runVars, RunTyped
<1>3. ASSUME NEW w \in Worker, Claim(w) PROVE RunTyped'
  BY <1>1, <1>3 DEF Claim, RunTyped
<1>4. ASSUME NEW w \in Worker,
             \/ AuditManual(w) \/ AuditFinalize(w) \/ AuditReplay(w)
             \/ Replay(w) \/ Execute(w) \/ Conclude(w) \/ Collides(w) \/ Error(w)
      PROVE  RunTyped'
  <2>1. {"manual_takeover", "waiting_approval", "succeeded", "retryable_failed",
         "analyzing", "executing"} \subseteq Status
    BY DEF Status, ActiveStatuses, FinalStatuses, ParkedStatuses
  <2>2. ASSUME NEW from, NEW to \in Status, Transition(w, from, to)
        PROVE  RunTyped'
    BY <1>1, <2>2, TransitionTyped
  <2>3. FinalStatus(w) \in Status
    BY <2>1 DEF FinalStatus
  <2> QED BY <1>2, <1>4, <2>1, <2>2, <2>3
          DEF AuditManual, AuditFinalize, AuditReplay, Replay, Execute, Conclude,
              Collides, Error, runVars
<1>5. ASSUME NEW w \in Worker, Analyse(w) PROVE RunTyped'
  <2>1. PICK l \in Levels, r \in BOOLEAN :
          /\ ev' = [ev EXCEPT ![w] = [level |-> l, review |-> r,
                                      approval |-> ev[w].approval]]
          /\ snap' = ev'[w]
    BY <1>5 DEF Analyse
  <2>2. [level |-> l, review |-> r, approval |-> ev[w].approval] \in Event
    BY <1>1 DEF TypeOK, Event
  <2>3. snap' \in Event
    BY <1>1, <2>1, <2>2 DEF TypeOK
  <2> QED BY <1>1, <1>5, <2>3 DEF Analyse, RunTyped, Status, ActiveStatuses
<1>6. ASSUME LoseLease \/ Expire PROVE RunTyped'
  BY <1>1, <1>6 DEF LoseLease, Expire, RunTyped
<1>7. ASSUME NEW q \in Request, Patch(q) PROVE RunTyped'
  <2>1. req[q].decision \in {"approved", "rejected"}
    BY <1>1, <1>7 DEF Patch, ReqInv
  <2> QED BY <1>1, <1>7, <2>1 DEF Patch, RunTyped, Event
<1>8. ASSUME NEW q \in Request, Close(q) PROVE RunTyped'
  BY <1>1, <1>8 DEF Close, Settle, RunResult, RunTyped, Status, FinalStatuses
<1>9. ASSUME NEW q \in Request, Resolve(q) PROVE RunTyped'
  <2>1. req[q].decision \in Status
    BY <1>1, <1>9 DEF Resolve, ReqInv, Resolution, Status, ActiveStatuses,
                      FinalStatuses
  <2>2. req[q].event \in Event
    BY <1>1 DEF TypeOK
  <2> QED BY <1>1, <1>9, <2>1, <2>2 DEF Resolve, Settle, RunTyped
<1>10. ASSUME NEW w \in Worker,
              \/ Audit(w) \/ AuditResume(w) \/ Begin(w) \/ Insert(w) \/ Reuse(w)
              \/ Handler(w) \/ Finish(w) \/ Record(w) \/ Stale(w) \/ Crash(w)
       PROVE  UNCHANGED runVars
  BY <1>10 DEF Audit, AuditResume, Begin, Insert, Reuse, Handler, Finish, Record,
               Stale, Crash
<1>11. ASSUME NEW q \in Request,
              \/ \E d \in {"approved", "rejected"} : Open(q, d)
              \/ \E to \in Resolution : Ask(q, to)
              \/ Decide(q) \/ Look(q) \/ Act(q) \/ Refused(q) \/ Dropped(q)
       PROVE  UNCHANGED runVars
  BY <1>11 DEF Open, Ask, Decide, Look, Act, Refused, Dropped
<1> QED BY <1>2, <1>3, <1>4, <1>5, <1>6, <1>7, <1>8, <1>9, <1>10, <1>11
        DEF Next, WorkerStep, RequestStep

LEMMA ToolsStep == ASSUME IInv, Next PROVE ToolsTyped'
<1>1. TypeOK /\ WorkInv /\ ReqInv /\ ToolsTyped
  BY TypeGroups DEF IInv
<1>2. ASSUME UNCHANGED toolVars PROVE ToolsTyped'
  BY <1>1, <1>2 DEF toolVars, ToolsTyped
<1>3. ASSUME NEW w \in Worker, Insert(w) PROVE ToolsTyped'
  BY <1>1, <1>3, CurrentIsTool DEF Insert, AtStep, ToolsTyped
<1>4. ASSUME NEW w \in Worker, Record(w) PROVE ToolsTyped'
  <2>1. Current(w) \in Tool
    BY <1>1, <1>4, CurrentIsTool DEF Record, AtStep, HoldsRow
  <2> QED BY <1>1, <1>4, <2>1 DEF Record, ToolsTyped
<1>5. ASSUME NEW w \in Worker, Handler(w) PROVE ToolsTyped'
  BY <1>1, <1>5 DEF Handler, Hold, ToolsTyped
<1>6. ASSUME NEW q \in Request, Decide(q) PROVE ToolsTyped'
  <2>1. req[q].decision \in {"approved", "rejected"}
    BY <1>1, <1>6 DEF Decide, ReqInv
  <2> QED BY <1>1, <1>6, <2>1 DEF Decide, ToolsTyped
<1>7. ASSUME NEW w \in Worker,
             \/ Claim(w) \/ Error(w) \/ Collides(w) \/ Crash(w) \/ Stale(w)
             \/ Audit(w) \/ AuditManual(w) \/ AuditFinalize(w) \/ AuditResume(w)
             \/ AuditReplay(w) \/ Replay(w) \/ Analyse(w) \/ Execute(w)
             \/ Begin(w) \/ Reuse(w) \/ Finish(w) \/ Conclude(w)
      PROVE  UNCHANGED toolVars
  BY <1>7 DEF Claim, Error, Collides, Crash, Stale, Audit, AuditManual, AuditFinalize,
              AuditResume, AuditReplay, Replay, Analyse, Execute, Begin, Reuse,
              Finish, Conclude
<1>8. ASSUME NEW q \in Request,
             \/ \E d \in {"approved", "rejected"} : Open(q, d)
             \/ \E to \in Resolution : Ask(q, to)
             \/ Look(q) \/ Act(q) \/ Patch(q) \/ Close(q) \/ Resolve(q)
             \/ Refused(q) \/ Dropped(q)
      PROVE  UNCHANGED toolVars
  BY <1>8 DEF Open, Ask, Look, Act, Patch, Close, Resolve, Refused, Dropped
<1>9. ASSUME LoseLease \/ Expire PROVE UNCHANGED toolVars
  BY <1>9 DEF LoseLease, Expire
<1> QED BY <1>2, <1>3, <1>4, <1>5, <1>6, <1>7, <1>8, <1>9
        DEF Next, WorkerStep, RequestStep

LEMMA ThreadsStep == ASSUME IInv, Next PROVE ThreadsTyped'
<1>1. TypeOK /\ WorkInv /\ ThreadsTyped
  BY TypeGroups DEF IInv
<1>2. ASSUME UNCHANGED threadVars PROVE ThreadsTyped'
  BY <1>1, <1>2 DEF threadVars, ThreadsTyped
<1>3. ASSUME NEW w \in Worker, Claim(w) PROVE ThreadsTyped'
  BY <1>1, <1>3 DEF Claim, ThreadsTyped, TypeOK, PC
<1>4. ASSUME NEW w \in Worker,
             AuditManual(w) \/ AuditFinalize(w) \/ Conclude(w) \/ Stale(w)
               \/ Collides(w) \/ Error(w) \/ Crash(w)
      PROVE  ThreadsTyped'
  BY <1>1, <1>4, EndsTyped
     DEF AuditManual, AuditFinalize, Conclude, Stale, Collides, Error, Crash
<1>5. ASSUME NEW w \in Worker,
             \/ Audit(w) \/ AuditResume(w) \/ AuditReplay(w) \/ Replay(w)
             \/ Execute(w) \/ Begin(w) \/ Insert(w) \/ Finish(w)
      PROVE  ThreadsTyped'
  BY <1>1, <1>5, GoesTyped
     DEF Audit, AuditResume, AuditReplay, Replay, Execute, Begin, Insert, Finish, PC
<1>6. ASSUME NEW w \in Worker, Analyse(w) PROVE ThreadsTyped'
  <2>1. PICK l \in Levels, r \in BOOLEAN :
          ev' = [ev EXCEPT ![w] = [level |-> l, review |-> r,
                                   approval |-> ev[w].approval]]
    BY <1>6 DEF Analyse
  <2>2. [level |-> l, review |-> r, approval |-> ev[w].approval] \in Event
    BY <1>1 DEF TypeOK, Event
  <2> QED BY <1>1, <1>6, <2>1, <2>2 DEF Analyse, ThreadsTyped, PC
<1>7. ASSUME NEW w \in Worker, Reuse(w) PROVE ThreadsTyped'
  <2>1. next[w] \in 1..4
    <3> DEFINE n == Len(Plan[ev[w].level])
    <3>1. HasStep(w) \/ AtStep(w)
      BY <1>7 DEF Reuse
    <3>2. next[w] \in 1..n /\ n \in 2..4
      BY <1>1, <3>1, CurrentIsTool
    <3> HIDE DEF n
    <3> QED BY <3>2
  <2>2. next' \in [Worker -> 1..5]
    BY <1>1, <1>7, <2>1 DEF Reuse, ThreadsTyped
  <2>3. bad' \in [Worker -> BOOLEAN]
    <3>1. bad \in [Worker -> BOOLEAN]
      BY <1>1 DEF ThreadsTyped
    <3>2. bad' = [bad EXCEPT ![w] = bad[w] \/ rows[Current(w)] # "succeeded"]
      BY <1>7 DEF Reuse
    <3> QED BY <3>1, <3>2, Zenon
  <2> QED BY <1>1, <1>7, <2>2, <2>3 DEF Reuse, ThreadsTyped
<1>8. ASSUME NEW w \in Worker, Record(w) PROVE ThreadsTyped'
  <2>1. next[w] \in 1..4
    <3> DEFINE n == Len(Plan[ev[w].level])
    <3>1. HasStep(w) \/ AtStep(w)
      BY <1>8 DEF Record, AtStep, HoldsRow
    <3>2. next[w] \in 1..n /\ n \in 2..4
      BY <1>1, <3>1, CurrentIsTool
    <3> HIDE DEF n
    <3> QED BY <3>2
  <2>2. next' \in [Worker -> 1..5]
    BY <1>1, <1>8, <2>1 DEF Record, ThreadsTyped
  <2>3. bad' \in [Worker -> BOOLEAN]
    <3>1. bad \in [Worker -> BOOLEAN]
      BY <1>1 DEF ThreadsTyped
    <3>2. bad' = [bad EXCEPT ![w] = bad[w] \/ pc[w] = "failing"]
      BY <1>8 DEF Record
    <3> QED BY <3>1, <3>2, Zenon
  <2> QED BY <1>1, <1>8, <2>2, <2>3 DEF Record, ThreadsTyped, PC
<1>9. ASSUME NEW w \in Worker, Handler(w) PROVE ThreadsTyped'
  <2>1. pc' \in [Worker -> PC]
    BY <1>1, <1>9 DEF Handler, ThreadsTyped, PC
  <2>2. ev' \in [Worker -> Event]
    <3>1. ev' = [ev EXCEPT ![w] = [@ EXCEPT !.approval = "pending"]] \/ ev' = ev
      BY <1>9 DEF Handler, Hold
    <3> QED BY <1>1, <3>1 DEF ThreadsTyped, Event
  <2> QED BY <1>1, <1>9, <2>1, <2>2 DEF Handler, ThreadsTyped
<1>10. ASSUME NEW q \in Request,
              \/ \E d \in {"approved", "rejected"} : Open(q, d)
              \/ \E to \in Resolution : Ask(q, to)
              \/ RequestStep(q) \/ Dropped(q)
       PROVE  UNCHANGED threadVars
  BY <1>10 DEF Open, Ask, RequestStep, Decide, Look, Act, Patch, Close, Resolve,
               Refused, Dropped, Serves
<1>11. ASSUME LoseLease \/ Expire PROVE UNCHANGED threadVars
  BY <1>11 DEF LoseLease, Expire
<1> QED BY <1>2, <1>3, <1>4, <1>5, <1>6, <1>7, <1>8, <1>9, <1>10, <1>11
        DEF Next, WorkerStep

LEMMA RequestTypesStep ==
  ASSUME IInv, Next PROVE RequestsTyped' /\ ActuatorTyped'
<1>1. TypeOK /\ ReqInv /\ RequestsTyped /\ ActuatorTyped
  BY TypeGroups DEF IInv
<1> DEFINE Good == RequestsTyped' /\ ActuatorTyped'
<1>2. ASSUME NEW q \in Request, NEW r \in RequestType, Serves(q, r)
      PROVE  RequestsTyped'
  BY <1>1, <1>2 DEF Serves, RequestsTyped
<1>3. ASSUME UNCHANGED actuator PROVE ActuatorTyped'
  BY <1>1, <1>3 DEF ActuatorTyped
<1>4. \A q \in Request : req[q] \in RequestType
  BY <1>1 DEF RequestsTyped
<1>5. ASSUME NEW q \in Request, NEW d \in {"approved", "rejected"}, Open(q, d)
      PROVE  Good
  <2>1. [NoRequest EXCEPT !.step = "decide", !.decision = d, !.seen = order]
          \in RequestType
    BY <1>1, NoRequestTyped DEF TypeOK, RequestType
  <2> QED BY <1>2, <1>3, <1>5, <2>1 DEF Open
<1>6. ASSUME NEW q \in Request, NEW to \in Resolution, Ask(q, to) PROVE Good
  <2>1. [NoRequest EXCEPT !.step = "resolve", !.decision = to, !.event = snap]
          \in RequestType
    BY <1>1, NoRequestTyped DEF TypeOK, RequestType
  <2> QED BY <1>2, <1>3, <1>6, <2>1 DEF Ask
<1>7. ASSUME NEW q \in Request, Decide(q) PROVE Good
  <2>1. [req[q] EXCEPT !.step = "look"] \in RequestType
    BY <1>4 DEF RequestType
  <2> QED BY <1>2, <1>3, <1>7, <2>1 DEF Decide
<1>8. ASSUME NEW q \in Request, Look(q) PROVE Good
  <2>1. Action(req[q].decision) \in {"executed", "reviewed", "cancelled"}
    <3>1. req[q].decision \in {"approved", "rejected"}
      BY <1>1, <1>8 DEF Look, ReqInv
    <3> QED BY <3>1 DEF Action
  <2>2. /\ [req[q] EXCEPT !.step = "act", !.execution = Action(req[q].decision)]
             \in RequestType
        /\ [req[q] EXCEPT !.step = "patch", !.execution = actuator] \in RequestType
    BY <1>1, <1>4, <2>1 DEF RequestType, ActuatorTyped
  <2> QED BY <1>2, <1>3, <1>8, <2>2 DEF Look
<1>9. ASSUME NEW q \in Request, Act(q) PROVE Good
  <2>1. [req[q] EXCEPT !.step = "patch"] \in RequestType
    BY <1>4 DEF RequestType
  <2>2. req[q].execution \in {"none", "executed", "reviewed", "cancelled"}
    BY <1>4 DEF RequestType
  <2> QED BY <1>2, <1>9, <2>1, <2>2 DEF Act, ActuatorTyped
<1>10. ASSUME NEW q \in Request, Patch(q) PROVE Good
  <2>1. [req[q] EXCEPT !.step = "settle"] \in RequestType
    BY <1>4 DEF RequestType
  <2> QED BY <1>2, <1>3, <1>10, <2>1 DEF Patch
<1>11. ASSUME NEW q \in Request, Close(q) \/ Resolve(q) \/ Refused(q)
       PROVE  Good
  BY <1>2, <1>3, <1>11, NoRequestTyped DEF Close, Resolve, Refused
<1>12. ASSUME NEW q \in Request, Dropped(q) PROVE Good
  BY <1>1, <1>3, <1>12, NoRequestTyped DEF Dropped, RequestsTyped
<1>13. ASSUME UNCHANGED <<req, actuator>> PROVE Good
  BY <1>1, <1>13 DEF RequestsTyped, ActuatorTyped
<1>14. ASSUME NEW w \in Worker,
              Claim(w) \/ WorkerStep(w) \/ Error(w) \/ Crash(w)
       PROVE  UNCHANGED <<req, actuator>>
  BY <1>14 DEF Claim, WorkerStep, Audit, AuditManual, AuditFinalize, AuditResume,
     AuditReplay, Replay, Analyse, Execute, Begin, Insert, Reuse, Handler, Finish,
     Record, Conclude, Stale, Collides, Error, Crash
<1>15. ASSUME LoseLease \/ Expire PROVE UNCHANGED <<req, actuator>>
  BY <1>15 DEF LoseLease, Expire
<1> QED BY <1>5, <1>6, <1>7, <1>8, <1>9, <1>10, <1>11, <1>12, <1>13, <1>14, <1>15
        DEF Next, RequestStep

LEMMA BoundsStep == ASSUME RunAssumption, IInv, Next PROVE BoundsTyped'
<1>1. BoundsTyped
  BY TypeGroups DEF IInv
<1>2. \/ UNCHANGED boundVars
      \/ /\ faults < MaxFaults /\ faults' = faults + 1 /\ UNCHANGED retries
      \/ /\ retries < MaxRetries /\ UNCHANGED faults
         /\ retries' = retries + 1 \/ UNCHANGED retries
      \/ UNCHANGED <<faults, retries>>
  <2>1. ASSUME NEW q \in Request, NEW to \in Resolution, Ask(q, to)
        PROVE  \/ UNCHANGED <<faults, retries>>
               \/ retries < MaxRetries /\ UNCHANGED faults /\ retries' = retries + 1
    BY <2>1 DEF Ask
  <2>2. ASSUME NEW w \in Worker, Claim(w) \/ WorkerStep(w) \/ Error(w)
        PROVE  UNCHANGED <<faults, retries>>
    BY <2>2 DEF Claim, WorkerStep, Audit, AuditManual, AuditFinalize, AuditResume,
       AuditReplay, Replay, Analyse, Execute, Begin, Insert, Reuse, Handler, Finish,
       Record, Conclude, Stale, Collides, Error, boundVars
  <2>3. ASSUME NEW q \in Request,
               \/ \E d \in {"approved", "rejected"} : Open(q, d)
               \/ RequestStep(q)
        PROVE  UNCHANGED <<faults, retries>>
    BY <2>3 DEF Open, RequestStep, Decide, Look, Act, Patch, Close, Resolve,
                Refused, boundVars
  <2>4. ASSUME \/ \E w \in Worker : Crash(w)
               \/ \E q \in Request : Dropped(q)
               \/ LoseLease
        PROVE  faults < MaxFaults /\ faults' = faults + 1 /\ UNCHANGED retries
    BY <2>4 DEF Crash, Dropped, LoseLease
  <2>5. ASSUME Expire PROVE UNCHANGED <<faults, retries>>
    BY <2>5 DEF Expire, boundVars
  <2> QED BY <2>1, <2>2, <2>3, <2>4, <2>5 DEF Next
<1> QED BY <1>1, <1>2 DEF BoundsTyped, boundVars, RunAssumption
-----------------------------------------------------------------------------
\* A tool that is recorded as succeeded stays so: an INSERT meets a free key only, and
\* an UPDATE the running row of its own thread.
LEMMA SuccessStays ==
  ASSUME IInv, Next
  PROVE  \A k \in Tool : rows[k] = "succeeded" => rows'[k] = "succeeded"
<1>1. TypeOK /\ WorkInv
  BY DEF IInv
<1>2. ASSUME NEW w \in Worker, Insert(w) \/ Record(w)
      PROVE  \A k \in Tool : rows[k] = "succeeded" => rows'[k] = "succeeded"
  <2>1. rows[Current(w)] \in {"none", "running"}
    BY <1>1, <1>2 DEF Insert, Vacant, Record, WorkInv, Running, HoldsRow
  <2>2. \A k \in Tool : k # Current(w) => rows'[k] = rows[k]
    BY <1>1, <1>2 DEF Insert, Record, TypeOK
  <2> QED BY <2>1, <2>2
<1>3. ASSUME NEW w \in Worker,
             \/ Claim(w) \/ Error(w) \/ Collides(w) \/ Crash(w) \/ Stale(w)
             \/ Audit(w) \/ AuditManual(w) \/ AuditFinalize(w) \/ AuditResume(w)
             \/ AuditReplay(w) \/ Replay(w) \/ Analyse(w) \/ Execute(w)
             \/ Begin(w) \/ Reuse(w) \/ Handler(w) \/ Finish(w) \/ Conclude(w)
      PROVE  rows' = rows
  BY <1>3 DEF Claim, Error, Collides, Crash, Stale, Audit, AuditManual, AuditFinalize,
              AuditResume, AuditReplay, Replay, Analyse, Execute, Begin, Reuse,
              Handler, Finish, Conclude, toolVars
<1>4. ASSUME NEW q \in Request,
             \/ \E d \in {"approved", "rejected"} : Open(q, d)
             \/ \E to \in Resolution : Ask(q, to)
             \/ RequestStep(q) \/ Dropped(q)
      PROVE  rows' = rows
  BY <1>4 DEF Open, Ask, RequestStep, Decide, Look, Act, Patch, Close, Resolve,
              Refused, Dropped, toolVars
<1>5. ASSUME LoseLease \/ Expire PROVE rows' = rows
  BY <1>5 DEF LoseLease, Expire, toolVars
<1> QED BY <1>2, <1>3, <1>4, <1>5 DEF Next, WorkerStep

LEMMA StepsAreTools == \A l \in Levels : Steps(l) \subseteq Tool
BY PlanShape DEF Steps

\* Another thread's audit, or none's, is not disturbed.
LEMMA AuditedStep == ASSUME IInv, Next PROVE Audited'
<1>1. TypeOK /\ Audited
  BY DEF IInv
<1>2. ASSUME NEW v \in Worker, pc[v] = "finalize", ev'[v] = ev[v]
      PROVE  /\ ev'[v].level # "none"
             /\ \A k \in Steps(ev'[v].level) : rows'[k] = "succeeded"
  <2>1. ev[v].level \in Levels
    BY <1>1, <1>2 DEF Audited, TypeOK, Event
  <2>2. Steps(ev[v].level) \subseteq Tool
    BY <2>1, StepsAreTools
  <2> QED BY <1>1, <1>2, <2>2, SuccessStays DEF Audited
<1>3. ASSUME NEW v \in Worker, pc'[v] = "finalize", pc[v] # "finalize"
      PROVE  Audit(v) /\ ev' = ev /\ rows' = rows /\ AllSucceeded(ev[v])
  <2>1. ASSUME NEW w \in Worker, Ends(w) PROVE FALSE
    BY <1>1, <1>3, <2>1 DEF Ends, TypeOK
  <2>2. ASSUME NEW w \in Worker, NEW to \in PC \ {"finalize"},
               pc' = [pc EXCEPT ![w] = to]
        PROVE  FALSE
    BY <1>1, <1>3, <2>2 DEF TypeOK
  <2>3. ASSUME pc' = pc PROVE FALSE
    BY <1>3, <2>3
  <2>4. ASSUME NEW w \in Worker,
               \/ AuditManual(w) \/ AuditFinalize(w) \/ Conclude(w) \/ Stale(w)
               \/ Collides(w) \/ Error(w) \/ Crash(w)
        PROVE  FALSE
    BY <2>1, <2>4
       DEF AuditManual, AuditFinalize, Conclude, Stale, Collides, Error, Crash
  <2>5. ASSUME NEW w \in Worker,
               \/ Claim(w) \/ AuditResume(w) \/ AuditReplay(w) \/ Replay(w)
               \/ Analyse(w) \/ Execute(w) \/ Begin(w) \/ Insert(w) \/ Handler(w)
               \/ Finish(w) \/ Record(w)
        PROVE  FALSE
    BY <2>2, <2>5 DEF Claim, AuditResume, AuditReplay, Replay, Analyse, Execute, Begin,
                      Insert, Handler, Finish, Record, Goes, PC
  <2>6. ASSUME NEW w \in Worker, Reuse(w) PROVE FALSE
    BY <2>3, <2>6 DEF Reuse
  <2>7. ASSUME NEW q \in Request,
               \/ \E d \in {"approved", "rejected"} : Open(q, d)
               \/ \E to \in Resolution : Ask(q, to)
               \/ RequestStep(q) \/ Dropped(q)
        PROVE  FALSE
    BY <2>3, <2>7 DEF Open, Ask, RequestStep, Decide, Look, Act, Patch, Close, Resolve,
                      Refused, Dropped, Serves, threadVars
  <2>8. ASSUME LoseLease \/ Expire PROVE FALSE
    BY <2>3, <2>8 DEF LoseLease, Expire, threadVars
  <2>9. PICK w \in Worker : Audit(w)
    BY <2>4, <2>5, <2>6, <2>7, <2>8 DEF Next, WorkerStep
  <2>10. w = v
    BY <1>1, <1>3, <2>9 DEF Audit, Goes, TypeOK
  <2>11. pc'[w] \in {"park", "resume"} \/ AllSucceeded(ev[w])
    BY <1>1, <2>9 DEF Audit, Goes, TypeOK
  <2> QED BY <1>3, <2>9, <2>10, <2>11 DEF Audit, Goes, toolVars
<1>4. ASSUME NEW v \in Worker, pc[v] = "finalize", pc'[v] = "finalize"
      PROVE  ev'[v] = ev[v]
  <2>2. ASSUME NEW w \in Worker,
               \/ AuditManual(w) \/ AuditFinalize(w) \/ Conclude(w) \/ Stale(w)
               \/ Collides(w) \/ Error(w) \/ Crash(w)
        PROVE  ev'[v] = ev[v]
    <3>1. Ends(w)
      BY <2>2
         DEF AuditManual, AuditFinalize, Conclude, Stale, Collides, Error, Crash
    <3> QED BY <1>1, <1>4, <3>1 DEF Ends, TypeOK
  <2>3. ASSUME NEW w \in Worker, Claim(w) \/ Analyse(w) \/ Handler(w)
        PROVE  ev'[v] = ev[v]
    <3>1. w # v
      BY <1>4, <2>3 DEF Claim, Analyse, Handler
    <3> QED BY <1>1, <2>3, <3>1 DEF Claim, Analyse, Handler, Hold, TypeOK
  <2>4. ASSUME NEW w \in Worker,
               \/ Audit(w) \/ AuditResume(w) \/ AuditReplay(w) \/ Replay(w)
               \/ Execute(w) \/ Begin(w) \/ Insert(w) \/ Finish(w) \/ Record(w)
               \/ Reuse(w)
        PROVE  ev' = ev
    BY <2>4 DEF Audit, AuditResume, AuditReplay, Replay, Execute, Begin, Insert, Finish,
                Record, Reuse, Goes
  <2>5. ASSUME NEW q \in Request,
               \/ \E d \in {"approved", "rejected"} : Open(q, d)
               \/ \E to \in Resolution : Ask(q, to)
               \/ RequestStep(q) \/ Dropped(q)
        PROVE  ev' = ev
    BY <2>5 DEF Open, Ask, RequestStep, Decide, Look, Act, Patch, Close, Resolve,
                Refused, Dropped, Serves, threadVars
  <2>6. ASSUME LoseLease \/ Expire PROVE ev' = ev
    BY <2>6 DEF LoseLease, Expire, threadVars
  <2> QED BY <2>2, <2>3, <2>4, <2>5, <2>6 DEF Next, WorkerStep
<1> QED BY <1>2, <1>3, <1>4 DEF Audited, AllSucceeded

\* A step keeps, or establishes, what a worker's success stands for.
LEMMA CompletedStep == ASSUME IInv, Next PROVE PlanCompleted'
<1>1. TypeOK /\ WorkInv /\ Audited /\ PlanCompleted
  BY DEF IInv
<1>2. ASSUME UNCHANGED <<status, settledBy>>, snap'.level = snap.level
      PROVE  PlanCompleted'
  <2>1. snap.level # "none" => Steps(snap.level) \subseteq Tool
    BY <1>1, StepsAreTools DEF TypeOK, Event
  <2> QED BY <1>1, <1>2, <2>1, SuccessStays DEF PlanCompleted
<1>3. ASSUME UNCHANGED runVars PROVE PlanCompleted'
  BY <1>2, <1>3 DEF runVars
<1>4. ASSUME status' # "succeeded" \/ settledBy' # "worker" PROVE PlanCompleted'
  BY <1>4 DEF PlanCompleted
<1>5. ASSUME NEW w \in Worker, Claim(w) PROVE PlanCompleted'
  <2>1. status \in ActiveStatuses /\ UNCHANGED status
    BY <1>5 DEF Claim, Claimable
  <2> QED BY <1>4, <2>1 DEF ActiveStatuses
<1>6. ASSUME NEW w \in Worker,
             \/ AuditManual(w) \/ Replay(w) \/ Execute(w) \/ Collides(w)
             \/ Error(w) \/ Analyse(w)
      PROVE  PlanCompleted'
  BY <1>4, <1>6
     DEF AuditManual, Replay, Execute, Collides, Error, Analyse, Transition
<1>7. ASSUME NEW w \in Worker, AuditReplay(w) PROVE PlanCompleted'
  BY <1>3, <1>4, <1>7 DEF AuditReplay, Transition, toolVars
<1>8. ASSUME NEW w \in Worker, AuditFinalize(w) PROVE PlanCompleted'
  BY <1>1, <1>8 DEF AuditFinalize, Audited, Transition, PlanCompleted, toolVars
<1>9. ASSUME NEW w \in Worker, Conclude(w) PROVE PlanCompleted'
  <2>1. SUFFICES ASSUME status' = "succeeded" PROVE PlanCompleted'
    BY <1>4
  <2>2. snap' = ev[w] /\ rows' = rows /\ FinalStatus(w) = "succeeded"
    BY <1>9, <2>1 DEF Conclude, Transition, toolVars
  <2>3. pc[w] = "tools" /\ InPlan(w) /\ ~ (next[w] <= Len(Plan[ev[w].level]))
    BY <1>9 DEF Conclude, HasStep, InPlan
  <2>4. bad[w] = FALSE
    BY <1>1, <2>2 DEF FinalStatus, TypeOK
  <2>5. ev[w].level \in Levels
    BY <1>1, <2>3 DEF WorkInv, Placed, TypeOK, Event
  <2>6. \A i \in 1..Len(Plan[ev[w].level]) :
          rows[Plan[ev[w].level][i]] = "succeeded"
    <3> DEFINE n == Len(Plan[ev[w].level])
    <3>1. n \in 2..4
      BY <2>5, PlanShape
    <3>2. next[w] \in Nat /\ ~ (next[w] <= n)
      BY <1>1, <2>3 DEF TypeOK
    <3>3. \A i \in 1..(next[w] - 1) : rows[Plan[ev[w].level][i]] = "succeeded"
      BY <1>1, <2>3, <2>4 DEF WorkInv, Walked
    <3>4. \A i \in 1..n : i \in 1..(next[w] - 1)
      <4> HIDE DEF n
      <4> QED BY <3>1, <3>2
    <3> QED BY <3>3, <3>4
  <2> QED BY <2>2, <2>5, <2>6 DEF PlanCompleted, Steps, Levels
<1>10. ASSUME NEW q \in Request, Close(q) \/ Resolve(q) PROVE PlanCompleted'
  BY <1>4, <1>10 DEF Close, Resolve, Settle
<1>11. ASSUME NEW q \in Request, Patch(q) PROVE PlanCompleted'
  BY <1>1, <1>2, <1>11 DEF Patch, toolVars, TypeOK, Event
<1>12. ASSUME NEW w \in Worker,
              \/ Audit(w) \/ AuditResume(w) \/ Begin(w) \/ Insert(w) \/ Reuse(w)
              \/ Handler(w) \/ Finish(w) \/ Record(w) \/ Stale(w) \/ Crash(w)
       PROVE  UNCHANGED runVars
  BY <1>12 DEF Audit, AuditResume, Begin, Insert, Reuse, Handler, Finish, Record,
               Stale, Crash
<1>13. ASSUME NEW q \in Request,
              \/ \E d \in {"approved", "rejected"} : Open(q, d)
              \/ \E to \in Resolution : Ask(q, to)
              \/ Decide(q) \/ Look(q) \/ Act(q) \/ Refused(q) \/ Dropped(q)
       PROVE  UNCHANGED runVars
  BY <1>13 DEF Open, Ask, Decide, Look, Act, Refused, Dropped
<1>14. ASSUME LoseLease \/ Expire PROVE PlanCompleted'
  BY <1>2, <1>14 DEF LoseLease, Expire
<1> QED BY <1>3, <1>5, <1>6, <1>7, <1>8, <1>9, <1>10, <1>11, <1>12, <1>13, <1>14
        DEF Next, WorkerStep, RequestStep
-----------------------------------------------------------------------------
LEMMA StepIInv == ASSUME RunAssumption, IInv, [Next]_vars PROVE IInv'
<1>1. CASE Next
  <2>1. TypeOK'
    BY <1>1, TypeGroups, RunStep, ToolsStep, ThreadsStep, RequestTypesStep,
       BoundsStep DEF TypeOK, RunTyped, ToolsTyped, ThreadsTyped, ActuatorTyped,
       RequestsTyped, RequestType, BoundsTyped
  <2> QED BY <1>1, <2>1, WorkStep, RequestsStep, AuditedStep,
         CompletedStep DEF IInv
<1>2. CASE UNCHANGED vars
  <2>1. TypeOK' /\ ReqInv'
    BY <1>2 DEF IInv, TypeOK, ReqInv, vars, runVars, toolVars, threadVars,
                boundVars
  <2>2. WorkInv'
    BY <1>2, ThreadsKept DEF IInv, vars, toolVars
  <2>3. Audited' /\ PlanCompleted'
    BY <1>2 DEF IInv, Audited, PlanCompleted, vars, runVars, toolVars, threadVars
  <2> QED BY <2>1, <2>2, <2>3 DEF IInv
<1> QED BY <1>1, <1>2

THEOREM Inductive == Spec => []IInv
BY InitIInv, StepIInv, RunAssumption, PTL DEF Spec

\* Every variable keeps its type, whatever the workers, operators and faults do.
THEOREM TypeCorrect == Spec => []TypeOK
<1>1. IInv => TypeOK
  BY DEF IInv
<1> QED BY <1>1, Inductive, PTL

\* A run that a worker ended as succeeded has every step of its plan recorded as
\* succeeded: for any number of threads, crashes, lost leases, replays, retries and
\* concurrent operators.
THEOREM Completed == Spec => []PlanCompleted
<1>1. IInv => PlanCompleted
  BY DEF IInv
<1> QED BY <1>1, Inductive, PTL
-----------------------------------------------------------------------------
(* The status a worker relies on.  Only the owner of the row moves the     *)
(* status of an active run, so that what it read when it claimed the run   *)
(* stays true for it until it moves on itself.                             *)

Owned == owner # NoWorker => status \in ActiveStatuses

InPhase(w) ==
  owner = w =>
    /\ pc[w] \in {"audit", "resume"} => ev[w].level = snap.level
    /\ pc[w] = "replay" => status = "retryable_failed"
    /\ pc[w] = "analyse" => status = "analyzing"
    /\ pc[w] = "decided" => status = "decided"
    /\ InPlan(w) => status = "executing"

Levelled == status \in {"decided", "executing"} => snap.level # "none"

PhaseInv == Owned /\ (\A w \in Worker : InPhase(w)) /\ Levelled

LEMMA PhaseKept ==
  ASSUME NEW v \in Worker, InPhase(v),
         UNCHANGED <<owner, status>>, snap'.level = snap.level,
         pc'[v] = pc[v], ev'[v].level = ev[v].level
  PROVE  InPhase(v)'
BY DEF InPhase, InPlan, AtStep, HoldsRow

\* Who writes the status, and from where.
LEMMA StatusWriters ==
  ASSUME RunAssumption, IInv, Next
  PROVE  \/ UNCHANGED <<status, owner>>
         \/ \E w \in Worker : Claim(w)
         \/ \E w \in Worker :
              \/ AuditManual(w) \/ AuditFinalize(w) \/ Conclude(w) \/ Error(w)
              \/ AuditReplay(w) \/ Replay(w) \/ Analyse(w) \/ Execute(w)
         \/ \E q \in Request : Close(q) \/ Resolve(q)
<1>1. ASSUME NEW w \in Worker,
             \/ Audit(w) \/ AuditResume(w) \/ Begin(w) \/ Insert(w) \/ Reuse(w)
             \/ Handler(w) \/ Finish(w) \/ Record(w) \/ Stale(w) \/ Crash(w)
      PROVE  UNCHANGED <<status, owner>>
  BY <1>1 DEF Audit, AuditResume, Begin, Insert, Reuse, Handler, Finish, Record, Stale,
              Crash, runVars
<1>2. ASSUME NEW q \in Request,
             \/ \E d \in {"approved", "rejected"} : Open(q, d)
             \/ \E to \in Resolution : Ask(q, to)
             \/ Decide(q) \/ Look(q) \/ Act(q) \/ Patch(q) \/ Refused(q)
             \/ Dropped(q)
      PROVE  UNCHANGED <<status, owner>>
  BY <1>2 DEF Open, Ask, Decide, Look, Act, Patch, Refused, Dropped, runVars
<1>3. ASSUME LoseLease \/ Expire PROVE UNCHANGED <<status, owner>>
  BY <1>3 DEF LoseLease, Expire
<1> QED BY <1>1, <1>2, <1>3 DEF Next, WorkerStep, RequestStep, Collides

LEMMA OwnedStep == ASSUME RunAssumption, IInv, Owned, Next PROVE Owned'
<1>1. ASSUME UNCHANGED <<status, owner>> PROVE Owned'
  BY <1>1 DEF Owned
<1>2. ASSUME NEW w \in Worker, Claim(w) PROVE Owned'
  BY <1>2 DEF Claim, Claimable, Owned
<1>3. ASSUME NEW w \in Worker,
             \/ AuditManual(w) \/ AuditFinalize(w) \/ Conclude(w) \/ Error(w)
             \/ AuditReplay(w) \/ Replay(w) \/ Analyse(w) \/ Execute(w)
      PROVE  Owned'
  <2>1. ASSUME NEW from, NEW to, Transition(w, from, to) PROVE Owned'
    BY <2>1 DEF Transition, Owned
  <2>2. ASSUME Analyse(w) PROVE Owned'
    BY <2>2 DEF Analyse, Owned, ActiveStatuses
  <2>3. UNCHANGED runVars => Owned'
    BY <1>1 DEF runVars
  <2> QED BY <1>3, <2>1, <2>2, <2>3
          DEF AuditManual, AuditFinalize, Conclude, Error, AuditReplay, Replay,
              Execute
<1>4. ASSUME NEW q \in Request, Close(q) \/ Resolve(q) PROVE Owned'
  BY <1>4 DEF Close, Resolve, Settle, Owned
<1> QED BY <1>1, <1>2, <1>3, <1>4, StatusWriters

LEMMA PhasesStep ==
  ASSUME RunAssumption, IInv, PhaseInv, Next, NEW v \in Worker, owner' = v
  PROVE  InPhase(v)'
<1>1. TypeOK /\ WorkInv /\ InPhase(v) /\ v # NoWorker
  BY DEF IInv, PhaseInv, RunAssumption
<1>2. ASSUME NEW w \in Worker, Claim(w) PROVE InPhase(v)'
  <2>1. w = v /\ pc'[w] = "audit" /\ ev'[w] = snap /\ snap' = snap
    BY <1>1, <1>2 DEF Claim, TypeOK
  <2> QED BY <2>1 DEF InPhase, InPlan, AtStep, HoldsRow
<1>3. ASSUME NEW w \in Worker,
             AuditManual(w) \/ AuditFinalize(w) \/ Conclude(w) \/ Error(w)
      PROVE  FALSE
  <2>1. PICK from \in {ActiveStatuses, {"executing"}},
             to \in {"manual_takeover", "waiting_approval", "succeeded"} :
          Transition(w, from, to)
    <3>1. FinalStatus(w) \in {"manual_takeover", "waiting_approval", "succeeded"}
      BY DEF FinalStatus
    <3> QED BY <1>3, <3>1 DEF AuditManual, AuditFinalize, Conclude, Error
  <2> QED BY <1>1, <2>1 DEF Transition, ActiveStatuses
<1>4. ASSUME NEW w \in Worker, Stale(w) \/ Crash(w) PROVE InPhase(v)'
  <2>1. UNCHANGED runVars /\ Ends(w)
    BY <1>4 DEF Stale, Crash
  <2>2. CASE v = w
    <3>1. pc'[v] = "off"
      BY <1>1, <2>1, <2>2 DEF Ends, TypeOK
    <3> QED BY <3>1 DEF InPhase, InPlan, AtStep, HoldsRow
  <2>3. CASE v # w
    <3>1. pc'[v] = pc[v] /\ ev'[v] = ev[v]
      BY <1>1, <2>1, <2>3 DEF Ends, TypeOK
    <3> QED BY <1>1, <2>1, <3>1, PhaseKept DEF runVars
  <2> QED BY <2>2, <2>3
<1>5. ASSUME NEW w \in Worker, AuditResume(w) PROVE InPhase(v)'
  <2>1. /\ w = v /\ status' = "executing" /\ pc'[v] = "tools"
    BY <1>1, <1>5 DEF AuditResume, Resumable, Fence, Goes, runVars, TypeOK
  <2> QED BY <2>1 DEF InPhase, InPlan, AtStep, HoldsRow
<1>6. ASSUME NEW w \in Worker, AuditReplay(w) PROVE InPhase(v)'
  <2>1. w = v
    BY <1>1, <1>6 DEF AuditReplay, Resumable, Fence, Transition, ActiveStatuses,
                      runVars
  <2>2. \/ status' = "analyzing" /\ pc'[v] = "analyse"
        \/ status' = "retryable_failed" /\ pc'[v] = "replay"
    BY <1>1, <1>6, <2>1 DEF AuditReplay, Transition, Goes, runVars, TypeOK
  <2> QED BY <2>2 DEF InPhase, InPlan, AtStep, HoldsRow
<1>7. ASSUME NEW w \in Worker, Replay(w) \/ Analyse(w) \/ Execute(w)
      PROVE  InPhase(v)'
  <2>1. w = v
    BY <1>1, <1>7 DEF Replay, Analyse, Execute, Fence, Transition, ActiveStatuses
  <2>2. \/ status' = "analyzing" /\ pc'[v] = "analyse"
        \/ status' = "decided" /\ pc'[v] = "decided"
        \/ status' = "executing" /\ pc'[v] = "tools"
    BY <1>1, <1>7, <2>1 DEF Replay, Analyse, Execute, Transition, Goes, TypeOK
  <2> QED BY <2>2 DEF InPhase, InPlan, AtStep, HoldsRow
<1>8. ASSUME NEW w \in Worker,
             Begin(w) \/ Insert(w) \/ Reuse(w) \/ Finish(w) \/ Record(w)
      PROVE  InPhase(v)'
  <2>1. InPlan(w) /\ UNCHANGED runVars /\ owner = v
    BY <1>1, <1>8 DEF Begin, Insert, Reuse, Finish, Record, HasStep, runVars, InPlan,
                      AtStep, HoldsRow
  <2>2. CASE v = w
    <3>1. InPlan(v)'
      BY <1>1, <1>8, <2>2 DEF Begin, Insert, Reuse, Finish, Record, HasStep, Goes,
                              InPlan, AtStep, HoldsRow, TypeOK
    <3>2. status' = "executing"
      BY <1>1, <2>1, <2>2 DEF InPhase, runVars
    <3>3. pc'[v] \notin {"audit", "resume", "replay", "analyse", "decided"}
      BY <3>1 DEF InPlan, AtStep, HoldsRow
    <3> QED BY <3>1, <3>2, <3>3 DEF InPhase
  <2>3. CASE v # w
    <3>1. pc'[v] = pc[v] /\ ev'[v] = ev[v]
      BY <1>1, <1>8, <2>3 DEF Begin, Insert, Reuse, Finish, Record, Goes, TypeOK
    <3> QED BY <1>1, <2>1, <3>1, PhaseKept DEF runVars
  <2> QED BY <2>2, <2>3
<1>9. ASSUME NEW w \in Worker, Handler(w) PROVE InPhase(v)'
  <2>1. UNCHANGED runVars /\ owner = v
    BY <1>1, <1>9 DEF Handler, runVars
  <2>2. CASE v = w
    <3>1. InPlan(v) /\ pc'[v] \in {"returned", "failed"}
      BY <1>1, <1>9, <2>2 DEF Handler, InPlan, AtStep, HoldsRow, TypeOK
    <3>2. status' = "executing"
      BY <1>1, <2>1, <3>1 DEF InPhase, runVars
    <3> QED BY <3>1, <3>2 DEF InPhase, InPlan, AtStep, HoldsRow
  <2>3. CASE v # w
    <3>1. pc'[v] = pc[v] /\ ev'[v] = ev[v]
      BY <1>1, <1>9, <2>3 DEF Handler, Hold, TypeOK
    <3> QED BY <1>1, <2>1, <3>1, PhaseKept DEF runVars
  <2> QED BY <2>2, <2>3
<1>10. ASSUME LoseLease \/ Expire PROVE InPhase(v)'
  BY <1>1, <1>10, PhaseKept DEF LoseLease, Expire, threadVars
<1>11. ASSUME NEW q \in Request, Patch(q) \/ Close(q) \/ Resolve(q) PROVE FALSE
  BY <1>1, <1>11 DEF Patch, Close, Resolve, Settle
<1>12. ASSUME NEW q \in Request,
              \/ \E d \in {"approved", "rejected"} : Open(q, d)
              \/ \E to \in Resolution : Ask(q, to)
              \/ Decide(q) \/ Look(q) \/ Act(q) \/ Refused(q) \/ Dropped(q)
       PROVE  InPhase(v)'
  <2>1. UNCHANGED <<runVars, threadVars>>
    BY <1>12 DEF Open, Ask, Decide, Look, Act, Refused, Dropped, Serves
  <2> QED BY <1>1, <2>1, PhaseKept DEF runVars, threadVars
<1>13. ASSUME NEW w \in Worker, Audit(w) PROVE InPhase(v)'
  <2>1. UNCHANGED runVars /\ owner = v /\ ev' = ev /\ pc[w] = "audit"
    BY <1>1, <1>13 DEF Audit, Goes, runVars
  <2>2. CASE v = w
    <3>1. pc'[v] \in {"park", "finalize", "resume"}
      BY <1>1, <1>13, <2>2 DEF Audit, Goes, TypeOK
    <3>2. ev'[v].level = snap'.level
      BY <1>1, <2>1, <2>2 DEF InPhase, runVars
    <3> QED BY <3>1, <3>2 DEF InPhase, InPlan, AtStep, HoldsRow
  <2>3. CASE v # w
    <3>1. pc'[v] = pc[v]
      BY <1>1, <1>13, <2>3 DEF Audit, Goes, TypeOK
    <3> QED BY <1>1, <2>1, <3>1, PhaseKept DEF runVars
  <2> QED BY <2>2, <2>3
<1> QED BY <1>2, <1>3, <1>4, <1>5, <1>6, <1>7, <1>8, <1>9, <1>10, <1>11, <1>12,
           <1>13 DEF Next, WorkerStep, RequestStep, Collides

LEMMA LevelledStep ==
  ASSUME RunAssumption, IInv, PhaseInv, Next PROVE Levelled'
<1>1. TypeOK /\ WorkInv /\ ReqInv /\ Levelled
  BY DEF IInv, PhaseInv
<1>2. ASSUME UNCHANGED status, snap'.level = snap.level PROVE Levelled'
  BY <1>1, <1>2 DEF Levelled
<1>3. ASSUME status' \notin {"decided", "executing"} PROVE Levelled'
  BY <1>3 DEF Levelled
<1>4. ASSUME NEW w \in Worker,
             \/ AuditManual(w) \/ AuditFinalize(w) \/ Conclude(w) \/ Error(w)
             \/ Replay(w)
      PROVE  Levelled'
  <2>1. FinalStatus(w) \notin {"decided", "executing"}
    BY DEF FinalStatus
  <2> QED BY <1>3, <1>4, <2>1
          DEF AuditManual, AuditFinalize, Conclude, Error, Replay, Transition
<1>5. ASSUME NEW w \in Worker, AuditReplay(w) PROVE Levelled'
  BY <1>2, <1>3, <1>5 DEF AuditReplay, Transition, runVars
<1>6. ASSUME NEW w \in Worker, Analyse(w) PROVE Levelled'
  <2>1. PICK l \in Levels, r \in BOOLEAN :
          /\ ev' = [ev EXCEPT ![w] = [level |-> l, review |-> r,
                                      approval |-> ev[w].approval]]
          /\ snap' = ev'[w]
    BY <1>6 DEF Analyse
  <2>2. snap'.level = l
    BY <1>1, <2>1 DEF TypeOK
  <2> QED BY <2>2 DEF Levels, Levelled
<1>7. ASSUME NEW w \in Worker, Execute(w) PROVE Levelled'
  BY <1>1, <1>7 DEF Execute, Transition, WorkInv, Placed, Levelled
<1>8. ASSUME NEW q \in Request, Close(q) \/ Resolve(q) PROVE Levelled'
  BY <1>1, <1>3, <1>8 DEF Close, Resolve, Settle, RunResult, ReqInv, Resolution
<1>9. ASSUME NEW q \in Request, Patch(q) PROVE Levelled'
  BY <1>1, <1>2, <1>9 DEF Patch, TypeOK, Event
<1>10. ASSUME NEW w \in Worker,
              \/ Claim(w) \/ Audit(w) \/ AuditResume(w) \/ Begin(w) \/ Insert(w)
              \/ Reuse(w) \/ Handler(w) \/ Finish(w) \/ Record(w) \/ Stale(w)
              \/ Crash(w)
       PROVE  UNCHANGED <<status, snap>>
  BY <1>10 DEF Claim, Audit, AuditResume, Begin, Insert, Reuse, Handler, Finish,
               Record, Stale, Crash, runVars
<1>11. ASSUME NEW q \in Request,
              \/ \E d \in {"approved", "rejected"} : Open(q, d)
              \/ \E to \in Resolution : Ask(q, to)
              \/ Decide(q) \/ Look(q) \/ Act(q) \/ Refused(q) \/ Dropped(q)
       PROVE  UNCHANGED <<status, snap>>
  BY <1>11 DEF Open, Ask, Decide, Look, Act, Refused, Dropped, runVars
<1>12. ASSUME LoseLease \/ Expire PROVE UNCHANGED <<status, snap>>
  BY <1>12 DEF LoseLease, Expire
<1> QED BY <1>2, <1>4, <1>5, <1>6, <1>7, <1>8, <1>9, <1>10, <1>11, <1>12
        DEF Next, WorkerStep, RequestStep, Collides

LEMMA PhaseInductive == Spec => []PhaseInv
<1>1. ASSUME RunAssumption, Init PROVE PhaseInv
  BY <1>1 DEF RunAssumption, Init, PhaseInv, Owned, InPhase, InPlan, AtStep, HoldsRow, Levelled
<1>2. ASSUME RunAssumption, IInv, PhaseInv, [Next]_vars PROVE PhaseInv'
  <2>1. CASE Next
    <3>1. ASSUME NEW v \in Worker PROVE InPhase(v)'
      <4>1. CASE owner' = v
        BY <1>2, <2>1, <4>1, PhasesStep
      <4>2. CASE owner' # v
        BY <4>2 DEF InPhase
      <4> QED BY <4>1, <4>2
    <3>2. Owned' /\ Levelled'
      BY <1>2, <2>1, OwnedStep, LevelledStep DEF PhaseInv
    <3> QED BY <3>1, <3>2 DEF PhaseInv
  <2>2. CASE UNCHANGED vars
    BY <1>2, <2>2 DEF PhaseInv, Owned, InPhase, InPlan, AtStep, HoldsRow, Levelled, vars,
                      runVars, threadVars
  <2> QED BY <1>2, <2>1, <2>2
<1> QED BY <1>1, <1>2, RunAssumption, Inductive, PTL DEF Spec

\* The store never refuses a live owner because of the status it finds: whoever passes
\* the fence finds the status its place in the pipeline takes for granted, whatever
\* recovery, other workers and operators have done before.
THEOREM OwnerKnowsStatus ==
  Spec => [](\A w \in Worker : Fence(w) =>
                /\ pc[w] = "replay" => status = "retryable_failed"
                /\ pc[w] = "analyse" => status = "analyzing"
                /\ pc[w] = "decided" => status = "decided"
                /\ InPlan(w) => status = "executing")
<1>1. PhaseInv => \A w \in Worker : Fence(w) =>
                    /\ pc[w] = "replay" => status = "retryable_failed"
                    /\ pc[w] = "analyse" => status = "analyzing"
                    /\ pc[w] = "decided" => status = "decided"
                    /\ InPlan(w) => status = "executing"
  BY DEF PhaseInv, InPhase, Fence
<1> QED BY <1>1, PhaseInductive, PTL
-----------------------------------------------------------------------------
(* Retries.  A retry is granted on what one read shows and written later,  *)
(* and a late worker may insert a tool row in between.  It cannot finish   *)
(* that tool any more: what no step of the pipeline and no retry can meet  *)
(* is a tool that is done.                                                 *)

\* One operator request at a time, or one retry in all: the write of a granted retry
\* is then never preceded by that of another one.
OneRetry == (\A p, q \in Request : p = q) \/ MaxRetries <= 1

Granted(q) == req[q].step = "resolve" /\ req[q].decision = "analyzing"

Recording(w) == pc[w] \in {"succeeding", "failing"}

\* No tool has an outcome, and none will get one from a worker behind its fence check.
NoneDone ==
  /\ \A k \in Tool : rows[k] \in {"none", "running"}
  /\ \A w \in Worker : ~ Recording(w)

Grants ==
  \A q \in Request : Granted(q) => /\ status \notin ActiveStatuses
                                   /\ NoneDone
                                   /\ retries > 0

OneGrant == \A p, q \in Request : Granted(p) /\ Granted(q) => p = q

\* Before the plan is executed no tool is done.
Untried == status \in {"analyzing", "decided", "retryable_failed"} => NoneDone

RetryInv == Grants /\ OneGrant /\ Untried

\* A tool gets an outcome while the run is executing: the fence check of a finish.
LEMMA DoneWhileExecuting ==
  ASSUME RunAssumption, IInv, PhaseInv, NoneDone, Next
  PROVE  NoneDone' \/ (status = "executing" /\ status' = "executing")
<1>1. TypeOK /\ WorkInv
  BY DEF IInv
<1>2. ASSUME UNCHANGED rows, \A w \in Worker : Recording(w)' => Recording(w)
      PROVE  NoneDone'
  BY <1>2 DEF NoneDone
<1>3. ASSUME NEW w \in Worker, NEW to \in PC \ {"succeeding", "failing"},
             pc' = [pc EXCEPT ![w] = to]
      PROVE  \A v \in Worker : Recording(v)' => Recording(v)
  BY <1>1, <1>3 DEF TypeOK, Recording
<1>4. ASSUME UNCHANGED pc PROVE \A v \in Worker : Recording(v)' => Recording(v)
  BY <1>4 DEF Recording
<1>5. ASSUME NEW w \in Worker, Finish(w)
      PROVE  status = "executing" /\ status' = "executing"
  <2>1. owner = w /\ InPlan(w) /\ UNCHANGED status
    BY <1>5 DEF Finish, Fence, InPlan, AtStep, HoldsRow, runVars
  <2> QED BY <2>1 DEF PhaseInv, InPhase
<1>6. ASSUME NEW w \in Worker, Record(w) PROVE FALSE
  BY <1>6 DEF Record, NoneDone, Recording
<1>7. ASSUME NEW w \in Worker, Insert(w) PROVE NoneDone'
  <2>1. /\ rows' = [rows EXCEPT ![Current(w)] = "running"]
        /\ pc' = [pc EXCEPT ![w] = "handler"]
    BY <1>7 DEF Insert, Goes
  <2>2. \A k \in Tool : rows'[k] \in {"none", "running"}
    BY <1>1, <2>1 DEF NoneDone, TypeOK
  <2>3. \A v \in Worker : Recording(v)' => Recording(v)
    BY <1>3, <2>1 DEF PC
  <2> QED BY <2>2, <2>3 DEF NoneDone
<1>8. ASSUME NEW w \in Worker,
             \/ AuditManual(w) \/ AuditFinalize(w) \/ Conclude(w) \/ Stale(w)
             \/ Collides(w) \/ Error(w) \/ Crash(w)
      PROVE  NoneDone'
  <2>1. pc' = [pc EXCEPT ![w] = "off"] /\ UNCHANGED rows
    BY <1>8 DEF AuditManual, AuditFinalize, Conclude, Stale, Collides, Error, Crash,
                Ends, toolVars
  <2> QED BY <1>2, <1>3, <2>1 DEF PC
<1>9. ASSUME NEW w \in Worker,
             \/ Claim(w) \/ Audit(w) \/ AuditResume(w) \/ AuditReplay(w) \/ Replay(w)
             \/ Analyse(w) \/ Execute(w) \/ Begin(w) \/ Handler(w)
      PROVE  NoneDone'
  <2>1. UNCHANGED rows
    BY <1>9 DEF Claim, Audit, AuditResume, AuditReplay, Replay, Analyse, Execute, Begin,
                Handler, toolVars
  <2>2. PICK to \in PC \ {"succeeding", "failing"} : pc' = [pc EXCEPT ![w] = to]
    BY <1>9 DEF Claim, Audit, AuditResume, AuditReplay, Replay, Analyse, Execute, Begin,
                Handler, Goes, PC
  <2> QED BY <1>2, <1>3, <2>1, <2>2
<1>10. ASSUME NEW w \in Worker, Reuse(w) PROVE NoneDone'
  BY <1>2, <1>4, <1>10 DEF Reuse, toolVars
<1>11. ASSUME NEW q \in Request,
              \/ \E d \in {"approved", "rejected"} : Open(q, d)
              \/ \E to \in Resolution : Ask(q, to)
              \/ RequestStep(q) \/ Dropped(q)
       PROVE  NoneDone'
  <2>1. UNCHANGED <<rows, pc>>
    BY <1>11 DEF Open, Ask, RequestStep, Decide, Look, Act, Patch, Close, Resolve,
                 Refused, Dropped, Serves, toolVars, threadVars
  <2> QED BY <1>2, <1>4, <2>1
<1>12. ASSUME LoseLease \/ Expire PROVE NoneDone'
  BY <1>2, <1>4, <1>12 DEF LoseLease, Expire, toolVars, threadVars
<1> QED BY <1>5, <1>6, <1>7, <1>8, <1>9, <1>10, <1>11, <1>12 DEF Next, WorkerStep

\* A run without tool rows has no thread about to record one.
LEMMA EmptyIsNotDone == ASSUME IInv, NeedsNoTools PROVE NoneDone
<1>1. ASSUME NEW w \in Worker, Recording(w) PROVE FALSE
  <2>1. HoldsRow(w) /\ rows[Current(w)] = "running"
    BY <1>1 DEF IInv, WorkInv, Running, Recording, HoldsRow
  <2>2. Current(w) \in Tool
    BY <2>1, CurrentIsTool DEF IInv, AtStep
  <2> QED BY <2>1, <2>2 DEF NeedsNoTools
<1> QED BY <1>1 DEF NoneDone, NeedsNoTools

\* An executed plan has no analysis to replay: recovery resumes its tools.
LEMMA NoReplayOfTools ==
  ASSUME IInv, PhaseInv, NEW w \in Worker, AuditReplay(w)
  PROVE  status \in {"analyzing", "decided", "retryable_failed"}
<1>1. owner = w /\ pc[w] = "resume" /\ ~ (ev[w].level # "none" /\ status = "executing")
  BY DEF AuditReplay, Resumable, Fence
<1>2. ev[w].level = snap.level
  BY <1>1 DEF PhaseInv, InPhase
<1>3. status # "executing"
  BY <1>1, <1>2 DEF PhaseInv, Levelled
<1> QED BY <1>3 DEF AuditReplay, Transition

\* A step that reaches an active status from a parked one writes a granted retry.
LEMMA Reactivated ==
  ASSUME RunAssumption, IInv, Next,
         status \notin ActiveStatuses, status' \in ActiveStatuses
  PROVE  \E q \in Request : Resolve(q) /\ Granted(q) /\ status' = "analyzing"
<1>1. ASSUME NEW w \in Worker,
             \/ AuditManual(w) \/ AuditFinalize(w) \/ Conclude(w) \/ Error(w)
             \/ AuditReplay(w) \/ Replay(w) \/ Analyse(w) \/ Execute(w)
             \/ Claim(w)
      PROVE  FALSE
  BY <1>1 DEF AuditManual, AuditFinalize, Conclude, Error, AuditReplay, Replay,
              Analyse, Execute, Claim, Claimable, Resumable, Transition, Fence
<1>2. ASSUME NEW q \in Request, Close(q) PROVE FALSE
  BY <1>2 DEF Close, Settle, RunResult, ActiveStatuses
<1>3. PICK q \in Request : Resolve(q)
  BY <1>1, <1>2, StatusWriters
<1>4. status' = req[q].decision /\ req[q].step = "resolve"
  BY <1>3 DEF Resolve, Settle
<1>5. req[q].decision = "analyzing"
  BY <1>4 DEF IInv, ReqInv, Resolution, ActiveStatuses
<1> QED BY <1>3, <1>4, <1>5 DEF Granted

\* Where the grants of retries come from.
LEMMA GrantSource ==
  ASSUME IInv, Next, NEW p \in Request, Granted(p)', ~ Granted(p)
  PROVE  /\ Ask(p, "analyzing")
         /\ \A q \in Request \ {p} : req'[q] = req[q]
<1>1. TypeOK
  BY DEF IInv
<1>2. ASSUME NEW q \in Request, NEW r, Serves(q, r),
             ~ (r.step = "resolve" /\ r.decision = "analyzing")
      PROVE  FALSE
  BY <1>1, <1>2 DEF Serves, TypeOK, Granted
<1>3. ASSUME NEW w \in Worker, Claim(w) \/ WorkerStep(w) \/ Error(w) \/ Crash(w)
      PROVE  FALSE
  BY <1>3 DEF Claim, WorkerStep, Audit, AuditManual, AuditFinalize, AuditResume,
     AuditReplay, Replay, Analyse, Execute, Begin, Insert, Reuse, Handler, Finish,
     Record, Conclude, Stale, Collides, Error, Crash, Granted
<1>4. ASSUME LoseLease \/ Expire PROVE FALSE
  BY <1>4 DEF LoseLease, Expire, Granted
<1>5. ASSUME NEW q \in Request, NEW d, Open(q, d) PROVE FALSE
  BY <1>2, <1>5 DEF Open, NoRequest
<1>6. ASSUME NEW q \in Request, Decide(q) \/ Look(q) \/ Act(q) \/ Patch(q)
      PROVE  FALSE
  <2>1. req[q] \in RequestType
    BY <1>1 DEF TypeOK, RequestType
  <2> QED BY <1>2, <1>6, <2>1 DEF Decide, Look, Act, Patch, RequestType
<1>7. ASSUME NEW q \in Request, Close(q) \/ Resolve(q) \/ Refused(q) \/ Dropped(q)
      PROVE  FALSE
  BY <1>2, <1>7 DEF Close, Resolve, Refused, Dropped, Serves, NoRequest
<1>8. PICK q \in Request, to \in Resolution : Ask(q, to)
  BY <1>3, <1>4, <1>5, <1>6, <1>7 DEF Next, RequestStep
<1>9. to = "analyzing"
  BY <1>2, <1>8 DEF Ask, NoRequest
<1>10. req' = [req EXCEPT ![q] = [NoRequest EXCEPT !.step = "resolve",
                                    !.decision = to, !.event = snap]]
  BY <1>8 DEF Ask, Serves
<1>11. q = p
  BY <1>1, <1>10 DEF TypeOK, Granted
<1> QED BY <1>1, <1>8, <1>9, <1>10, <1>11 DEF TypeOK

LEMMA RetryStep ==
  ASSUME RunAssumption, OneRetry, IInv, PhaseInv, RetryInv, Next
  PROVE  RetryInv'
<1>1. TypeOK /\ Grants /\ OneGrant /\ Untried
  BY DEF IInv, RetryInv
<1>2. retries' = retries \/ retries' = retries + 1
  BY DEF Next, WorkerStep, RequestStep, Claim, Audit, AuditManual, AuditFinalize,
     AuditResume, AuditReplay, Replay, Analyse, Execute, Begin, Insert, Reuse,
     Handler, Finish, Record, Conclude, Stale, Collides, Error, Crash, Open, Ask, Decide, Look, Act, Patch,
     Close, Resolve, Refused, Dropped, LoseLease, Expire, boundVars
<1>3. OneGrant'
  <2>1. SUFFICES ASSUME NEW p \in Request, NEW q \in Request,
                        Granted(p)', Granted(q)', p # q
                 PROVE  FALSE
    BY DEF OneGrant
  <2>2. MaxRetries <= 1
    BY <2>1 DEF OneRetry
  <2>3. ASSUME NEW a \in Request, NEW b \in Request, a # b,
               Granted(a)', Granted(b)', ~ Granted(a)
        PROVE  FALSE
    <3>1. Ask(a, "analyzing") /\ req'[b] = req[b]
      BY <2>3, GrantSource
    <3>2. Granted(b)
      BY <2>3, <3>1 DEF Granted
    <3>3. retries > 0 /\ retries < MaxRetries
      BY <1>1, <3>1, <3>2 DEF Grants, Ask
    <3> QED BY <1>1, <2>2, <3>3 DEF TypeOK, RunAssumption
  <2>4. Granted(p) /\ Granted(q)
    BY <2>1, <2>3
  <2> QED BY <1>1, <2>1, <2>4 DEF OneGrant
<1>4. ASSUME NEW p \in Request, Granted(p)'
      PROVE  /\ status' \notin ActiveStatuses
             /\ NoneDone'
             /\ retries' > 0
  <2>1. CASE ~ Granted(p)
    <3>1. Ask(p, "analyzing")
      BY <1>4, <2>1, GrantSource
    <3>2. /\ status' = "manual_takeover" /\ NeedsNoTools
          /\ retries' = retries + 1
      BY <3>1 DEF Ask, runVars
    <3>3. NoneDone'
      BY <3>2, EmptyIsNotDone, DoneWhileExecuting
    <3> QED BY <1>1, <3>2, <3>3 DEF ActiveStatuses, TypeOK
  <2>2. CASE Granted(p)
    <3>1. status \notin ActiveStatuses /\ NoneDone /\ retries > 0
      BY <1>1, <2>2 DEF Grants
    <3>2. status' \notin ActiveStatuses
      <4>1. SUFFICES ASSUME status' \in ActiveStatuses PROVE FALSE
        OBVIOUS
      <4>2. PICK q \in Request : Resolve(q) /\ Granted(q)
        BY <3>1, <4>1, Reactivated
      <4>3. q = p
        BY <1>1, <2>2, <4>2 DEF OneGrant
      <4>4. req'[p] = NoRequest
        BY <1>1, <4>2, <4>3 DEF Resolve, Serves, TypeOK
      <4> QED BY <1>4, <4>4 DEF Granted, NoRequest
    <3>3. NoneDone'
      BY <3>1, DoneWhileExecuting DEF ActiveStatuses
    <3> QED BY <1>1, <1>2, <3>1, <3>2, <3>3 DEF TypeOK
  <2> QED BY <2>1, <2>2
<1>5. Untried'
  <2>1. SUFFICES ASSUME status' \in {"analyzing", "decided", "retryable_failed"}
                 PROVE  NoneDone'
    BY DEF Untried
  <2>3. NoneDone
    <3>1. CASE status \notin ActiveStatuses
      <4>1. PICK q \in Request : Granted(q)
        BY <2>1, <3>1, Reactivated DEF ActiveStatuses
      <4> QED BY <1>1, <4>1 DEF Grants
    <3>2. CASE status = "executing"
      <4>1. ASSUME NEW w \in Worker, AuditReplay(w) PROVE FALSE
        BY <3>2, <4>1, NoReplayOfTools
      <4>2. ASSUME NEW w \in Worker,
                   \/ AuditManual(w) \/ AuditFinalize(w) \/ Conclude(w) \/ Error(w)
            PROVE  FALSE
        BY <2>1, <4>2 DEF AuditManual, AuditFinalize, Conclude, Error, FinalStatus,
                          Transition
      <4>3. ASSUME NEW w \in Worker,
                   Claim(w) \/ Replay(w) \/ Analyse(w) \/ Execute(w)
            PROVE  FALSE
        BY <2>1, <3>2, <4>3 DEF Claim, Replay, Analyse, Execute, Transition
      <4>4. ASSUME NEW q \in Request, Close(q) \/ Resolve(q) PROVE FALSE
        BY <2>1, <3>2, <4>4 DEF Close, Resolve, Settle, RunResult
      <4> QED BY <2>1, <3>2, <4>1, <4>2, <4>3, <4>4, StatusWriters
    <3>3. CASE status \in {"analyzing", "decided", "retryable_failed"}
      BY <1>1, <3>3 DEF Untried
    <3> QED BY <3>1, <3>2, <3>3 DEF ActiveStatuses
  <2> QED BY <2>1, <2>3, DoneWhileExecuting
<1> QED BY <1>3, <1>4, <1>5 DEF RetryInv, Grants

LEMMA RetryInductive == ASSUME OneRetry PROVE Spec => []RetryInv
<1>1. ASSUME RunAssumption, Init PROVE RetryInv
  BY <1>1 DEF Init, RetryInv, Grants, OneGrant, Granted, Untried, NoneDone, Recording,
              NoRequest
<1>2. ASSUME RunAssumption, IInv, PhaseInv, RetryInv, [Next]_vars PROVE RetryInv'
  <2>1. CASE UNCHANGED vars
    BY <1>2, <2>1 DEF RetryInv, Grants, OneGrant, Granted, Untried, NoneDone, Recording,
                      vars, runVars, toolVars, threadVars, boundVars
  <2> QED BY <1>2, <2>1, RetryStep
<1> QED BY <1>1, <1>2, RunAssumption, Inductive, PhaseInductive, PTL DEF Spec

\* The store never refuses a worker that holds the lease because of the status it finds:
\* not in the pipeline, and not when recovery finds all tools done, although a retry is
\* granted on what one read shows and written after late workers may have inserted rows.
THEOREM NeverRefused == ASSUME OneRetry PROVE Spec => []OwnersAreNeverRefused
<1>1. ASSUME IInv, PhaseInv, RetryInv PROVE OwnersAreNeverRefused
  <2>1. ASSUME NEW w \in Worker, Fence(w), pc[w] = "finalize"
        PROVE  status = "executing"
    <3>1. ev[w].level \in Levels /\ \A k \in Steps(ev[w].level) : rows[k] = "succeeded"
      BY <1>1, <2>1 DEF IInv, Audited, TypeOK, Event
    <3>2. Plan[ev[w].level][1] \in Tool /\ Plan[ev[w].level][1] \in Steps(ev[w].level)
      <4> DEFINE n == Len(Plan[ev[w].level])
      <4>1. n \in 2..4
        BY <3>1, PlanShape
      <4>2. 1 \in 1..n
        <5> HIDE DEF n
        <5> QED BY <4>1
      <4> QED BY <3>1, <4>2, PlanShape DEF Steps
    <3>3. ~ NoneDone
      BY <3>1, <3>2 DEF NoneDone
    <3> QED BY <1>1, <2>1, <3>3 DEF RetryInv, Untried, Fence, ActiveStatuses
  <2>2. ASSUME NEW w \in Worker, Fence(w)
        PROVE  /\ pc[w] = "replay" => status = "retryable_failed"
               /\ pc[w] = "analyse" => status = "analyzing"
               /\ pc[w] = "decided" => status = "decided"
               /\ InPlan(w) => status = "executing"
    BY <1>1, <2>2 DEF PhaseInv, InPhase, Fence
  <2> QED BY <2>1, <2>2 DEF OwnersAreNeverRefused, InPlan, AtStep, HoldsRow
<1> QED BY <1>1, Inductive, PhaseInductive, RetryInductive, PTL
=============================================================================
