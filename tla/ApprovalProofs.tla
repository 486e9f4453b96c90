--------------------------- MODULE ApprovalProofs ---------------------------
(***************************************************************************)
(* Theorems about the approval of an order, for any processes, requests    *)
(* and faults.  What an order can rely on depends on how the operators     *)
(* have come so far; when they stop agreeing, or to come one after the     *)
(* other, they never start again, so each part of the invariant is under   *)
(* its condition.                                                          *)
(***************************************************************************)
EXTENDS Approval, TLAPS

-----------------------------------------------------------------------------
(* The inductive invariant.                                                *)

\* A decision in a store is the last one.
Stored ==
  /\ file \in {"approved", "rejected"} => decided = file
  /\ \A p \in Proc : cache[p] \in {"approved", "rejected"} => decided = cache[p]

\* Where one process serves one request after the other, an order that still looks
\* pending there was not decided.
Fresh ==
  came.alone /\ OneOffice =>
    /\ file = "pending" => decided = "none"
    /\ \A p \in came.at : cache[p] = "pending" => decided = "none"

\* A decision is one an operator asked for.
Minded ==
  decided # "none" => /\ came.at # {}
                      /\ \E a \in came.asked : decided = StatusOf(a)

\* A whole execution file says what was decided.
Effectual == exec \in Effects => decided # "none" /\ exec = Effect(decided)

OthersOff(q) == \A r \in Request \ {q} : req[r].pc = "off"

\* A request in flight is one of those that came.
Mine(q) ==
  req[q].pc # "off" =>
    /\ req[q].action \in came.asked
    /\ req[q].proc \in came.at
    /\ came.alone => OthersOff(q)

Deciding(q) ==
  /\ req[q].pc \in {"handle", "write"} => decided \in {"none", StatusOf(req[q].action)}
  /\ req[q].pc \in {"persist", "look", "open", "act", "record", "patch", "close"}
       => decided = StatusOf(req[q].action)

Carrying(q) ==
  req[q].pc \in {"record", "patch", "close"}
    => req[q].got = Effect(StatusOf(req[q].action))

\* A request nobody interferes with finds the stores as it has left them.
Alone(q) ==
  req[q].pc # "off" /\ ~ req[q].overlaps =>
    /\ OthersOff(q)
    /\ worker.at = "gone" /\ resolver = "idle" /\ run.status # "executing"
    /\ req[q].pc \in {"look", "open", "act", "record", "patch", "close"} /\ alarm.there
         => alarm.approval = StatusOf(req[q].action)
    /\ req[q].pc = "act" => exec = "torn"
    /\ req[q].pc \in {"record", "patch", "close"} => exec = req[q].got
    /\ req[q].pc \in {"patch", "close"} /\ alarm.there => alarm.execution = req[q].got
    /\ req[q].pc = "close" => /\ run.approval = StatusOf(req[q].action)
                              /\ run.execution = req[q].got

\* What holds of the order as long as the operators agree.
Sound ==
  /\ Stored /\ Fresh /\ Minded /\ Effectual
  /\ \A q \in Request : Deciding(q) /\ Carrying(q)

First(q) ==
  /\ req[q].pc = "open" => exec = "none"
  /\ req[q].pc = "act" => exec = "torn"

\* What holds besides as long as they come one after the other: the execution file is
\* the only one ever written.
Single ==
  /\ effects = IF exec \in Effects THEN <<exec>> ELSE <<>>
  /\ \A q \in Request : First(q)

IInv ==
  /\ TypeOK
  /\ \A q \in Request : Mine(q) /\ Alone(q)
  /\ Agreed => Sound
  /\ Apart => Single

-----------------------------------------------------------------------------
(* Types.                                                                  *)

Pcs == {"off", "handle", "write", "persist", "look", "open", "act", "record", "patch", "close"}

Asked == [pc : Pcs, proc : Proc, action : {"approve", "reject"},
          got : Effects \cup {"none"}, overlaps : BOOLEAN]

AlarmType == [there : BOOLEAN, approval : OrderStatus \cup {"none", "auto"},
              execution : Effects \cup {"none"}]

RunType == [status : {"executing", "waiting_approval", "manual_takeover", "succeeded",
                      "permanent_failed", "cancelled"},
            approval : OrderStatus \cup {"none"}, execution : Effects \cup {"none"}]

WorkerType == [at : {"store", "tools", "snapshot", "gone"}, proc : Proc,
               says : {"pending", "auto"}]

CameType == [asked : SUBSET {"approve", "reject"}, at : SUBSET Proc, alone : BOOLEAN]

LEMMA TypeParts ==
  TypeOK <=>
    /\ hold \in {"high_risk", "review"}
    /\ file \in OrderStatus \cup {"torn"}
    /\ cache \in [Proc -> OrderStatus \cup {"none"}]
    /\ alarm \in AlarmType
    /\ exec \in Effects \cup {"none", "torn"}
    /\ run \in RunType
    /\ worker \in WorkerType
    /\ resolver \in OrderStatus \cup {"none", "idle"}
    /\ req \in [Request -> Asked]
    /\ decided \in {"none", "approved", "rejected"}
    /\ effects \in Seq(Effects)
    /\ came \in CameType
    /\ faults \in 0..MaxFaults
BY DEF TypeOK, AlarmType, RunType, WorkerType, CameType, Asked, Pcs

LEMMA OffIsAsked == Off \in Asked /\ Off.pc = "off"
BY ApprovalAssumption DEF Off, Asked, Pcs

LEMMA FaultBound == ASSUME TypeOK, Fault PROVE faults' \in 0..MaxFaults
BY ApprovalAssumption, TypeParts DEF Fault

\* Operators who agree all ask for the same.
LEMMA SameMind ==
  ASSUME OneMind, NEW a \in came.asked, NEW b \in came.asked
  PROVE  a = b
BY DEF OneMind

LEMMA StatusIsDecision ==
  \A action \in {"approve", "reject"} : StatusOf(action) \in {"approved", "rejected"}
BY DEF StatusOf

\* What the actuator writes is one of the three effects.
LEMMA EffectType == \A s : Effect(s) \in Effects
BY DEF Effect, Effects

-----------------------------------------------------------------------------
(* How a request goes on.                                                  *)

\* The request q goes on to another step; the others stay where they are.
Moved(q, to, got) ==
  /\ req' \in [Request -> Asked]
  /\ \A o \in Request \ {q} : req'[o] = req[o]
  /\ req'[q].pc = to
  /\ req'[q].proc = req[q].proc
  /\ req'[q].action = req[q].action
  /\ req'[q].overlaps = req[q].overlaps
  /\ req'[q].got = got

LEMMA StepMoves ==
  ASSUME TypeOK, NEW q \in Request, NEW to \in Pcs, Step(q, to)
  PROVE  Moved(q, to, req[q].got)
<1>1. req \in [Request -> Asked] /\ req[q] \in Asked
  BY TypeParts
<1>2. req' = [req EXCEPT ![q].pc = to]
  BY DEF Step
<1>3. QED
  BY <1>1, <1>2 DEF Moved, Asked

LEMMA GotMoves ==
  ASSUME TypeOK, NEW q \in Request, NEW to \in Pcs, NEW got \in Effects \cup {"none"},
         req' = [req EXCEPT ![q].pc = to, ![q].got = got]
  PROVE  Moved(q, to, got)
<1>1. req \in [Request -> Asked] /\ req[q] \in Asked
  BY TypeParts
<1>2. QED
  BY <1>1 DEF Moved, Asked

\* Some requests end, the others stay where they are.
Thinned ==
  /\ req' \in [Request -> Asked]
  /\ \A o \in Request : req'[o] = req[o] \/ req'[o].pc = "off"

LEMMA ClosedThins == ASSUME TypeOK, NEW q \in Request, Closed(q) PROVE Thinned
<1>1. req \in [Request -> Asked]
  BY TypeParts
<1>2. QED
  BY <1>1, OffIsAsked DEF Closed, Thinned

\* A request that goes on is still one of those that came.
LEMMA MovedMine ==
  ASSUME IInv, NEW q \in Request, NEW to, NEW got, Moved(q, to, got), req[q].pc # "off",
         came' = came
  PROVE  \A o \in Request : Mine(o)'
<1> SUFFICES ASSUME NEW o \in Request PROVE Mine(o)'
  OBVIOUS
<1>1. CASE o = q
  BY <1>1 DEF IInv, Mine, Moved, OthersOff
<1>2. CASE o # q
  <2>1. req'[o] = req[o] /\ (came.alone /\ req[o].pc # "off" => FALSE)
    BY <1>2 DEF IInv, Mine, Moved, OthersOff
  <2>2. QED
    BY <1>2, <2>1 DEF IInv, Mine
<1>3. QED
  BY <1>1, <1>2

\* A request that works interferes with every other one.
LEMMA MovedAlone ==
  ASSUME IInv, NEW q \in Request, NEW to, NEW got, Moved(q, to, got), req[q].pc # "off",
         to # "off", Alone(q)'
  PROVE  \A o \in Request : Alone(o)'
<1> SUFFICES ASSUME NEW o \in Request, o # q PROVE Alone(o)'
  OBVIOUS
<1>1. req'[o] = req[o]
  BY DEF Moved
<1>2. req[o].pc # "off" /\ ~ req[o].overlaps => req[q].pc = "off"
  BY DEF IInv, Alone, OthersOff
<1>3. QED
  BY <1>1, <1>2 DEF Alone

\* Who has agreed still does when nobody comes.
LEMMA SameCame ==
  ASSUME came' = came
  PROVE  Agreed' = Agreed /\ Apart' = Apart
BY DEF Agreed, Apart, OneMind, OneOffice

\* What a step that decides nothing and carries out nothing keeps.
LEMMA MovedQuietly ==
  ASSUME IInv, TypeOK', NEW q \in Request, NEW to, NEW got, Moved(q, to, got),
         req[q].pc # "off", to \notin {"off", "act"},
         UNCHANGED <<came, hold, cache, exec, decided, effects>>,
         file' \in {file, "torn"},
         to = "open" => exec = "none",
         Sound => Deciding(q)' /\ Carrying(q)',
         Alone(q)'
  PROVE  IInv'
<1>1. \A o \in Request : Mine(o)' /\ Alone(o)'
  BY MovedMine, MovedAlone
<1>2. ASSUME Agreed' PROVE Sound'
  <2>1. Sound
    BY <1>2, SameCame DEF IInv
  <2>2. Stored' /\ Fresh' /\ Minded' /\ Effectual'
    BY <2>1 DEF Sound, Stored, Fresh, Minded, Effectual, Effect, OneOffice
  <2>3. \A o \in Request \ {q} : Deciding(o)' /\ Carrying(o)'
    BY <2>1 DEF Sound, Deciding, Carrying, Moved, Effect
  <2>4. QED
    BY <2>1, <2>2, <2>3 DEF Sound
<1>3. ASSUME Apart' PROVE Single'
  <2>1. Single
    BY <1>3, SameCame DEF IInv
  <2>2. First(q)' /\ \A o \in Request \ {q} : First(o)'
    BY <2>1 DEF Single, First, Moved
  <2>3. QED
    BY <2>1, <2>2 DEF Single
<1>4. QED
  BY <1>1, <1>2, <1>3 DEF IInv

\* Every request is marked, and stays where it is.
LEMMA OverlapMarks ==
  ASSUME TypeOK
  PROVE  /\ Overlapping \in [Request -> Asked]
         /\ \A q \in Request :
              /\ Overlapping[q].pc = req[q].pc
              /\ Overlapping[q].proc = req[q].proc
              /\ Overlapping[q].action = req[q].action
              /\ Overlapping[q].got = req[q].got
              /\ req[q].pc # "off" => Overlapping[q].overlaps
<1>1. \A q \in Request : req[q] \in Asked
  BY TypeParts
<1>2. \A q \in Request : [req[q] EXCEPT !.overlaps = (req[q].pc # "off")] \in Asked
  BY <1>1 DEF Asked
<1>3. Overlapping \in [Request -> Asked]
  BY <1>2 DEF Overlapping
<1>4. QED
  BY <1>1, <1>3 DEF Overlapping, Asked

\* The alarm row, where there is one, is given the status or the result of a request.
LEMMA AlarmTyped ==
  ASSUME TypeOK, NEW q \in Request,
         \/ alarm' = alarm
         \/ alarm' = [alarm EXCEPT !.approval = StatusOf(req[q].action)]
         \/ alarm' = [alarm EXCEPT !.execution = req[q].got]
  PROVE  alarm' \in AlarmType
<1>1. alarm \in AlarmType /\ req[q] \in Asked
  BY TypeParts
<1>2. StatusOf(req[q].action) \in OrderStatus /\ req[q].got \in Effects \cup {"none"}
  BY <1>1, StatusIsDecision DEF Asked, OrderStatus
<1>3. QED
  BY <1>1, <1>2 DEF AlarmType

-----------------------------------------------------------------------------
(* Every step keeps the types.                                             *)

LEMMA PipelineTypes ==
  ASSUME TypeOK, StoreAlarm \/ Conclude \/ Snapshot \/ TakeOver \/ \E p \in Proc : Resume(p)
  PROVE  TypeOK'
<1>1. /\ alarm \in AlarmType /\ run \in RunType /\ worker \in WorkerType
  BY TypeParts
<1>2. UNCHANGED <<came, hold, file, cache, exec, req, decided, effects, resolver, faults>>
  BY DEF StoreAlarm, Conclude, Snapshot, TakeOver, Resume, history, stores
<1>3. worker' \in WorkerType
  <2>1. CASE \E p \in Proc : Resume(p)
    <3>1. PICK p \in Proc, at \in {"tools", "store"} :
                 worker' = [at |-> at, proc |-> p, says |-> "auto"]
      BY <2>1 DEF Resume
    <3>2. QED
      BY <3>1 DEF WorkerType
  <2>2. CASE StoreAlarm \/ Conclude \/ Snapshot \/ TakeOver
    <3>1. worker' = worker \/ \E at \in {"tools", "snapshot", "gone"} :
                                worker' = [worker EXCEPT !.at = at]
      BY <2>2 DEF StoreAlarm, Conclude, Snapshot, TakeOver, Goes
    <3>2. QED
      BY <1>1, <3>1 DEF WorkerType
  <2>3. QED
    BY <2>1, <2>2
<1>4. alarm' \in AlarmType
  <2>1. alarm' = alarm \/ (\E b \in BOOLEAN : alarm' =
                              [alarm EXCEPT !.there = b, !.approval = worker.says])
                       \/ alarm' = [alarm EXCEPT !.approval = worker.says]
    BY DEF StoreAlarm, Conclude, Snapshot, TakeOver, Resume, stores
  <2>2. worker.says \in OrderStatus \cup {"none", "auto"}
    BY <1>1 DEF WorkerType, OrderStatus
  <2>3. QED
    BY <1>1, <2>1, <2>2 DEF AlarmType
<1>5. run' \in RunType
  <2>1. CASE Conclude
    <3>1. PICK end \in {"waiting_approval", "succeeded", "manual_takeover"},
               was \in {"pending", "none"} :
                 run' = [run EXCEPT !.status = end, !.approval = was]
      BY <2>1 DEF Conclude
    <3>2. QED
      BY <1>1, <3>1 DEF RunType, OrderStatus
  <2>2. CASE TakeOver
    BY <1>1, <2>2 DEF TakeOver, RunType
  <2>3. CASE run' = run
    BY <1>1, <2>3
  <2>4. QED
    BY <2>1, <2>2, <2>3 DEF StoreAlarm, Snapshot, Resume, stores
<1>6. QED
  BY <1>2, <1>3, <1>4, <1>5, TypeParts
  DEF TypeOK, AlarmType, RunType, WorkerType, CameType, Asked, Pcs

LEMMA ResolveTypes ==
  ASSUME TypeOK, ResolveRead \/ ResolveWrite
  PROVE  TypeOK'
<1>1. CASE ResolveRead
  <2>1. req' \in [Request -> Asked] /\ run \in RunType
    BY <1>1, OverlapMarks, TypeParts DEF ResolveRead
  <2>2. resolver' \in OrderStatus \cup {"none", "idle"}
    BY <1>1, <2>1 DEF ResolveRead, RunType
  <2>3. UNCHANGED <<came, hold, file, cache, exec, decided, effects, alarm, run, worker,
                    faults>>
    BY <1>1 DEF ResolveRead, history, stores
  <2>4. QED
    BY <2>1, <2>2, <2>3, TypeParts DEF TypeOK, AlarmType, RunType, WorkerType, CameType, Asked, Pcs
<1>2. CASE ResolveWrite
  <2>1. run \in RunType /\ resolver \in OrderStatus \cup {"none"}
    BY <1>2, TypeParts DEF ResolveWrite
  <2>2. run' = run \/ \E end \in {"succeeded", "permanent_failed", "cancelled"} :
                        run' = [run EXCEPT !.status = end, !.approval = resolver]
    BY <1>2 DEF ResolveWrite
  <2>3. run' \in RunType
    BY <2>1, <2>2 DEF RunType
  <2>4. /\ UNCHANGED <<came, hold, file, cache, exec, req, decided, effects, alarm, worker,
                       faults>>
        /\ resolver' = "idle"
    BY <1>2 DEF ResolveWrite, history
  <2>5. QED
    BY <2>3, <2>4, TypeParts DEF TypeOK, AlarmType, RunType, WorkerType, CameType, Asked, Pcs
<1>3. QED
  BY <1>1, <1>2

LEMMA OpenTypes ==
  ASSUME TypeOK, NEW q \in Request, NEW p \in Proc, NEW action \in {"approve", "reject"},
         Open(q, p, action)
  PROVE  TypeOK'
<1>1. PICK pc \in {"handle", "persist"}, mark \in BOOLEAN :
        req' = [Overlapping EXCEPT ![q] = [pc |-> pc, proc |-> p, action |-> action,
                                           got |-> "none", overlaps |-> mark]]
  BY DEF Open
<1>2. req' \in [Request -> Asked]
  BY <1>1, OverlapMarks DEF Asked, Pcs
<1>3. UNCHANGED <<hold, file, cache, exec, decided, effects, alarm, run, worker, resolver,
                  faults>>
  BY DEF Open, stores
<1>4. came' \in CameType
  <2>1. came \in CameType
    BY TypeParts
  <2>2. QED
    BY <2>1 DEF Open, CameType, Quiet
<1>5. QED
  BY <1>2, <1>3, <1>4, TypeParts DEF TypeOK, AlarmType, RunType, WorkerType, CameType, Asked, Pcs

\* The steps of a request up to the actuator.
LEMMA DecideTypes ==
  ASSUME TypeOK, NEW q \in Request,
         Handle(q) \/ Write(q) \/ Persist(q) \/ Look(q) \/ Truncate(q)
  PROVE  TypeOK'
<1> DEFINE status == StatusOf(req[q].action)
<1>1. req[q] \in Asked /\ status \in {"approved", "rejected"} /\ req[q].proc \in Proc
  BY TypeParts, StatusIsDecision DEF Asked
<1>2. req' \in [Request -> Asked]
  <2>1. CASE Look(q) /\ exec # "none"
    <3>1. exec \in Effects
      BY <2>1, TypeParts DEF Look, Existing
    <3>2. QED
      BY <2>1, <3>1, GotMoves DEF Look, Existing, Pcs, Moved
  <2>2. CASE Look(q) /\ exec = "none"
    BY <2>2, StepMoves DEF Look, Existing, Pcs, Moved
  <2>3. CASE Handle(q) \/ Write(q) \/ Persist(q) \/ Truncate(q)
    BY <2>3, StepMoves DEF Handle, Write, Persist, Truncate, Pcs, Moved
  <2>4. QED
    BY <2>1, <2>2, <2>3
<1>3. alarm' \in AlarmType
  BY AlarmTyped DEF Handle, Write, Persist, Look, Truncate, stores
<1> HIDE DEF status
<1>4. /\ file' \in {file, "torn", status}
      /\ cache' = cache \/ cache' = [cache EXCEPT ![req[q].proc] = status]
      /\ exec' \in {exec, "torn"}
      /\ decided' \in {decided, status}
      /\ UNCHANGED <<came, hold, run, worker, resolver, effects, faults>>
  BY DEF Handle, Write, Persist, Look, Truncate, Existing, stores, history, status
<1>5. cache' \in [Proc -> OrderStatus \cup {"none"}]
  BY <1>1, <1>4, TypeParts DEF OrderStatus
<1>6. QED
  BY <1>1, <1>2, <1>3, <1>4, <1>5, TypeParts
  DEF TypeOK, AlarmType, RunType, WorkerType, CameType, Asked, Pcs, OrderStatus

\* The steps from the actuator on.
LEMMA CarryTypes ==
  ASSUME TypeOK, NEW q \in Request, Act(q) \/ Record(q) \/ Patch(q) \/ Close(q)
  PROVE  TypeOK'
<1> DEFINE status == StatusOf(req[q].action)
           effect == Effect(status)
           got == req[q].got
<1>1. /\ req[q] \in Asked /\ run \in RunType /\ effect \in Effects
      /\ status \in OrderStatus /\ got \in Effects \cup {"none"}
  BY TypeParts, StatusIsDecision, EffectType DEF Asked, OrderStatus
<1>2. req' \in [Request -> Asked]
  <2>1. CASE Act(q)
    BY <1>1, <2>1, GotMoves DEF Act, Pcs, Moved
  <2>2. CASE Record(q) \/ Patch(q)
    BY <2>2, StepMoves DEF Record, Patch, Pcs, Moved
  <2>3. CASE Close(q)
    BY <2>3, ClosedThins DEF Close, Thinned
  <2>4. QED
    BY <2>1, <2>2, <2>3
<1>3. alarm' \in AlarmType
  BY AlarmTyped DEF Act, Record, Patch, Close
<1> HIDE DEF status, effect, got
<1>4. run' \in RunType
  <2>1. \/ run' = run
        \/ run' = [run EXCEPT !.approval = status, !.execution = got]
        \/ \E to \in {"succeeded", "cancelled"} : run' = [run EXCEPT !.status = to]
    BY DEF Act, Record, Patch, Close, RunResult, status, got
  <2>2. QED
    BY <1>1, <2>1 DEF RunType
<1>5. /\ exec' \in {exec, effect, "torn"}
      /\ effects' = effects \/ effects' = Append(effects, effect)
      /\ UNCHANGED <<came, hold, file, cache, worker, resolver, decided, faults>>
  BY DEF Act, Record, Patch, Close, history, status, effect
<1>6. effects' \in Seq(Effects)
  BY <1>1, <1>5, TypeParts
<1>7. QED
  BY <1>1, <1>2, <1>3, <1>4, <1>5, <1>6, TypeParts
  DEF TypeOK, AlarmType, RunType, WorkerType, CameType, Asked, Pcs

LEMMA DeathTypes ==
  ASSUME TypeOK, (\E q \in Request : Dropped(q)) \/ \E p \in Proc : Crash(p)
  PROVE  TypeOK'
<1>1. CASE \E q \in Request : Dropped(q)
  <2>1. req' \in [Request -> Asked]
    BY <1>1, ClosedThins DEF Dropped, Thinned
  <2>2. faults' \in 0..MaxFaults
    BY <1>1, FaultBound, TypeParts DEF Dropped
  <2>3. UNCHANGED <<came, hold, file, cache, alarm, exec, run, worker, resolver, decided,
                    effects>>
    BY <1>1 DEF Dropped, stores, history
  <2>4. QED
    BY <2>1, <2>2, <2>3, TypeParts DEF TypeOK, AlarmType, RunType, WorkerType, CameType, Asked, Pcs
<1>2. CASE \E p \in Proc : Crash(p)
  <2>1. PICK p \in Proc : Crash(p)
    BY <1>2
  <2>2. faults' \in 0..MaxFaults
    BY <2>1, FaultBound DEF Crash
  <2>3. /\ cache' = [cache EXCEPT ![p] = "none"]
        /\ req' = [q \in Request |-> IF req[q].proc = p THEN Off ELSE req[q]]
        /\ worker' = worker \/ worker' = [worker EXCEPT !.at = "gone"]
        /\ UNCHANGED <<came, hold, file, alarm, exec, run, resolver, decided, effects>>
    BY <2>1 DEF Crash, history
  <2>4. /\ cache' \in [Proc -> OrderStatus \cup {"none"}]
        /\ req' \in [Request -> Asked] /\ worker' \in WorkerType
    BY <2>3, OffIsAsked, TypeParts DEF WorkerType
  <2>5. QED
    BY <2>2, <2>3, <2>4, TypeParts DEF TypeOK, AlarmType, RunType, WorkerType, CameType, Asked, Pcs
<1>3. QED
  BY <1>1, <1>2

LEMMA TypeInductive == TypeOK /\ [Next]_vars => TypeOK'
<1> SUFFICES ASSUME TypeOK, [Next]_vars PROVE TypeOK'
  OBVIOUS
<1>1. CASE UNCHANGED vars
  BY <1>1, TypeParts DEF vars, stores, history, TypeOK, AlarmType, RunType, WorkerType,
     CameType, Asked, Pcs
<1>2. CASE Next
  BY <1>2, PipelineTypes, ResolveTypes, OpenTypes, DecideTypes, CarryTypes, DeathTypes
  DEF Next, Serve
<1>3. QED
  BY <1>1, <1>2

LEMMA InitTypes == Init => TypeOK
<1> SUFFICES ASSUME Init PROVE TypeOK
  OBVIOUS
<1>1. /\ cache \in [Proc -> OrderStatus \cup {"none"}]
      /\ alarm \in AlarmType /\ run \in RunType /\ worker \in WorkerType
  BY ApprovalAssumption DEF Init, OrderStatus, AlarmType, RunType, WorkerType
<1>2. came \in CameType /\ effects \in Seq(Effects)
  BY DEF Init, CameType
<1>3. QED
  BY <1>1, <1>2, OffIsAsked, ApprovalAssumption, TypeParts DEF Init, OrderStatus

-----------------------------------------------------------------------------
(* The pipeline, recovery and the operator of the run.                     *)

\* While somebody else is at the run no request is alone.
NobodyAlone == \A q \in Request : req[q].pc # "off" => req[q].overlaps

LEMMA BusyRun ==
  ASSUME IInv, worker.at # "gone" \/ run.status = "executing" \/ resolver # "idle"
  PROVE  NobodyAlone
<1>1. \A q \in Request : req[q] \in Asked
  BY TypeParts DEF IInv
<1>2. QED
  BY <1>1 DEF IInv, Alone, NobodyAlone, Asked

\* What a step keeps that moves no request and touches no file.
LEMMA OutsideKeeps ==
  ASSUME IInv, TypeOK',
         UNCHANGED <<came, hold, file, cache, exec, decided, effects>>,
         req' \in [Request -> Asked],
         \A q \in Request : /\ req'[q].pc = req[q].pc
                            /\ req'[q].proc = req[q].proc
                            /\ req'[q].action = req[q].action
                            /\ req'[q].got = req[q].got
                            /\ req[q].pc # "off" => req'[q].overlaps
  PROVE  IInv'
<1>1. \A q \in Request : Mine(q)' /\ Alone(q)'
  BY DEF IInv, Mine, Alone, OthersOff
<1>2. ASSUME Sound PROVE Sound'
  <2>1. Stored' /\ Fresh' /\ Minded' /\ Effectual'
    BY <1>2 DEF Sound, Stored, Fresh, Minded, Effectual, Effect, OneOffice
  <2>2. \A q \in Request : Deciding(q)' /\ Carrying(q)'
    BY <1>2 DEF Sound, Deciding, Carrying, Effect
  <2>3. QED
    BY <2>1, <2>2 DEF Sound
<1>3. ASSUME Single PROVE Single'
  BY <1>3 DEF Single, First
<1>4. QED
  BY <1>1, <1>2, <1>3, SameCame DEF IInv

LEMMA PipelineKeeps ==
  ASSUME IInv, TypeOK',
         StoreAlarm \/ Conclude \/ Snapshot \/ TakeOver \/ \E p \in Proc : Resume(p)
  PROVE  IInv'
<1>1. NobodyAlone
  BY BusyRun DEF StoreAlarm, Conclude, Snapshot, TakeOver, Resume
<1>2. UNCHANGED <<came, hold, file, cache, exec, req, decided, effects, resolver, faults>>
  BY DEF StoreAlarm, Conclude, Snapshot, TakeOver, Resume, history, stores
<1>3. req \in [Request -> Asked]
  BY TypeParts DEF IInv
<1>4. QED
  BY <1>1, <1>2, <1>3, OutsideKeeps DEF NobodyAlone

LEMMA ResolveWriteKeeps ==
  ASSUME IInv, TypeOK', ResolveWrite
  PROVE  IInv'
<1>1. UNCHANGED <<came, hold, file, cache, exec, req, decided, effects>>
  BY DEF ResolveWrite, history
<1>2. NobodyAlone /\ req \in [Request -> Asked]
  BY BusyRun, TypeParts DEF IInv, ResolveWrite
<1>3. QED
  BY <1>1, <1>2, OutsideKeeps DEF NobodyAlone

LEMMA ResolveReadKeeps ==
  ASSUME IInv, TypeOK', ResolveRead
  PROVE  IInv'
<1>1. req' = Overlapping /\ UNCHANGED <<came, hold, file, cache, exec, decided, effects>>
  BY DEF ResolveRead, history, stores
<1>2. TypeOK
  BY DEF IInv
<1>3. QED
  BY <1>1, <1>2, OverlapMarks, OutsideKeeps

-----------------------------------------------------------------------------
(* The steps of a request.                                                 *)

\* Operators who agree with all who came before them did so before.
LEMMA OpenAgreed ==
  ASSUME TypeOK, NEW q \in Request, NEW p \in Proc, NEW action \in {"approve", "reject"},
         Open(q, p, action)
  PROVE  /\ came'.asked = came.asked \cup {action} /\ came'.at = came.at \cup {p}
         /\ came'.alone = (came.alone /\ Quiet)
         /\ OneMind' => OneMind
         /\ OneOffice' => OneOffice
         /\ Agreed' => Agreed
         /\ Apart' => Apart
<1>1. came \in CameType
  BY TypeParts
<1>2. /\ came'.asked = came.asked \cup {action} /\ came'.at = came.at \cup {p}
      /\ came'.alone = (came.alone /\ Quiet)
  BY <1>1 DEF Open, CameType
<1>3. (OneMind' => OneMind) /\ (OneOffice' => OneOffice)
  BY <1>2 DEF OneMind, OneOffice
<1>4. QED
  BY <1>2, <1>3 DEF Agreed, Apart

\* An order is taken up by an operator who agrees with what was decided.
LEMMA OpenDecides ==
  ASSUME TypeOK, Sound, NEW q \in Request, NEW p \in Proc,
         NEW action \in {"approve", "reject"}, Open(q, p, action), Agreed'
  PROVE  /\ Loaded(p) = "pending" => decided \in {"none", StatusOf(action)}
         /\ Loaded(p) # "pending" => decided = StatusOf(action)
<1>1. Accepts(Loaded(p), action)
  BY DEF Open
<1>2. /\ came'.asked = came.asked \cup {action} /\ came'.at = came.at \cup {p}
      /\ came'.alone = (came.alone /\ Quiet)
  BY OpenAgreed
<1>3. CASE Loaded(p) = "pending" /\ OneMind'
  <2>1. \A a \in came.asked : a = action
    BY <1>2, <1>3 DEF OneMind
  <2>2. QED
    BY <1>3, <2>1 DEF Sound, Minded
<1>4. CASE Loaded(p) = "pending" /\ came'.alone /\ OneOffice'
  <2>1. came.alone /\ OneOffice
    BY <1>2, <1>4, OpenAgreed
  <2>2. came.at # {} => p \in came.at
    BY <1>2, <1>4 DEF OneOffice
  <2>3. cache[p] = "pending" \/ file = "pending"
    BY <1>4 DEF Loaded
  <2>4. decided = "none"
    BY <2>1, <2>2, <2>3 DEF Sound, Minded, Fresh
  <2>5. QED
    BY <1>4, <2>4
<1>5. CASE Loaded(p) # "pending"
  <2>1. Loaded(p) = StatusOf(action) /\ StatusOf(action) \in {"approved", "rejected"}
    BY <1>1, <1>5, StatusIsDecision DEF Accepts
  <2>2. QED
    BY <1>5, <2>1 DEF Sound, Stored, Loaded
<1>6. QED
  BY <1>3, <1>4, <1>5 DEF Agreed

\* An order that looks pending to the operators of one process still is.
LEMMA OpenFresh ==
  ASSUME TypeOK, Sound, NEW q \in Request, NEW p \in Proc,
         NEW action \in {"approve", "reject"}, Open(q, p, action)
  PROVE  Fresh' /\ Minded'
<1>1. UNCHANGED <<file, cache, decided>>
  BY DEF Open, stores
<1>2. /\ came'.asked = came.asked \cup {action} /\ came'.at = came.at \cup {p}
      /\ came'.alone = (came.alone /\ Quiet)
  BY OpenAgreed
<1>3. Minded'
  BY <1>1, <1>2 DEF Sound, Minded
<1>4. ASSUME came'.alone, OneOffice', file = "pending" PROVE decided = "none"
  BY <1>2, <1>4, OpenAgreed DEF Sound, Fresh
<1>5. ASSUME came'.alone, OneOffice', NEW o \in came'.at, cache[o] = "pending"
      PROVE  decided = "none"
  <2>1. came.alone /\ OneOffice
    BY <1>2, <1>5, OpenAgreed
  <2>2. came.at = {} \/ o \in came.at
    BY <1>2, <1>5 DEF OneOffice
  <2>3. QED
    BY <1>5, <2>1, <2>2 DEF Sound, Fresh, Minded
<1>6. Fresh'
  BY <1>1, <1>4, <1>5 DEF Fresh
<1>7. QED
  BY <1>3, <1>6

LEMMA OpenKeeps ==
  ASSUME IInv, TypeOK', NEW q \in Request, NEW p \in Proc, NEW action \in {"approve", "reject"},
         Open(q, p, action)
  PROVE  IInv'
<1> DEFINE mark == ~ Quiet \/ worker.at # "gone" \/ resolver # "idle"
                     \/ run.status = "executing"
           new == [pc |-> IF Loaded(p) = "pending" THEN "handle" ELSE "persist",
                   proc |-> p, action |-> action, got |-> "none", overlaps |-> mark]
<1>1. /\ req[q].pc = "off"
      /\ req' = [Overlapping EXCEPT ![q] = new]
      /\ UNCHANGED <<hold, file, cache, exec, decided, effects, alarm, run, worker,
                     resolver, faults>>
  BY DEF Open, stores
<1>2. new \in Asked /\ new.pc \in {"handle", "persist"} /\ new.proc = p
        /\ new.action = action /\ new.overlaps = mark
        /\ (new.pc = "handle" <=> Loaded(p) = "pending")
  BY DEF Asked, Pcs
<1> HIDE DEF new
<1>3. /\ req' \in [Request -> Asked] /\ req'[q] = new
      /\ \A o \in Request \ {q} :
           /\ req'[o].pc = req[o].pc
           /\ req'[o].proc = req[o].proc
           /\ req'[o].action = req[o].action
           /\ req'[o].got = req[o].got
           /\ req[o].pc # "off" => req'[o].overlaps
  BY <1>1, <1>2, OverlapMarks DEF IInv
<1>4. /\ came'.asked = came.asked \cup {action} /\ came'.at = came.at \cup {p}
      /\ came'.alone = (came.alone /\ Quiet)
      /\ Agreed' => Agreed
      /\ Apart' => Apart
  BY OpenAgreed DEF IInv
<1>5. \A o \in Request : Mine(o)'
  <2>1. Mine(q)'
    BY <1>2, <1>3, <1>4 DEF Mine, OthersOff, Quiet
  <2>2. \A o \in Request \ {q} : Mine(o)'
    BY <1>1, <1>3, <1>4 DEF IInv, Mine, OthersOff, Quiet
  <2>3. QED
    BY <2>1, <2>2
<1>6. \A o \in Request : Alone(o)'
  <2>1. Alone(q)'
    BY <1>1, <1>2, <1>3 DEF Alone, OthersOff, Quiet
  <2>2. \A o \in Request \ {q} : Alone(o)'
    BY <1>3 DEF Alone
  <2>3. QED
    BY <2>1, <2>2
<1>7. ASSUME Agreed' PROVE Sound'
  <2>1. Sound /\ TypeOK
    BY <1>4, <1>7 DEF IInv
  <2>2. Fresh' /\ Minded'
    BY <2>1, OpenFresh
  <2>3. Stored' /\ Effectual'
    BY <1>1, <2>1 DEF Sound, Stored, Effectual, Effect
  <2>4. Deciding(q)' /\ Carrying(q)'
    BY <1>1, <1>2, <1>3, <1>7, <2>1, OpenDecides DEF Deciding, Carrying
  <2>5. \A o \in Request \ {q} : Deciding(o)' /\ Carrying(o)'
    BY <1>1, <1>3, <2>1 DEF Sound, Deciding, Carrying, Effect
  <2>6. QED
    BY <2>2, <2>3, <2>4, <2>5 DEF Sound
<1>8. ASSUME Apart' PROVE Single'
  <2>1. Single
    BY <1>4, <1>8 DEF IInv
  <2>2. First(q)' /\ \A o \in Request \ {q} : First(o)'
    BY <1>1, <1>2, <1>3, <2>1 DEF Single, First
  <2>3. QED
    BY <1>1, <2>1, <2>2 DEF Single
<1>9. QED
  BY <1>5, <1>6, <1>7, <1>8 DEF IInv

LEMMA HandleKeeps ==
  ASSUME IInv, TypeOK', NEW q \in Request, Handle(q)
  PROVE  IInv'
<1>1. /\ req[q].pc = "handle" /\ file' = "torn" /\ Step(q, "write")
      /\ UNCHANGED <<came, hold, cache, alarm, exec, run, worker, resolver, decided,
                     effects, faults>>
  BY DEF Handle, history
<1>2. Moved(q, "write", req[q].got)
  BY <1>1, StepMoves DEF IInv, Pcs
<1>3. (Sound => Deciding(q)' /\ Carrying(q)') /\ Alone(q)'
  BY <1>1, <1>2 DEF IInv, Sound, Deciding, Carrying, Alone, Moved, OthersOff
<1>4. QED
  BY <1>1, <1>2, <1>3, MovedQuietly

\* As long as the operators agree, the write decides what nobody has decided otherwise.
LEMMA WriteSounds ==
  ASSUME IInv, Sound, Agreed, NEW q \in Request, Write(q)
  PROVE  Sound'
<1> DEFINE status == StatusOf(req[q].action)
           p == req[q].proc
<1>1. /\ req[q].pc = "write" /\ file' = status /\ cache' = [cache EXCEPT ![p] = status]
      /\ decided' = status /\ Step(q, "persist")
      /\ UNCHANGED <<came, hold, alarm, exec, run, worker, resolver, effects, faults>>
  BY DEF Write
<1>2. Moved(q, "persist", req[q].got)
  BY <1>1, StepMoves DEF IInv, Pcs
<1>3. /\ req[q] \in Asked /\ p \in Proc /\ cache \in [Proc -> OrderStatus \cup {"none"}]
      /\ status \in {"approved", "rejected"}
      /\ req[q].action \in came.asked /\ p \in came.at
      /\ decided \in {"none", status}
  BY <1>1, TypeParts, StatusIsDecision DEF IInv, Asked, Mine, Sound, Deciding
<1> HIDE DEF status, p
<1>4. cache' \in [Proc -> OrderStatus \cup {"none"}]
        /\ cache'[p] = status /\ \A o \in Proc \ {p} : cache'[o] = cache[o]
  BY <1>1, <1>3 DEF OrderStatus
<1>5. Stored'
  BY <1>1, <1>3, <1>4 DEF Sound, Stored
<1>6. Fresh'
  <2> SUFFICES ASSUME OneOffice, NEW o \in came.at PROVE cache'[o] # "pending"
    BY <1>1, <1>3 DEF Fresh, OneOffice
  <2>1. o = p
    BY <1>3 DEF OneOffice
  <2>2. QED
    BY <1>3, <1>4, <2>1
<1>7. Minded'
  BY <1>1, <1>3 DEF Minded, status, StatusOf
<1>8. Effectual'
  BY <1>1, <1>3 DEF Sound, Effectual, Effect
<1>9. Deciding(q)' /\ Carrying(q)'
  BY <1>1, <1>2 DEF Deciding, Carrying, Moved, status
<1>10. ASSUME NEW o \in Request \ {q} PROVE Deciding(o)' /\ Carrying(o)'
  <2>1. req'[o] = req[o]
    BY <1>2 DEF Moved
  <2>2. req[o].pc # "off" => req[o].action = req[q].action
    <3>1. came.alone => req[o].pc = "off"
      BY <1>1 DEF IInv, Mine, OthersOff
    <3>2. OneMind /\ req[o].pc # "off" => req[o].action = req[q].action
      BY <1>3, SameMind DEF IInv, Mine
    <3>3. QED
      BY <3>1, <3>2 DEF Agreed
  <2>3. Deciding(o)'
    BY <1>1, <2>1, <2>2 DEF Deciding, status
  <2>4. Carrying(o)'
    BY <1>1, <2>1 DEF Sound, Carrying, Effect
  <2>5. QED
    BY <2>3, <2>4
<1>11. QED
  BY <1>5, <1>6, <1>7, <1>8, <1>9, <1>10 DEF Sound

LEMMA WriteKeeps ==
  ASSUME IInv, TypeOK', NEW q \in Request, Write(q)
  PROVE  IInv'
<1>1. /\ req[q].pc = "write" /\ Step(q, "persist")
      /\ UNCHANGED <<came, hold, alarm, exec, run, worker, resolver, effects, faults>>
  BY DEF Write
<1>2. Moved(q, "persist", req[q].got)
  BY <1>1, StepMoves DEF IInv, Pcs
<1>3. \A o \in Request : Mine(o)'
  BY <1>1, <1>2, MovedMine
<1>4. Alone(q)'
  BY <1>1, <1>2 DEF IInv, Alone, Moved, OthersOff
<1>5. \A o \in Request : Alone(o)'
  BY <1>1, <1>2, <1>4, MovedAlone
<1>6. Agreed' => Sound'
  BY <1>1, SameCame, WriteSounds DEF IInv
<1>7. ASSUME Apart' PROVE Single'
  <2>1. Single
    BY <1>1, <1>7, SameCame DEF IInv
  <2>2. QED
    BY <1>1, <1>2, <2>1 DEF Single, First, Moved
<1>8. QED
  BY <1>3, <1>5, <1>6, <1>7 DEF IInv

LEMMA PersistKeeps ==
  ASSUME IInv, TypeOK', NEW q \in Request, Persist(q)
  PROVE  IInv'
<1>1. /\ req[q].pc = "persist" /\ Step(q, "look")
      /\ alarm' = IF alarm.there THEN [alarm EXCEPT !.approval = StatusOf(req[q].action)]
                                 ELSE alarm
      /\ UNCHANGED <<came, hold, file, cache, exec, run, worker, resolver, decided,
                     effects, faults>>
  BY DEF Persist, history
<1>2. Moved(q, "look", req[q].got)
  BY <1>1, StepMoves DEF IInv, Pcs
<1>3. alarm' \in AlarmType /\ alarm \in AlarmType
  BY <1>1, AlarmTyped, TypeParts DEF IInv
<1>4. alarm'.there => alarm'.approval = StatusOf(req[q].action)
  BY <1>1, <1>3 DEF AlarmType
<1>5. Sound => Deciding(q)' /\ Carrying(q)'
  BY <1>1, <1>2 DEF Sound, Deciding, Carrying, Moved
<1>6. Alone(q)'
  BY <1>1, <1>2, <1>4 DEF IInv, Alone, Moved, OthersOff
<1>7. QED
  BY <1>1, <1>2, <1>5, <1>6, MovedQuietly

LEMMA LookKeeps ==
  ASSUME IInv, TypeOK', NEW q \in Request, Look(q)
  PROVE  IInv'
<1>1. /\ req[q].pc = "look" /\ exec # "torn"
      /\ UNCHANGED <<came, hold, file, cache, alarm, exec, run, worker, resolver, decided,
                     effects, faults>>
  BY DEF Look, Existing, history, stores
<1>2. CASE exec = "none"
  <2>1. Moved(q, "open", req[q].got)
    BY <1>2, StepMoves DEF IInv, Look, Existing, Pcs
  <2>2. Sound => Deciding(q)' /\ Carrying(q)'
    BY <1>1, <2>1 DEF Sound, Deciding, Carrying, Moved
  <2>3. Alone(q)'
    BY <1>1, <2>1 DEF IInv, Alone, Moved, OthersOff
  <2>4. QED
    BY <1>1, <1>2, <2>1, <2>2, <2>3, MovedQuietly
<1>3. CASE exec # "none"
  <2>1. exec \in Effects
    BY <1>1, <1>3, TypeParts DEF IInv
  <2>2. req' = [req EXCEPT ![q].pc = "record", ![q].got = exec]
    BY <1>3 DEF Look, Existing
  <2>3. Moved(q, "record", exec)
    BY <2>1, <2>2, GotMoves DEF IInv, Pcs
  <2>4. ASSUME Sound PROVE Deciding(q)' /\ Carrying(q)'
    <3>1. decided = StatusOf(req[q].action) /\ exec = Effect(decided)
      BY <1>1, <2>1, <2>4 DEF Sound, Deciding, Effectual
    <3>2. QED
      BY <1>1, <2>3, <3>1 DEF Deciding, Carrying, Moved, Effect
  <2>5. Alone(q)'
    BY <1>1, <2>3 DEF IInv, Alone, Moved, OthersOff
  <2>6. QED
    BY <1>1, <2>3, <2>4, <2>5, MovedQuietly
<1>4. QED
  BY <1>2, <1>3

\* The file is emptied, and nobody else is about to do so where requests come one after
\* the other.
LEMMA TruncateKeeps ==
  ASSUME IInv, TypeOK', NEW q \in Request, Truncate(q)
  PROVE  IInv'
<1>1. /\ req[q].pc = "open" /\ exec' = "torn" /\ Step(q, "act")
      /\ UNCHANGED <<came, hold, file, cache, alarm, run, worker, resolver, decided,
                     effects, faults>>
  BY DEF Truncate, history
<1>2. Moved(q, "act", req[q].got)
  BY <1>1, StepMoves DEF IInv, Pcs
<1>3. \A o \in Request : Mine(o)'
  BY <1>1, <1>2, MovedMine
<1>4. Alone(q)'
  BY <1>1, <1>2 DEF IInv, Alone, Moved, OthersOff
<1>5. \A o \in Request : Alone(o)'
  BY <1>1, <1>2, <1>4, MovedAlone
<1>6. "torn" \notin Effects /\ "none" \notin Effects
  BY DEF Effects
<1>7. ASSUME Agreed' PROVE Sound'
  <2>1. Sound
    BY <1>1, <1>7, SameCame DEF IInv
  <2>2. Stored' /\ Fresh' /\ Minded' /\ Effectual'
    BY <1>1, <1>6, <2>1 DEF Sound, Stored, Fresh, Minded, Effectual, OneOffice
  <2>3. \A o \in Request : Deciding(o)' /\ Carrying(o)'
    BY <1>1, <1>2, <2>1 DEF Sound, Deciding, Carrying, Moved, Effect
  <2>4. QED
    BY <2>2, <2>3 DEF Sound
<1>8. ASSUME Apart' PROVE Single'
  <2>1. Single /\ came.alone
    BY <1>1, <1>8, SameCame DEF IInv, Apart
  <2>2. effects = <<>> /\ \A o \in Request \ {q} : req[o].pc = "off"
    BY <1>1, <1>6, <2>1 DEF IInv, Single, First, Mine, OthersOff
  <2>3. \A o \in Request : First(o)'
    BY <1>1, <1>2, <2>2 DEF First, Moved
  <2>4. QED
    BY <1>1, <1>6, <2>2, <2>3 DEF Single
<1>9. QED
  BY <1>3, <1>5, <1>7, <1>8 DEF IInv

\* What the actuator does and where the request is then.
LEMMA ActMoves ==
  ASSUME IInv, NEW q \in Request, Act(q)
  PROVE  /\ req[q].pc = "act"
         /\ Moved(q, "record", Effect(StatusOf(req[q].action)))
         /\ exec' \in {Effect(StatusOf(req[q].action)), "torn"}
         /\ exec = "torn" => exec' = Effect(StatusOf(req[q].action))
         /\ effects' = Append(effects, Effect(StatusOf(req[q].action)))
         /\ UNCHANGED <<came, hold, file, cache, alarm, run, worker, resolver, decided,
                        faults>>
<1> DEFINE effect == Effect(StatusOf(req[q].action))
<1>1. effect \in Effects
  BY EffectType
<1>2. req' = [req EXCEPT ![q].pc = "record", ![q].got = effect]
  BY DEF Act
<1>3. exec' \in IF exec \in {"torn", effect} THEN {effect} ELSE {effect, "torn"}
  BY DEF Act
<1> HIDE DEF effect
<1>4. Moved(q, "record", effect)
  BY <1>1, <1>2, GotMoves DEF IInv, Pcs
<1>5. exec' \in {effect, "torn"} /\ (exec = "torn" => exec' = effect)
  BY <1>3
<1>6. QED
  BY <1>4, <1>5 DEF Act, effect

\* The result the actuator writes is the one the decision calls for.
LEMMA ActSounds ==
  ASSUME IInv, Sound, NEW q \in Request, Act(q)
  PROVE  Sound' /\ decided = StatusOf(req[q].action) /\ decided # "none"
<1>1. req[q] \in Asked /\ req[q].pc = "act"
  BY ActMoves, TypeParts DEF IInv
<1>2. decided = StatusOf(req[q].action) /\ decided # "none"
  BY <1>1, StatusIsDecision DEF Sound, Deciding, Asked
<1>3. Stored' /\ Fresh' /\ Minded'
  BY ActMoves DEF Sound, Stored, Fresh, Minded, OneOffice
<1>4. Effectual'
  BY <1>2, ActMoves DEF Effectual, Effect, Effects
<1>5. ASSUME NEW o \in Request PROVE Deciding(o)' /\ Carrying(o)'
  <2>1. Moved(q, "record", Effect(StatusOf(req[q].action))) /\ UNCHANGED <<decided, hold>>
    BY ActMoves
  <2>2. CASE o = q
    BY <1>2, <2>1, <2>2 DEF Deciding, Carrying, Moved, Effect
  <2>3. CASE o # q
    BY <2>1, <2>3 DEF Sound, Deciding, Carrying, Moved, Effect
  <2>4. QED
    BY <2>2, <2>3
<1>6. QED
  BY <1>2, <1>3, <1>4, <1>5 DEF Sound

\* Where requests come one after the other it is the first result.
LEMMA ActFirst ==
  ASSUME IInv, Apart, NEW q \in Request, Act(q)
  PROVE  effects = <<>> /\ Single'
<1>1. Single /\ came.alone
  BY DEF IInv, Apart
<1>2. exec = "torn" /\ effects = <<>> /\ \A o \in Request \ {q} : req[o].pc = "off"
  BY <1>1, ActMoves DEF IInv, Single, First, Effects, Mine, OthersOff
<1>3. exec' \in Effects /\ effects' = <<exec'>>
  BY <1>2, ActMoves, EffectType
<1>4. \A o \in Request : First(o)'
  BY <1>2, ActMoves DEF First, Moved
<1>5. QED
  BY <1>2, <1>3, <1>4 DEF Single

LEMMA ActKeeps ==
  ASSUME IInv, TypeOK', NEW q \in Request, Act(q)
  PROVE  IInv'
<1>1. req[q].pc = "act" /\ came' = came
  BY ActMoves
<1>2. \A o \in Request : Mine(o)'
  BY <1>1, ActMoves, MovedMine
<1>3. Alone(q)'
  BY <1>1, ActMoves DEF IInv, Alone, Moved, OthersOff
<1>4. \A o \in Request : Alone(o)'
  BY <1>1, <1>3, ActMoves, MovedAlone
<1>5. QED
  BY <1>1, <1>2, <1>4, SameCame, ActSounds, ActFirst DEF IInv

LEMMA RecordKeeps ==
  ASSUME IInv, TypeOK', NEW q \in Request, Record(q)
  PROVE  IInv'
<1>1. /\ req[q].pc = "record" /\ Step(q, "patch")
      /\ alarm' = IF alarm.there THEN [alarm EXCEPT !.execution = req[q].got] ELSE alarm
      /\ UNCHANGED <<came, hold, file, cache, exec, run, worker, resolver, decided,
                     effects, faults>>
  BY DEF Record, history
<1>2. Moved(q, "patch", req[q].got)
  BY <1>1, StepMoves DEF IInv, Pcs
<1>3. alarm' \in AlarmType /\ alarm \in AlarmType
  BY <1>1, AlarmTyped, TypeParts DEF IInv
<1>4. alarm'.approval = alarm.approval /\ alarm'.there = alarm.there
        /\ (alarm'.there => alarm'.execution = req[q].got)
  BY <1>1, <1>3 DEF AlarmType
<1>5. Sound => Deciding(q)' /\ Carrying(q)'
  BY <1>1, <1>2 DEF Sound, Deciding, Carrying, Moved, Effect
<1>6. Alone(q)'
  BY <1>1, <1>2, <1>4 DEF IInv, Alone, Moved, OthersOff
<1>7. QED
  BY <1>1, <1>2, <1>5, <1>6, MovedQuietly

LEMMA PatchKeeps ==
  ASSUME IInv, TypeOK', NEW q \in Request, Patch(q)
  PROVE  IInv'
<1> DEFINE status == StatusOf(req[q].action)
           got == req[q].got
<1>1. /\ req[q].pc = "patch" /\ Step(q, "close")
      /\ run' = [run EXCEPT !.approval = status, !.execution = got]
      /\ UNCHANGED <<came, hold, file, cache, alarm, exec, worker, resolver, decided,
                     effects, faults>>
  BY DEF Patch, history
<1>2. Moved(q, "close", got)
  BY <1>1, StepMoves DEF IInv, Pcs
<1>3. run \in RunType /\ req[q] \in Asked
  BY TypeParts DEF IInv
<1>4. status \in OrderStatus /\ got \in Effects \cup {"none"}
  BY <1>3, StatusIsDecision DEF Asked, OrderStatus
<1> HIDE DEF status, got
<1>5. run'.approval = status /\ run'.execution = got /\ run'.status = run.status
  BY <1>1, <1>3, <1>4 DEF RunType
<1>6. Sound => Deciding(q)' /\ Carrying(q)'
  BY <1>1, <1>2 DEF Sound, Deciding, Carrying, Moved, Effect, got
<1>7. Alone(q)'
  BY <1>1, <1>2, <1>5 DEF IInv, Alone, Moved, OthersOff, status, got
<1>8. QED
  BY <1>1, <1>2, <1>6, <1>7, MovedQuietly

-----------------------------------------------------------------------------
(* The end of a request.                                                   *)

LEMMA ThinnedKeeps ==
  ASSUME IInv, Thinned, TypeOK',
         UNCHANGED <<came, hold, file, exec, decided, effects>>,
         \A p \in Proc : cache'[p] \in {cache[p], "none"},
         \A q \in Request : Alone(q)'
  PROVE  IInv'
<1>1. \A q \in Request : Mine(q)'
  BY DEF IInv, Mine, OthersOff, Thinned
<1>2. ASSUME Sound PROVE Sound'
  <2>1. Stored' /\ Minded' /\ Effectual'
    BY <1>2 DEF Sound, Stored, Minded, Effectual, Effect
  <2>2. came.at \subseteq Proc
    BY TypeParts DEF IInv, CameType
  <2>3. Fresh'
    BY <1>2, <2>2 DEF Sound, Fresh, OneOffice
  <2>4. \A q \in Request : Deciding(q)' /\ Carrying(q)'
    BY <1>2 DEF Sound, Deciding, Carrying, Effect, Thinned
  <2>5. QED
    BY <2>1, <2>3, <2>4 DEF Sound
<1>3. Single => Single'
  BY DEF Single, First, Thinned
<1>4. QED
  BY <1>1, <1>2, <1>3, SameCame DEF IInv

LEMMA CloseKeeps ==
  ASSUME IInv, TypeOK', NEW q \in Request, Close(q)
  PROVE  IInv'
<1>1. /\ req[q].pc = "close" /\ Closed(q)
      /\ UNCHANGED <<came, hold, file, cache, alarm, exec, worker, resolver, decided,
                     effects, faults>>
  BY DEF Close, history
<1>2. Thinned
  BY <1>1, ClosedThins DEF IInv
<1>3. ASSUME NEW o \in Request PROVE Alone(o)'
  <2>1. req'[q].pc = "off"
    BY <1>1, OffIsAsked, TypeParts DEF IInv, Closed
  <2>2. o # q => req[o].pc = "off" \/ req[o].overlaps
    BY <1>1, TypeParts DEF IInv, Alone, OthersOff
  <2>3. QED
    BY <1>2, <2>1, <2>2 DEF Thinned, Alone
<1>4. QED
  BY <1>1, <1>2, <1>3, ThinnedKeeps, TypeParts DEF IInv

\* A request that dies leaves the others as alone as they were.
LEMMA LeftAlone ==
  ASSUME IInv, Thinned, UNCHANGED <<alarm, exec, run, resolver>>,
         worker'.at \in {worker.at, "gone"}
  PROVE  \A q \in Request : Alone(q)'
BY DEF IInv, Thinned, Alone, OthersOff

LEMMA DroppedKeeps ==
  ASSUME IInv, TypeOK', NEW q \in Request, Dropped(q)
  PROVE  IInv'
<1>1. /\ Closed(q)
      /\ UNCHANGED <<came, hold, file, cache, alarm, exec, run, worker, resolver, decided,
                     effects>>
  BY DEF Dropped, stores, history
<1>2. Thinned
  BY <1>1, ClosedThins DEF IInv
<1>3. QED
  BY <1>1, <1>2, LeftAlone, ThinnedKeeps, TypeParts DEF IInv

LEMMA CrashKeeps ==
  ASSUME IInv, TypeOK', NEW p \in Proc, Crash(p)
  PROVE  IInv'
<1>1. /\ cache' = [cache EXCEPT ![p] = "none"]
      /\ req' = [q \in Request |-> IF req[q].proc = p THEN Off ELSE req[q]]
      /\ worker' = worker \/ worker' = [worker EXCEPT !.at = "gone"]
      /\ UNCHANGED <<came, hold, file, alarm, exec, run, resolver, decided, effects>>
  BY DEF Crash, history
<1>2. /\ cache \in [Proc -> OrderStatus \cup {"none"}]
      /\ worker \in WorkerType
      /\ req \in [Request -> Asked]
  BY TypeParts DEF IInv
<1>3. Thinned
  BY <1>1, <1>2, OffIsAsked DEF Thinned
<1>4. worker'.at \in {worker.at, "gone"}
  BY <1>1, <1>2 DEF WorkerType
<1>5. \A o \in Proc : cache'[o] \in {cache[o], "none"}
  BY <1>1, <1>2
<1>6. QED
  BY <1>1, <1>3, <1>4, <1>5, LeftAlone, ThinnedKeeps

-----------------------------------------------------------------------------
(* The invariant holds.                                                    *)

LEMMA InitInv == Init => IInv
<1> SUFFICES ASSUME Init PROVE IInv
  OBVIOUS
<1>1. \A q \in Request : req[q].pc = "off"
  BY OffIsAsked DEF Init
<1>2. TypeOK
  BY InitTypes
<1>3. Stored /\ Fresh /\ Minded /\ Effectual
  BY DEF Init, Stored, Fresh, Minded, Effectual, Effects
<1>4. QED
  BY <1>1, <1>2, <1>3
  DEF IInv, Init, Mine, Sound, Single, First, Effects, Deciding, Carrying, Alone

LEMMA StutterKeeps == ASSUME IInv, TypeOK', UNCHANGED vars PROVE IInv'
<1>1. UNCHANGED <<came, hold, file, exec, decided, effects, cache, req, alarm, run, worker,
                  resolver>>
  BY DEF vars, stores, history
<1>2. Thinned /\ \A q \in Request : Alone(q)'
  BY <1>1, TypeParts DEF IInv, Thinned, Alone, OthersOff
<1>3. QED
  BY <1>1, <1>2, ThinnedKeeps

LEMMA Inductive == IInv /\ [Next]_vars => IInv'
<1> SUFFICES ASSUME IInv, [Next]_vars PROVE IInv'
  OBVIOUS
<1>1. TypeOK'
  BY TypeInductive DEF IInv
<1>2. CASE StoreAlarm \/ Conclude \/ Snapshot \/ TakeOver \/ \E p \in Proc : Resume(p)
  BY <1>1, <1>2, PipelineKeeps
<1>3. CASE ResolveRead \/ ResolveWrite
  BY <1>1, <1>3, ResolveReadKeeps, ResolveWriteKeeps
<1>4. CASE \E p \in Proc : Crash(p)
  BY <1>1, <1>4, CrashKeeps
<1>5. CASE \E q \in Request, p \in Proc, action \in {"approve", "reject"} : Open(q, p, action)
  BY <1>1, <1>5, OpenKeeps
<1>6. CASE \E q \in Request : Serve(q) \/ Dropped(q)
  BY <1>1, <1>6, HandleKeeps, WriteKeeps, PersistKeeps, LookKeeps, TruncateKeeps, ActKeeps,
     RecordKeeps, PatchKeeps, CloseKeeps, DroppedKeeps DEF Serve
<1>7. CASE UNCHANGED vars
  BY <1>1, <1>7, StutterKeeps
<1>8. QED
  BY <1>2, <1>3, <1>4, <1>5, <1>6, <1>7 DEF Next

LEMMA Invariant == Spec => []IInv
BY InitInv, Inductive, PTL DEF Spec

\* The types of the four stores, the pipeline, the operators and the requests.
THEOREM TypeCorrect == Spec => []TypeOK
BY InitTypes, TypeInductive, PTL DEF Spec

\* What Apart promises was promised before.
LEMMA ApartBefore ==
  ASSUME IInv, [Next]_vars, Apart'
  PROVE  Apart /\ Agreed
<1>1. CASE \E q \in Request, p \in Proc, action \in {"approve", "reject"} : Open(q, p, action)
  BY <1>1, OpenAgreed DEF IInv, Apart, Agreed
<1>2. CASE came' = came
  BY <1>2, SameCame DEF Apart, Agreed
<1>3. QED
  BY <1>1, <1>2
  DEF Next, Serve, StoreAlarm, Conclude, Snapshot, TakeOver, Resume, ResolveRead,
      ResolveWrite, Crash, Handle, Write, Persist, Look, Truncate, Act, Record, Patch,
      Close, Dropped, history, vars

\* Every step of the stores, the requests and the pipeline is a step of the order's
\* abstract life or leaves it alone.
LEMMA StepRefines ==
  ASSUME IInv, [Next]_vars, Apart'
  PROVE  Lifecycle!Next \/ UNCHANGED <<decided, effects>>
<1>1. Apart /\ Sound
  BY ApartBefore DEF IInv
<1>2. CASE \E q \in Request : Act(q)
  <2>1. PICK q \in Request : Act(q)
    BY <1>2
  <2>2. /\ decided = StatusOf(req[q].action) /\ decided # "none" /\ effects = <<>>
        /\ UNCHANGED <<hold, decided>>
        /\ effects' = Append(effects, Effect(decided))
    BY <1>1, <2>1, ActSounds, ActFirst, ActMoves
  <2>3. Effect(decided) = Lifecycle!Allowed[decided][hold]
    BY <2>2, TypeParts DEF IInv, Effect, Lifecycle!Allowed
  <2>4. effects' = <<Lifecycle!Allowed[decided][hold]>>
    BY <2>2, <2>3
  <2>5. Lifecycle!CarryOut
    BY <2>2, <2>4 DEF Lifecycle!CarryOut
  <2>6. QED
    BY <2>5 DEF Lifecycle!Next
<1>3. CASE \E q \in Request : Write(q)
  <2>1. PICK q \in Request : Write(q)
    BY <1>3
  <2>2. /\ decided' = StatusOf(req[q].action) /\ UNCHANGED <<hold, effects>>
        /\ decided \in {"none", StatusOf(req[q].action)}
    BY <1>1, <2>1 DEF Sound, Write, Deciding
  <2>3. StatusOf(req[q].action) \in Lifecycle!Decisions
    BY TypeParts, StatusIsDecision DEF IInv, Asked, Lifecycle!Decisions
  <2>4. QED
    BY <2>2, <2>3 DEF Lifecycle!Next, Lifecycle!Decide
<1>4. CASE UNCHANGED <<decided, effects>>
  BY <1>4
<1>5. QED
  BY <1>2, <1>3, <1>4
  DEF Next, Serve, StoreAlarm, Conclude, Snapshot, TakeOver, Resume, ResolveRead,
      ResolveWrite, Crash, Open, Handle, Persist, Look, Truncate, Record, Patch, Close,
      Dropped, history, vars

\* The refusal of approve and the stable execution id: an order whose requests come one
\* after the other, and if they disagree to one process, is decided once and carried out
\* once, as decided, through crashes, torn files, repeated requests, recovery and an
\* operator of the run, with any number of processes and requests.  Nothing is said of an
\* order once two of its requests were in flight together, or operators who disagree came
\* to two processes.
THEOREM Once == Spec => DecidedOnce
<1>1. Init => Lifecycle!Init
  BY DEF Init, Lifecycle!Init
<1>2. IInv /\ [Next]_vars
        => [Apart' => Lifecycle!Next \/ UNCHANGED <<decided, effects>>]_vars
  BY StepRefines
<1>3. QED
  BY <1>1, <1>2, Invariant, PTL DEF Spec, DecidedOnce

\* An answer 200 to a request that was in flight alone, with no pipeline and no operator of
\* the run at work, means that order, alarm row, execution and run agree, however many
\* requests overlapped and processes died before it, as long as all asked for the same, or
\* came one after the other to one process.
THEOREM OkAgrees == Spec => OkMeansStored
<1> DEFINE Agree(q) ==
      Close(q) /\ ~ req[q].overlaps /\ Agreed =>
        LET status == StatusOf(req[q].action)
        IN /\ decided = status
           /\ exec = Effect(status)
           /\ alarm.there => alarm.approval = status /\ alarm.execution = exec
           /\ run'.approval = status /\ run'.execution = exec
           /\ run'.status = RunResult(exec)
<1>1. IInv /\ [Next]_vars => \A q \in Request : Agree(q)
  <2> SUFFICES ASSUME IInv, NEW q \in Request, Close(q), ~ req[q].overlaps, Agreed
               PROVE  Agree(q)
    OBVIOUS
  <2>1. req[q].pc = "close" /\ run' = [run EXCEPT !.status = RunResult(req[q].got)]
          /\ run \in RunType
    BY TypeParts DEF IInv, Close
  <2>2. /\ decided = StatusOf(req[q].action)
        /\ req[q].got = Effect(decided)
    BY <2>1 DEF IInv, Sound, Deciding, Carrying
  <2>3. /\ alarm.there => alarm.approval = StatusOf(req[q].action)
                          /\ alarm.execution = req[q].got
        /\ run.approval = StatusOf(req[q].action) /\ run.execution = req[q].got
        /\ exec = req[q].got
    BY <2>1 DEF IInv, Alone
  <2>4. /\ run'.approval = run.approval /\ run'.execution = run.execution
        /\ run'.status = RunResult(req[q].got)
    BY <2>1 DEF RunType
  <2>5. QED
    BY <2>2, <2>3, <2>4
<1>2. IInv /\ [Next]_vars => [\A q \in Request : Agree(q)]_vars
  BY <1>1
<1>3. QED
  BY <1>2, Invariant, PTL DEF Spec, OkMeansStored
=============================================================================
