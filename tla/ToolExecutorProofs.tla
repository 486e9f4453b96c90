------------------------- MODULE ToolExecutorProofs -------------------------
(***************************************************************************)
(* Theorems about the tool executor, for any number of processes, threads, *)
(* keys and claims and any retry budgets.                                  *)
(***************************************************************************)
EXTENDS ToolExecutor, TLAPS

\* Between the INSERT of a key and the end of execute.
Working == {"call", "record", "recordWrite", "finish", "finishWrite"}

-----------------------------------------------------------------------------
(* Type correctness.                                                       *)

LEMMA InitType == Init => TypeOK
<1> SUFFICES ASSUME Init PROVE TypeOK
  OBVIOUS
<1>1. (CHOOSE k \in Key : TRUE) \in Key
  BY ExecutorAssumption
<1>2. key \in [Worker -> Key]
  BY <1>1 DEF Init
<1>3. outcome \in [Worker -> [Key -> Outcome]]
  BY DEF Init, NoOutcome, Outcome
<1>4. done \in [Key -> BOOLEAN] /\ live \in BOOLEAN
  BY Zenon DEF Init
<1>5. /\ epoch \in 0..MaxEpoch
      /\ token \in [Worker -> 0..MaxEpoch]
      /\ try \in [Worker -> Nat]
      /\ rowEpoch \in [Key -> 0..MaxEpoch]
      /\ calls \in [Key -> Nat]
  BY ExecutorAssumption DEF Init
<1>6. /\ pc \in [Worker -> PC]
      /\ res \in [Worker -> {"ok", "transient", "permanent"}]
      /\ rowStatus \in [Key -> {"none", "running", "succeeded", "failed"}]
  BY DEF Init, PC
<1>7. QED
  BY <1>2, <1>3, <1>4, <1>5, <1>6 DEF TypeOK

LEMMA NoOutcomeType == NoOutcome \in [Key -> Outcome]
BY DEF NoOutcome, Outcome

LEMMA AbortType ==
  ASSUME TypeOK, NEW w \in Worker, Abort(w)
  PROVE  TypeOK'
<1>1. outcome' \in [Worker -> [Key -> Outcome]]
  BY NoOutcomeType DEF Abort, TypeOK, Outcome
<1>2. QED
  BY <1>1, ExecutorAssumption
     DEF Abort, TypeOK, PC, Outcome, rowVars, handlerVars

LEMMA OutcomeType ==
  ASSUME TypeOK, NEW w \in Worker, NEW k \in Key, NEW o \in Outcome,
         outcome' = [outcome EXCEPT ![w][k] = o]
  PROVE  outcome' \in [Worker -> [Key -> Outcome]]
<1>1. [outcome[w] EXCEPT ![k] = o] \in [Key -> Outcome]
  BY DEF TypeOK, Outcome
<1>2. QED
  BY <1>1 DEF TypeOK, Outcome

LEMMA NextType == TypeOK /\ [Next]_vars => TypeOK'
<1> SUFFICES ASSUME TypeOK, [Next]_vars PROVE TypeOK'
  OBVIOUS
<1> USE ExecutorAssumption
<1>1. CASE UNCHANGED vars
  BY <1>1 DEF vars, runVars, threadVars, rowVars, handlerVars, TypeOK
<1>2. CASE Lapse
  BY <1>2 DEF Lapse, threadVars, rowVars, handlerVars, TypeOK
<1>3. ASSUME NEW w \in Worker, Claim(w) PROVE TypeOK'
  BY <1>3 DEF Claim, threadVars, rowVars, handlerVars, TypeOK
<1>4. ASSUME NEW p \in Proc, Crash(p) PROVE TypeOK'
  <2>1. outcome' \in [Worker -> [Key -> Outcome]]
    BY <1>4, NoOutcomeType DEF Crash, TypeOK, Outcome
  <2>2. QED
    BY <1>4, <2>1 DEF Crash, TypeOK, PC, Outcome, rowVars, handlerVars
<1>5. ASSUME NEW w \in Worker, NEW k \in Key, Enter(w, k) PROVE TypeOK'
  BY <1>5 DEF Enter, runVars, rowVars, handlerVars, TypeOK, PC
<1>6. ASSUME NEW w \in Worker, Reuse(w) PROVE TypeOK'
  <2>1. OutcomeOfRow(key[w]) \in Outcome /\ key[w] \in Key
    BY <1>6 DEF OutcomeOfRow, Outcome, TypeOK
  <2>2. outcome' \in [Worker -> [Key -> Outcome]]
    BY <1>6, <2>1, OutcomeType DEF Reuse
  <2>3. QED
    BY <1>6, <2>2 DEF Reuse, runVars, rowVars, handlerVars, TypeOK, PC, Outcome
<1>7. ASSUME NEW w \in Worker, LookedUp(w) \/ Checked(w) PROVE TypeOK'
  BY <1>7 DEF LookedUp, Checked, runVars, rowVars, handlerVars, TypeOK, PC
<1>8. ASSUME NEW w \in Worker, Stale(w) \/ InsertRefused(w) PROVE TypeOK'
  BY <1>8, AbortType DEF Stale, InsertRefused
<1>9. ASSUME NEW w \in Worker, Insert(w) PROVE TypeOK'
  BY <1>9 DEF Insert, runVars, handlerVars, TypeOK, PC
<1>10. ASSUME NEW w \in Worker, Handler(w) PROVE TypeOK'
  <2>1. PICK r \in {"ok", "transient", "permanent"} :
          /\ res' = [res EXCEPT ![w] = r]
          /\ done' = [done EXCEPT ![key[w]] = @ \/ r = "ok"]
    BY <1>10 DEF Handler
  <2>2. done' \in [Key -> BOOLEAN]
    BY <2>1, Zenon DEF TypeOK
  <2>3. res' \in [Worker -> {"ok", "transient", "permanent"}]
    BY <2>1 DEF TypeOK
  <2>4. QED
    BY <1>10, <2>1, <2>2, <2>3 DEF Handler, runVars, rowVars, TypeOK, PC
<1>11. ASSUME NEW w \in Worker, Recorded(w) PROVE TypeOK'
  <2>1. CASE Retries(w)
    BY <1>11, <2>1 DEF Recorded, runVars, rowVars, handlerVars, TypeOK, PC
  <2>2. CASE ~ Retries(w)
    BY <1>11, <2>2 DEF Recorded, runVars, rowVars, handlerVars, TypeOK, PC
  <2>3. QED
    BY <2>1, <2>2
<1>12. ASSUME NEW w \in Worker, Finished(w) PROVE TypeOK'
  <2>1. ResultOf(res[w]) \in {"succeeded", "failed"} /\ key[w] \in Key
    BY <1>12 DEF ResultOf, TypeOK
  <2>2. outcome' \in [Worker -> [Key -> Outcome]]
    BY <1>12, <2>1, OutcomeType DEF Finished, Outcome
  <2>3. QED
    BY <1>12, <2>1, <2>2 DEF Finished, runVars, handlerVars, TypeOK, PC, Outcome
<1>13. ASSUME NEW w \in Worker, DatabaseError(w) PROVE TypeOK'
  <2>1. CASE Abort(w)
    BY <2>1, AbortType
  <2>2. CASE ~ Abort(w)
    BY <1>13, <2>2
       DEF DatabaseError, runVars, rowVars, handlerVars, TypeOK, PC
  <2>3. QED
    BY <2>1, <2>2
<1>14. QED
  BY <1>1, <1>2, <1>3, <1>4, <1>5, <1>6, <1>7, <1>8, <1>9, <1>10, <1>11, <1>12,
     <1>13 DEF Next, Step

\* Every variable of the executor keeps its type.
THEOREM TypeCorrect == Spec => []TypeOK
BY InitType, NextType, PTL DEF Spec
-----------------------------------------------------------------------------
(* The inductive invariant.  Fencing tokens are handed out once, so the    *)
(* token in a row names one thread for ever; a thread that works on a key  *)
(* owns its row; and the number of handler calls is the attempt counter of *)
(* the thread that owns the row.                                           *)

TokenInv ==
  /\ \A w \in Worker : token[w] <= epoch
  /\ \A v, w \in Worker : token[v] # 0 /\ token[v] = token[w] => v = w
  /\ \A w \in Worker : pc[w] # "idle" => token[w] # 0

OwnerInv ==
  \A w \in Worker : pc[w] \in Working =>
    /\ rowStatus[key[w]] = "running"
    /\ rowEpoch[key[w]] = token[w]

CallInv ==
  /\ \A k \in Key : rowStatus[k] = "none" => calls[k] = 0
  /\ \A w \in Worker :
       /\ pc[w] = "call" => calls[key[w]] < Budget[key[w]]
                           /\ try[w] = calls[key[w]] + 1
       /\ pc[w] \in Working \ {"call"} => /\ calls[key[w]] > 0
                                          /\ try[w] = calls[key[w]]
                                          /\ res[w] = "ok" => done[key[w]]

ResultInv == OutcomeIsRecorded /\ SuccessIsReal

ExecInv == TokenInv /\ OwnerInv /\ CallInv /\ ResultInv

LEMMA InitInv == Init => ExecInv
<1> SUFFICES ASSUME Init PROVE ExecInv
  OBVIOUS
<1>1. TokenInv
  BY ExecutorAssumption DEF Init, TokenInv
<1>2. OwnerInv
  BY DEF Init, OwnerInv, Working
<1>3. CallInv
  BY DEF Init, CallInv, Working
<1>4. ResultInv
  BY DEF Init, ResultInv, OutcomeIsRecorded, SuccessIsReal, NoOutcome
<1>5. QED
  BY <1>1, <1>2, <1>3, <1>4 DEF ExecInv

\* Two threads that work on the same key are the same thread.
LEMMA OneThread ==
  ASSUME TokenInv, OwnerInv, NEW v \in Worker, NEW w \in Worker,
         pc[v] \in Working, pc[w] \in Working, key[v] = key[w]
  PROVE  v = w
BY DEF TokenInv, OwnerInv, Working

\* A thread that leaves execute by an exception leaves no claim behind.
LEMMA AbortInv ==
  ASSUME TypeOK, ExecInv, NEW w \in Worker, Abort(w)
  PROVE  ExecInv'
<1>1. /\ token' = [token EXCEPT ![w] = 0]
      /\ pc' = [pc EXCEPT ![w] = "idle"]
      /\ outcome' = [outcome EXCEPT ![w] = NoOutcome]
      /\ UNCHANGED <<epoch, live, key, try, res, rowStatus, rowEpoch, calls,
                     done>>
  BY DEF Abort, rowVars, handlerVars
<1>2. TokenInv'
  BY <1>1, ExecutorAssumption DEF ExecInv, TokenInv, TypeOK
<1>3. OwnerInv'
  BY <1>1 DEF ExecInv, OwnerInv, TypeOK, Working
<1>4. CallInv'
  BY <1>1 DEF ExecInv, CallInv, TypeOK, Working
<1>5. ResultInv'
  BY <1>1 DEF ExecInv, ResultInv, OutcomeIsRecorded, SuccessIsReal, TypeOK,
              NoOutcome
<1>6. QED
  BY <1>2, <1>3, <1>4, <1>5 DEF ExecInv

LEMMA ClaimInv ==
  ASSUME TypeOK, ExecInv, NEW w \in Worker, Claim(w)
  PROVE  ExecInv'
<1>1. /\ token' = [token EXCEPT ![w] = epoch + 1]
      /\ epoch' = epoch + 1
      /\ token[w] = 0
      /\ pc[w] = "idle"
      /\ UNCHANGED <<pc, key, try, res, outcome, rowStatus, rowEpoch, calls, done>>
  BY DEF Claim, threadVars, rowVars, handlerVars, ExecInv, TokenInv
<1>2. TokenInv'
  BY <1>1, ExecutorAssumption DEF ExecInv, TokenInv, TypeOK
<1>3. OwnerInv'
  BY <1>1 DEF ExecInv, OwnerInv, TypeOK, Working
<1>4. CallInv' /\ ResultInv'
  BY <1>1 DEF ExecInv, CallInv, ResultInv, OutcomeIsRecorded, SuccessIsReal
<1>5. QED
  BY <1>2, <1>3, <1>4 DEF ExecInv

LEMMA CrashInv ==
  ASSUME TypeOK, ExecInv, NEW p \in Proc, Crash(p)
  PROVE  ExecInv'
<1>1. /\ UNCHANGED <<epoch, key, try, res, rowStatus, rowEpoch, calls, done>>
      /\ \A w \in Worker :
           \/ token'[w] = 0 /\ pc'[w] = "idle" /\ outcome'[w] = NoOutcome
           \/ token'[w] = token[w] /\ pc'[w] = pc[w] /\ outcome'[w] = outcome[w]
  BY DEF Crash, rowVars, handlerVars
<1>2. TokenInv'
  BY <1>1, ExecutorAssumption DEF ExecInv, TokenInv, TypeOK
<1>3. OwnerInv'
  BY <1>1 DEF ExecInv, OwnerInv, Working
<1>4. CallInv'
  BY <1>1 DEF ExecInv, CallInv, Working
<1>5. ResultInv'
  BY <1>1 DEF ExecInv, ResultInv, OutcomeIsRecorded, SuccessIsReal, NoOutcome
<1>6. QED
  BY <1>2, <1>3, <1>4, <1>5 DEF ExecInv

\* Steps of a thread that is not yet, or no longer, working.
LEMMA LookInv ==
  ASSUME TypeOK, ExecInv, NEW w \in Worker,
         \/ \E k \in Key : Enter(w, k)
         \/ Reuse(w)
         \/ LookedUp(w)
  PROVE  ExecInv'
<1>1. /\ UNCHANGED <<epoch, token, try, res, rowStatus, rowEpoch, calls, done>>
      /\ token[w] # 0
      /\ pc'[w] \notin Working
      /\ \A v \in Worker : v # w => pc'[v] = pc[v] /\ key'[v] = key[v]
  BY DEF Enter, Reuse, LookedUp, runVars, rowVars, handlerVars, Working, TypeOK,
         ExecInv, TokenInv
<1>2. TokenInv'
  BY <1>1 DEF ExecInv, TokenInv
<1>3. OwnerInv'
  BY <1>1 DEF ExecInv, OwnerInv
<1>4. CallInv'
  BY <1>1 DEF ExecInv, CallInv, Working
<1>5. OutcomeIsRecorded'
  <2>1. CASE Reuse(w)
    <3>1. OutcomeOfRow(key[w]) \in {"succeeded", "failed"}
            => OutcomeOfRow(key[w]) = rowStatus[key[w]]
      BY DEF OutcomeOfRow
    <3>2. outcome' = [outcome EXCEPT ![w][key[w]] = OutcomeOfRow(key[w])]
      BY <2>1 DEF Reuse
    <3>3. QED
      BY <1>1, <3>1, <3>2 DEF ExecInv, ResultInv, OutcomeIsRecorded, TypeOK
  <2>2. CASE UNCHANGED outcome
    BY <1>1, <2>2 DEF ExecInv, ResultInv, OutcomeIsRecorded
  <2>3. QED
    BY <2>1, <2>2 DEF Enter, LookedUp
<1>6. SuccessIsReal'
  BY <1>1 DEF ExecInv, ResultInv, SuccessIsReal
<1>7. QED
  BY <1>2, <1>3, <1>4, <1>5, <1>6 DEF ExecInv, ResultInv

LEMMA CheckedInv ==
  ASSUME TypeOK, ExecInv, NEW w \in Worker, Checked(w)
  PROVE  ExecInv'
<1>1. /\ UNCHANGED <<epoch, token, key, try, res, outcome, rowStatus, rowEpoch,
                     calls, done>>
      /\ \A v \in Worker : v # w => pc'[v] = pc[v]
      /\ pc[w] # "idle"
      /\ pc'[w] \in Working <=> pc[w] \in Working
      /\ pc'[w] # "call" /\ pc[w] # "call"
  BY DEF Checked, runVars, rowVars, handlerVars, Working, TypeOK
<1>2. TokenInv'
  BY <1>1 DEF ExecInv, TokenInv
<1>3. OwnerInv'
  BY <1>1 DEF ExecInv, OwnerInv
<1>4. CallInv'
  BY <1>1 DEF ExecInv, CallInv
<1>5. ResultInv'
  BY <1>1 DEF ExecInv, ResultInv, OutcomeIsRecorded, SuccessIsReal
<1>6. QED
  BY <1>2, <1>3, <1>4, <1>5 DEF ExecInv

\* The INSERT finds no row, so nobody works on the key and nobody was told of it.
LEMMA InsertInv ==
  ASSUME TypeOK, ExecInv, NEW w \in Worker, Insert(w)
  PROVE  ExecInv'
<1> DEFINE k == key[w]
<1>1. /\ rowStatus[k] = "none"
      /\ rowStatus' = [rowStatus EXCEPT ![k] = "running"]
      /\ rowEpoch' = [rowEpoch EXCEPT ![k] = token[w]]
      /\ pc' = [pc EXCEPT ![w] = "call"]
      /\ try' = [try EXCEPT ![w] = 1]
      /\ UNCHANGED <<epoch, token, key, res, outcome, calls, done>>
      /\ token[w] # 0
  BY DEF Insert, Insertable, runVars, handlerVars, ExecInv, TokenInv
<1>2. TokenInv'
  BY <1>1 DEF ExecInv, TokenInv, TypeOK
<1>3. \A v \in Worker : v # w /\ pc[v] \in Working => key[v] # k
  BY <1>1 DEF ExecInv, OwnerInv
<1>4. OwnerInv'
  BY <1>1, <1>3 DEF ExecInv, OwnerInv, TypeOK
<1>5. calls[k] = 0 /\ k \in Key /\ Budget[k] > 0
  <2>1. k \in Key
    BY DEF TypeOK
  <2>2. Budget[k] \in Nat \ {0}
    BY <2>1, ExecutorAssumption
  <2>3. calls[k] = 0
    BY <1>1, <2>1 DEF ExecInv, CallInv
  <2>4. QED
    BY <2>1, <2>2, <2>3
<1>6. CallInv'
  BY <1>1, <1>3, <1>5 DEF ExecInv, CallInv, TypeOK, Working
<1>7. ResultInv'
  BY <1>1 DEF ExecInv, ResultInv, OutcomeIsRecorded, SuccessIsReal, TypeOK
<1>8. QED
  BY <1>2, <1>4, <1>6, <1>7 DEF ExecInv

LEMMA HandlerInv ==
  ASSUME TypeOK, ExecInv, NEW w \in Worker, Handler(w)
  PROVE  ExecInv'
<1> DEFINE k == key[w]
<1>1. PICK r \in {"ok", "transient", "permanent"} :
        /\ res' = [res EXCEPT ![w] = r]
        /\ done' = [done EXCEPT ![k] = @ \/ r = "ok"]
  BY DEF Handler
<1>2. /\ calls' = [calls EXCEPT ![k] = @ + 1]
      /\ pc' = [pc EXCEPT ![w] = "record"]
      /\ UNCHANGED <<epoch, token, key, try, outcome, rowStatus, rowEpoch>>
      /\ pc[w] = "call"
      /\ token[w] # 0
  BY DEF Handler, runVars, rowVars, ExecInv, TokenInv
<1>3. TokenInv'
  BY <1>2 DEF ExecInv, TokenInv, TypeOK
<1>4. OwnerInv'
  BY <1>2 DEF ExecInv, OwnerInv, TypeOK, Working
<1>5. \A v \in Worker : v # w /\ pc[v] \in Working => key[v] # k
  BY <1>2, OneThread DEF ExecInv, Working
<1>6. /\ k \in Key
      /\ calls[k] \in Nat
      /\ try[w] = calls[k] + 1
      /\ rowStatus[k] = "running"
  BY <1>2 DEF ExecInv, CallInv, OwnerInv, TypeOK, Working
<1>7. done'[k] = (done[k] \/ r = "ok")
  BY <1>1, <1>6, Zenon DEF TypeOK
<1>8. \A j \in Key : j # k => done'[j] = done[j]
  BY <1>1, Zenon DEF TypeOK
<1>9. CallInv'
  <2>1. \A j \in Key : rowStatus'[j] = "none" => calls'[j] = 0
    BY <1>2, <1>6 DEF ExecInv, CallInv, TypeOK
  <2>2. ASSUME NEW v \in Worker, v # w
        PROVE  /\ pc'[v] = "call" => calls'[key'[v]] < Budget[key'[v]]
                                     /\ try'[v] = calls'[key'[v]] + 1
               /\ pc'[v] \in Working \ {"call"} =>
                    /\ calls'[key'[v]] > 0
                    /\ try'[v] = calls'[key'[v]]
                    /\ res'[v] = "ok" => done'[key'[v]]
    <3>1. pc'[v] = pc[v] /\ res'[v] = res[v]
      BY <1>1, <1>2, <2>2 DEF TypeOK
    <3>2. CASE pc[v] \notin Working
      BY <3>1, <3>2 DEF Working
    <3>3. CASE pc[v] \in Working
      <4>1. key[v] \in Key /\ key[v] # k
        BY <1>5, <2>2, <3>3 DEF TypeOK
      <4>2. calls'[key[v]] = calls[key[v]] /\ done'[key[v]] = done[key[v]]
        BY <1>2, <1>8, <4>1 DEF TypeOK
      <4>3. QED
        BY <1>2, <3>1, <4>2 DEF ExecInv, CallInv
    <3>4. QED
      BY <3>2, <3>3
  <2>3. /\ calls'[k] = calls[k] + 1
        /\ pc'[w] = "record"
        /\ res'[w] = "ok" => done'[k]
    BY <1>1, <1>2, <1>6, <1>7 DEF TypeOK
  <2>4. QED
    BY <1>2, <1>6, <2>1, <2>2, <2>3 DEF CallInv
<1>10. ResultInv'
  <2>1. \A j \in Key : done[j] => done'[j]
    BY <1>7, <1>8
  <2>2. QED
    BY <1>2, <2>1 DEF ExecInv, ResultInv, OutcomeIsRecorded, SuccessIsReal
<1>11. QED
  BY <1>3, <1>4, <1>9, <1>10 DEF ExecInv

LEMMA RecordedInv ==
  ASSUME TypeOK, ExecInv, NEW w \in Worker, Recorded(w)
  PROVE  ExecInv'
<1>1. /\ UNCHANGED <<epoch, token, key, res, outcome, rowStatus, rowEpoch,
                     calls, done>>
      /\ pc[w] = "recordWrite"
      /\ \A v \in Worker : v # w => pc'[v] = pc[v] /\ try'[v] = try[v]
  BY DEF Recorded, runVars, rowVars, handlerVars, TypeOK
<1>2. pc'[w] \in {"call", "finish"}
  BY DEF Recorded, TypeOK
<1>3. TokenInv'
  BY <1>1, <1>2 DEF ExecInv, TokenInv
<1>4. OwnerInv'
  BY <1>1, <1>2 DEF ExecInv, OwnerInv, Working
<1>5. /\ key[w] \in Key
      /\ calls[key[w]] \in Nat
      /\ calls[key[w]] > 0
      /\ try[w] = calls[key[w]]
      /\ res[w] = "ok" => done[key[w]]
      /\ Budget[key[w]] \in Nat
  BY <1>1, ExecutorAssumption DEF ExecInv, CallInv, TypeOK, Working
<1>6. CallInv'
  <2>1. CASE Retries(w)
    <3>1. try'[w] = try[w] + 1 /\ pc'[w] = "call"
      BY <2>1 DEF Recorded, TypeOK
    <3>2. try[w] < Budget[key[w]]
      BY <2>1 DEF Retries
    <3>3. QED
      BY <1>1, <1>5, <3>1, <3>2 DEF ExecInv, CallInv, Working
  <2>2. CASE ~ Retries(w)
    <3>1. try'[w] = try[w] /\ pc'[w] = "finish"
      BY <2>2 DEF Recorded, TypeOK
    <3>2. QED
      BY <1>1, <1>5, <3>1 DEF ExecInv, CallInv, Working
  <2>3. QED
    BY <2>1, <2>2
<1>7. ResultInv'
  BY <1>1 DEF ExecInv, ResultInv, OutcomeIsRecorded, SuccessIsReal
<1>8. QED
  BY <1>3, <1>4, <1>6, <1>7 DEF ExecInv

LEMMA FinishedInv ==
  ASSUME TypeOK, ExecInv, NEW w \in Worker, Finished(w)
  PROVE  ExecInv'
<1> DEFINE k == key[w]
           o == ResultOf(res[w])
<1>1. /\ rowStatus' = [rowStatus EXCEPT ![k] = o]
      /\ outcome' = [outcome EXCEPT ![w][k] = o]
      /\ pc' = [pc EXCEPT ![w] = "idle"]
      /\ UNCHANGED <<epoch, token, key, try, res, rowEpoch, calls, done>>
      /\ pc[w] = "finishWrite"
  BY DEF Finished, runVars, handlerVars
<1>2. k \in Key /\ o \in {"succeeded", "failed"} /\ rowStatus[k] = "running"
  BY <1>1 DEF ResultOf, TypeOK, ExecInv, OwnerInv, Working
<1>3. TokenInv'
  BY <1>1 DEF ExecInv, TokenInv, TypeOK
<1>4. \A v \in Worker : v # w /\ pc[v] \in Working => key[v] # k
  BY <1>1, OneThread DEF ExecInv, Working
<1>5. OwnerInv'
  BY <1>1, <1>4 DEF ExecInv, OwnerInv, TypeOK, Working
<1>6. CallInv'
  BY <1>1, <1>2 DEF ExecInv, CallInv, TypeOK, Working
<1>7. OutcomeIsRecorded'
  <2> SUFFICES ASSUME NEW v \in Worker, NEW j \in Key,
                      outcome'[v][j] \in {"succeeded", "failed"}
               PROVE  outcome'[v][j] = rowStatus'[j]
    BY DEF OutcomeIsRecorded
  <2>1. CASE v = w /\ j = k
    BY <1>1, <1>2, <2>1 DEF TypeOK
  <2>2. CASE ~ (v = w /\ j = k)
    <3>1. outcome'[v][j] = outcome[v][j]
      BY <1>1, <1>2, <2>2 DEF TypeOK
    <3>2. outcome[v][j] = rowStatus[j]
      BY <3>1 DEF ExecInv, ResultInv, OutcomeIsRecorded
    <3>3. j # k
      BY <1>2, <3>1, <3>2
    <3>4. QED
      BY <1>1, <3>1, <3>2, <3>3 DEF TypeOK
  <2>3. QED
    BY <2>1, <2>2
<1>8. SuccessIsReal'
  <2>1. o = "succeeded" => done[k]
    BY <1>1 DEF ResultOf, ExecInv, CallInv, Working
  <2>2. QED
    BY <1>1, <1>2, <2>1 DEF ExecInv, ResultInv, SuccessIsReal, TypeOK
<1>9. QED
  BY <1>3, <1>5, <1>6, <1>7, <1>8 DEF ExecInv, ResultInv

LEMMA DatabaseErrorInv ==
  ASSUME TypeOK, ExecInv, NEW w \in Worker, DatabaseError(w)
  PROVE  ExecInv'
<1>1. CASE Abort(w)
  BY <1>1, AbortInv
<1>2. CASE ~ Abort(w)
  <2>1. /\ pc[w] \in Working \ {"call"}
        /\ res' = [res EXCEPT ![w] = "transient"]
        /\ pc' = [pc EXCEPT ![w] = "record"]
        /\ UNCHANGED <<epoch, token, key, try, outcome, rowStatus, rowEpoch,
                       calls, done>>
    BY <1>2 DEF DatabaseError, runVars, rowVars, handlerVars, Working
  <2>2. TokenInv'
    BY <2>1 DEF ExecInv, TokenInv, TypeOK, Working
  <2>3. OwnerInv'
    BY <2>1 DEF ExecInv, OwnerInv, TypeOK, Working
  <2>4. CallInv'
    BY <2>1 DEF ExecInv, CallInv, TypeOK, Working
  <2>5. ResultInv'
    BY <2>1 DEF ExecInv, ResultInv, OutcomeIsRecorded, SuccessIsReal
  <2>6. QED
    BY <2>2, <2>3, <2>4, <2>5 DEF ExecInv
<1>3. QED
  BY <1>1, <1>2

LEMMA NextInv == TypeOK /\ ExecInv /\ [Next]_vars => ExecInv'
<1> SUFFICES ASSUME TypeOK, ExecInv, [Next]_vars PROVE ExecInv'
  OBVIOUS
<1>1. CASE Lapse \/ UNCHANGED vars
  BY <1>1 DEF Lapse, vars, runVars, threadVars, rowVars, handlerVars, ExecInv,
              TokenInv, OwnerInv, CallInv, ResultInv, OutcomeIsRecorded,
              SuccessIsReal
<1>2. ASSUME NEW w \in Worker, Stale(w) \/ InsertRefused(w) PROVE ExecInv'
  BY <1>2, AbortInv DEF Stale, InsertRefused
<1>3. QED
  BY <1>1, <1>2, ClaimInv, CrashInv, LookInv, CheckedInv, InsertInv, HandlerInv,
     RecordedInv, FinishedInv, DatabaseErrorInv DEF Next, Step

-----------------------------------------------------------------------------
(* The theorems.                                                           *)

LEMMA Invariant == Spec => [](TypeOK /\ ExecInv)
BY InitType, NextType, InitInv, NextInv, PTL DEF Spec

\* Key locks keep the threads of one process apart, the UNIQUE key and the fencing
\* token the processes: a key is worked on by one thread in all.
THEOREM ThreadsExcluded == Spec => []OneThreadPerKey
<1>1. TypeOK /\ ExecInv => OneThreadPerKey
  BY OneThread DEF ExecInv, OneThreadPerKey, Working
<1>2. QED
  BY <1>1, Invariant, PTL

\* What execute returned for a step is what the table records, for ever.
THEOREM OutcomesRecorded == Spec => []OutcomeIsRecorded
<1>1. TypeOK /\ ExecInv => OutcomeIsRecorded
  BY DEF ExecInv, ResultInv
<1>2. QED
  BY <1>1, Invariant, PTL

\* No step is recorded as succeeded unless its handler returned.
THEOREM SuccessesReal == Spec => []SuccessIsReal
<1>1. TypeOK /\ ExecInv => SuccessIsReal
  BY DEF ExecInv, ResultInv
<1>2. QED
  BY <1>1, Invariant, PTL

\* What a step does to the ledger, and who does it.
LEMMA LedgerStep ==
  ASSUME TypeOK, ExecInv, [Next]_vars
  PROVE  \/ UNCHANGED <<rowStatus, calls>>
         \/ \E w \in Worker : Insert(w) \/ Handler(w) \/ Finished(w)
<1>1. CASE Lapse \/ UNCHANGED vars
  BY <1>1 DEF Lapse, vars, rowVars, handlerVars
<1>2. ASSUME NEW w \in Worker, \/ Claim(w)
                               \/ \E k \in Key : Enter(w, k)
                               \/ Reuse(w) \/ LookedUp(w) \/ Checked(w)
                               \/ Recorded(w)
      PROVE  UNCHANGED <<rowStatus, calls>>
  BY <1>2 DEF Claim, Enter, Reuse, LookedUp, Checked, Recorded, rowVars,
              handlerVars
<1>3. ASSUME NEW w \in Worker, Stale(w) \/ InsertRefused(w) \/ DatabaseError(w)
      PROVE  UNCHANGED <<rowStatus, calls>>
  BY <1>3 DEF Stale, InsertRefused, DatabaseError, Abort, rowVars, handlerVars
<1>4. ASSUME NEW p \in Proc, Crash(p) PROVE UNCHANGED <<rowStatus, calls>>
  BY <1>4 DEF Crash, rowVars, handlerVars
<1>5. QED
  BY <1>1, <1>2, <1>3, <1>4 DEF Next, Step

\* The handler of a step is called by the thread whose INSERT began it and by no
\* other, however often the run changes hands.
THEOREM StarterCalls == Spec => OnlyTheStarterCalls
<1>1. ASSUME TypeOK, ExecInv, [Next]_vars, NEW k \in Key, calls'[k] > calls[k]
      PROVE  \E w \in Worker : /\ pc[w] = "call"
                               /\ key[w] = k
                               /\ rowStatus[k] = "running"
                               /\ rowEpoch[k] = token[w]
  <2>1. calls[k] \in Nat
    BY <1>1 DEF TypeOK
  <2>2. PICK w \in Worker : Handler(w)
    BY <1>1, <2>1, LedgerStep DEF Insert, Finished, handlerVars
  <2>3. pc[w] = "call" /\ key[w] = k
    BY <1>1, <2>1, <2>2 DEF Handler, TypeOK
  <2>4. QED
    BY <1>1, <2>3 DEF ExecInv, OwnerInv, Working
<1>2. TypeOK /\ ExecInv /\ [Next]_vars
        => [\A k \in Key : calls'[k] > calls[k]
              => \E w \in Worker : /\ pc[w] = "call"
                                   /\ key[w] = k
                                   /\ rowStatus[k] = "running"
                                   /\ rowEpoch[k] = token[w]]_vars
  BY <1>1
<1>3. QED
  BY <1>2, InitType, NextType, InitInv, NextInv, PTL
     DEF Spec, OnlyTheStarterCalls

\* The executor implements the ledger: each key is begun at most once, its handler
\* runs at most Budget[k] times, and its recorded outcome never changes.
THEOREM Refinement == Spec => RefinesLedger
<1>1. Init => Ledger!Init
  BY DEF Init, Ledger!Init
<1>2. ASSUME TypeOK, ExecInv, [Next]_vars
      PROVE  [Ledger!Next]_(Ledger!vars)
  <2>1. ASSUME NEW w \in Worker, Insert(w) PROVE Ledger!Begin(key[w])
    BY <2>1 DEF Insert, Insertable, handlerVars, Ledger!Begin
  <2>2. ASSUME NEW w \in Worker, Handler(w) PROVE Ledger!Call(key[w])
    <3>1. /\ pc[w] = "call"
          /\ calls' = [calls EXCEPT ![key[w]] = @ + 1]
          /\ UNCHANGED rowStatus
      BY <2>2 DEF Handler, rowVars
    <3>2. rowStatus[key[w]] = "running" /\ calls[key[w]] < Budget[key[w]]
      BY <1>2, <3>1 DEF ExecInv, OwnerInv, CallInv, Working
    <3>3. QED
      BY <3>1, <3>2 DEF Ledger!Call
  <2>3. ASSUME NEW w \in Worker, Finished(w) PROVE Ledger!Finish(key[w])
    <3>1. /\ pc[w] = "finishWrite"
          /\ rowStatus' = [rowStatus EXCEPT ![key[w]] = ResultOf(res[w])]
          /\ UNCHANGED calls
      BY <2>3 DEF Finished, handlerVars
    <3>2. rowStatus[key[w]] = "running" /\ calls[key[w]] > 0
      BY <1>2, <3>1 DEF ExecInv, OwnerInv, CallInv, Working
    <3>3. ResultOf(res[w]) \in {"succeeded", "failed"}
      BY DEF ResultOf
    <3>4. QED
      BY <3>1, <3>2, <3>3 DEF Ledger!Finish
  <2>4. \A w \in Worker : key[w] \in Key
    BY <1>2 DEF TypeOK
  <2>5. QED
    BY <1>2, <2>1, <2>2, <2>3, <2>4, LedgerStep DEF Ledger!Next, Ledger!vars
<1>3. QED
  BY <1>1, <1>2, InitType, NextType, InitInv, NextInv, PTL
     DEF Spec, RefinesLedger, Ledger!Spec
=============================================================================
