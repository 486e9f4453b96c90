----------------------------- MODULE IngressProofs -----------------------------
(***************************************************************************)
(* Theorems about the entrance of detections, for any processes, requests, *)
(* keys, payloads and bounds.                                              *)
(***************************************************************************)
EXTENDS Ingress, TLAPS, FiniteSetTheorems, SequenceTheorems

-----------------------------------------------------------------------------
(* The inductive invariant.                                                *)

\* The requests that may still create a run.
Pending == {q \in Request : req[q].step \in {"gate", "create"}}

\* Room is kept for the run of every request that may still create one.
Roomy == Len(rows) + Cardinality(Pending) <= MaxRun

\* What a request, a sweep or a reply names is a row, of its key and payload.
Knows(q) ==
  req[q].step \in {"claim", "attach", "start"}
    => /\ req[q].run \in DOMAIN rows
       /\ rows[req[q].run].key = req[q].key
       /\ rows[req[q].run].payload = req[q].payload

Swept(p) == sweep[p] # 0 => sweep[p] \in DOMAIN rows

Told(a) ==
  /\ a.run \in DOMAIN rows
  /\ rows[a.run].key = a.key
  /\ rows[a.run].payload = a.payload

\* Nobody ever gets hold of a filtered run.
Untouched(r) == rows[r].status = "filtered" => rows[r].owner = Nobody /\ ~ rows[r].live

IInv ==
  /\ TypeOK
  /\ Roomy
  /\ \A q \in Request : Knows(q)
  /\ \A p \in Proc : Swept(p)
  /\ \A a \in replies : Told(a)
  /\ \A r \in DOMAIN rows : Untouched(r)
  /\ OneRunPerKey

-----------------------------------------------------------------------------
(* Rows.                                                                   *)

LEMMA RowsAreFunctions ==
  ASSUME TypeOK
  PROVE  /\ Len(rows) \in Nat
         /\ DOMAIN rows = 1..Len(rows)
         /\ rows \in [1..Len(rows) -> Row]
         /\ \A r \in DOMAIN rows : rows[r] \in Row /\ r \in Run
BY IngressAssumption DEF TypeOK, Run

\* The rows stay, and so do their keys and payloads; a filtered row stays as it is, and
\* none becomes filtered.
Kept ==
  /\ rows' \in Seq(Row)
  /\ Len(rows') = Len(rows)
  /\ \A r \in DOMAIN rows :
       /\ rows'[r].key = rows[r].key
       /\ rows'[r].payload = rows[r].payload
       /\ rows[r].status = "filtered" => rows'[r] = rows[r]
       /\ rows'[r].status = "filtered" => rows[r].status = "filtered"

\* A statement that updates one row which is not filtered.
LEMMA UpdateKeeps ==
  ASSUME TypeOK, NEW r \in DOMAIN rows, NEW row \in Row,
         row.key = rows[r].key, row.payload = rows[r].payload,
         rows[r].status # "filtered", row.status # "filtered",
         rows' = [rows EXCEPT ![r] = row]
  PROVE  Kept
<1>1. rows \in Seq(Row) /\ r \in 1..Len(rows)
  BY RowsAreFunctions DEF TypeOK
<1>2. rows' \in Seq(Row) /\ Len(rows') = Len(rows)
  BY <1>1, ExceptSeq
<1>3. QED
  BY <1>2, RowsAreFunctions DEF Kept

LEMMA SameKeeps == ASSUME TypeOK, rows' = rows PROVE Kept
BY DEF TypeOK, Kept

\* The claim of a claimable row.
LEMMA OwnKeeps ==
  ASSUME TypeOK, NEW r \in DOMAIN rows, NEW who \in Holder, Claimable(r), Own(r, who)
  PROVE  Kept
<1> DEFINE row == [rows[r] EXCEPT !.owner = who, !.live = TRUE]
<1>1. rows[r] \in Row
  BY RowsAreFunctions
<1>2. row \in Row /\ row.key = rows[r].key /\ row.payload = rows[r].payload
        /\ row.status = rows[r].status
  BY <1>1 DEF Row
<1>3. rows' = [rows EXCEPT ![r] = row]
  BY <1>1, RowsAreFunctions DEF Own, Row
<1>4. rows[r].status # "filtered"
  BY DEF Claimable, Active
<1>5. QED
  BY <1>2, <1>3, <1>4, UpdateKeeps

-----------------------------------------------------------------------------
(* Requests and replies.                                                   *)

Asked == [step : {"off", "gate", "create", "claim", "attach", "start"},
          proc : Proc, key : Key \cup {NoKey}, payload : Payload,
          cause : {"run_created", "no_policy_incident", "cooldown"},
          run : Run \cup {0}]

Reply == [key : Key, payload : Payload, run : Run]

LEMMA TypeParts ==
  TypeOK <=>
    /\ rows \in Seq(Row) /\ Len(rows) <= MaxRun
    /\ phase \in [Proc -> {"up", "closing", "down"}]
    /\ cooling \in [Proc -> BOOLEAN]
    /\ threads \in [Proc -> SUBSET Run]
    /\ sweep \in [Proc -> Run \cup {0}]
    /\ req \in [Request -> Asked]
    /\ replies \subseteq Reply
    /\ faults \in 0..MaxFaults
BY DEF TypeOK, Asked, Reply

LEMMA OffIsAsked == Off \in Asked /\ Off.step = "off"
<1>1. (CHOOSE p \in Proc : TRUE) \in Proc /\ (CHOOSE d \in Payload : TRUE) \in Payload
  BY IngressAssumption
<1>2. QED
  BY <1>1 DEF Off, Asked

Late == {"claim", "attach", "start"}

\* A request that names a run named it before, under the same key and payload.
Carried ==
  \A q \in Request : req'[q].step \in Late =>
    /\ req[q].step \in Late
    /\ req'[q].run = req[q].run
    /\ req'[q].key = req[q].key
    /\ req'[q].payload = req[q].payload

RepliesTold == \A a \in replies' : a \in replies \/ Told(a)

SweepNamed == \A p \in Proc : sweep'[p] \in {0, sweep[p]} \cup DOMAIN rows

\* What every step but an insertion does.
Effect == Kept /\ TypeOK' /\ Roomy' /\ Carried /\ RepliesTold /\ SweepNamed

LEMMA PendingFinite ==
  /\ IsFiniteSet(Pending)
  /\ Cardinality(Pending) \in Nat
BY FS_Subset, FS_CardinalityType, IngressAssumption DEF Pending

\* Requests that stop being pending leave more room.
LEMMA FewerPending ==
  ASSUME TypeOK, Roomy, Pending' \subseteq Pending, Len(rows') = Len(rows)
  PROVE  Roomy'
<1>1. Cardinality(Pending') <= Cardinality(Pending) /\ Cardinality(Pending') \in Nat
  BY PendingFinite, FS_Subset, FS_CardinalityType
<1>2. Cardinality(Pending) \in Nat /\ Len(rows) \in Nat /\ MaxRun \in Nat
  BY PendingFinite, RowsAreFunctions, IngressAssumption
<1>3. Len(rows') + Cardinality(Pending') <= MaxRun
  BY <1>1, <1>2 DEF Roomy
<1>4. QED
  BY <1>3 DEF Roomy

\* A request that goes on to a step that is not pending, from wherever it was.
LEMMA GoesOn ==
  ASSUME TypeOK, NEW q \in Request, NEW r \in Asked, Goes(q, r),
         r.step \in {"off", "attach", "start"},
         r.step # "off" => /\ req[q].step \in Late
                           /\ r.run = req[q].run
                           /\ r.key = req[q].key
                           /\ r.payload = req[q].payload
  PROVE  Carried /\ Pending' \subseteq Pending /\ req' \in [Request -> Asked]
<1>1. req \in [Request -> Asked]
  BY TypeParts
<1>2. req' = [req EXCEPT ![q] = r]
  BY DEF Goes
<1>3. QED
  BY <1>1, <1>2 DEF Carried, Pending, Late

LEMMA EndsWell ==
  ASSUME TypeOK, NEW q \in Request, Ends(q)
  PROVE  Carried /\ Pending' \subseteq Pending /\ req' \in [Request -> Asked]
BY OffIsAsked, GoesOn DEF Ends

LEMMA SameRequests ==
  ASSUME TypeOK, req' = req
  PROVE  Carried /\ Pending' \subseteq Pending /\ req' \in [Request -> Asked]
BY TypeParts DEF Carried, Pending

\* A reply that names a row of its key and payload.
LEMMA RepliesWell ==
  ASSUME TypeOK, NEW q \in Request, NEW r \in DOMAIN rows,
         NEW k \in Key \cup {NoKey}, NEW d \in Payload,
         rows[r].key = k, rows[r].payload = d,
         Replies(q, r, k, d)
  PROVE  /\ RepliesTold /\ replies' \subseteq Reply
         /\ Carried /\ Pending' \subseteq Pending /\ req' \in [Request -> Asked]
<1>1. Ends(q)
  BY DEF Replies
<1>2. r \in Run
  BY RowsAreFunctions
<1>3. replies \subseteq Reply
  BY TypeParts
<1>4. CASE k = NoKey
  <2>1. replies' = replies
    BY <1>4 DEF Replies
  <2>2. QED
    BY <1>1, <1>3, <2>1, EndsWell DEF RepliesTold
<1>5. CASE k # NoKey
  <2> DEFINE a == [key |-> k, payload |-> d, run |-> r]
  <2>1. replies' = replies \cup {a}
    BY <1>5 DEF Replies
  <2>2. a \in Reply /\ Told(a)
    BY <1>2, <1>5 DEF Reply, Told
  <2>3. QED
    BY <1>1, <1>3, <2>1, <2>2, EndsWell DEF RepliesTold
<1>6. QED
  BY <1>4, <1>5

LEMMA SameReplies ==
  ASSUME TypeOK, replies' = replies
  PROVE  RepliesTold /\ replies' \subseteq Reply
BY TypeParts DEF RepliesTold

\* The answer to a key that has a run, or a conflict.
LEMMA ExistingWell ==
  ASSUME TypeOK, NEW q \in Request, NEW k \in Key \cup {NoKey}, NEW d \in Payload,
         Existing(q, k, d)
  PROVE  /\ RepliesTold /\ replies' \subseteq Reply
         /\ Carried /\ Pending' \subseteq Pending /\ req' \in [Request -> Asked]
<1>1. PICK r \in RunsOf(k) : IF Matches(r, d) THEN Replies(q, r, k, d)
                                             ELSE Ends(q) /\ UNCHANGED replies
  BY DEF Existing
<1>2. r \in DOMAIN rows /\ rows[r].key = k
  BY DEF RunsOf
<1>3. CASE Matches(r, d)
  BY <1>1, <1>2, <1>3, RepliesWell DEF Matches
<1>4. CASE ~ Matches(r, d)
  BY <1>1, <1>4, EndsWell, SameReplies
<1>5. QED
  BY <1>3, <1>4

LEMMA SameSweeps == ASSUME TypeOK, sweep' = sweep PROVE SweepNamed
BY DEF SweepNamed

\* The parts of Effect for a step that keeps the rows or updates one of them.
LEMMA EffectParts ==
  ASSUME TypeOK, Roomy, Kept, Carried, RepliesTold, SweepNamed, Pending' \subseteq Pending,
         req' \in [Request -> Asked], replies' \subseteq Reply,
         phase' \in [Proc -> {"up", "closing", "down"}],
         cooling' \in [Proc -> BOOLEAN],
         threads' \in [Proc -> SUBSET Run],
         faults' \in 0..MaxFaults,
         sweep' \in [Proc -> Run \cup {0}]
  PROVE  Effect
<1>1. rows' \in Seq(Row) /\ Len(rows') = Len(rows) /\ Len(rows) <= MaxRun
  BY DEF Kept, TypeOK
<1>2. TypeOK'
  BY <1>1 DEF TypeOK, Asked, Reply
<1>3. Roomy'
  BY <1>1, FewerPending
<1>4. QED
  BY <1>2, <1>3 DEF Effect

-----------------------------------------------------------------------------
(* The steps of a request.                                                 *)

LEMMA LookupEffect ==
  ASSUME IInv, NEW q \in Request, NEW p \in Proc, NEW k \in Key \cup {NoKey},
         NEW d \in Payload, Lookup(q, p, k, d)
  PROVE  Effect
<1> USE DEF IInv
<1>1. Kept /\ SweepNamed
  BY SameKeeps, SameSweeps DEF Lookup
<1>2. CASE k # NoKey /\ Existing(q, k, d)
  BY <1>1, <1>2, ExistingWell, EffectParts, TypeParts DEF Lookup
<1>3. CASE Room /\ UNCHANGED replies
           /\ Goes(q, [step |-> "gate", proc |-> p, key |-> k, payload |-> d,
                       cause |-> "run_created", run |-> 0])
  <2> DEFINE r == [step |-> "gate", proc |-> p, key |-> k, payload |-> d,
                   cause |-> "run_created", run |-> 0]
  <2>1. r \in Asked /\ r.step = "gate"
    BY DEF Asked
  <2> HIDE DEF r
  <2>2. req \in [Request -> Asked] /\ req' = [req EXCEPT ![q] = r]
    BY <1>3, TypeParts DEF Goes, r
  <2>3. Carried /\ req' \in [Request -> Asked] /\ Pending' = Pending \cup {q}
    BY <2>1, <2>2 DEF Carried, Late, Pending
  <2>4. Cardinality(Pending') <= Cardinality(Pending) + 1 /\ Cardinality(Pending') \in Nat
    <3>1. Cardinality(Pending \cup {q}) =
            IF q \in Pending THEN Cardinality(Pending) ELSE Cardinality(Pending) + 1
      BY PendingFinite, FS_AddElement
    <3>2. QED
      BY <2>3, <3>1, PendingFinite
  <2>5. Len(rows) + Cardinality(Pending) < MaxRun /\ rows' = rows
    BY <1>3 DEF Room, Pending, Lookup
  <2>6. Roomy'
    BY <2>4, <2>5, PendingFinite, RowsAreFunctions, IngressAssumption DEF Roomy
  <2>7. TypeOK'
    BY <1>3, <2>3, TypeParts DEF Lookup, TypeOK, Asked
  <2>8. RepliesTold
    BY <1>3, SameReplies
  <2>9. QED
    BY <1>1, <2>3, <2>6, <2>7, <2>8 DEF Effect
<1>4. QED
  BY <1>2, <1>3 DEF Lookup

LEMMA GateEffect ==
  ASSUME IInv, NEW q \in Request, Gate(q)
  PROVE  Effect
<1> USE DEF IInv
<1>1. Kept /\ SweepNamed /\ RepliesTold /\ replies' \subseteq Reply
  BY SameKeeps, SameSweeps, SameReplies DEF Gate
<1>2. req \in [Request -> Asked] /\ req[q] \in Asked
  BY TypeParts
<1>3. Verdict(q) \in {"run_created", "no_policy_incident", "cooldown"}
  BY DEF Verdict
<1>4. Carried /\ Pending' \subseteq Pending /\ req' \in [Request -> Asked]
  <2>1. CASE Ends(q)
    BY <2>1, EndsWell
  <2>2. CASE Goes(q, [req[q] EXCEPT !.step = "create", !.cause = Verdict(q)])
    <3> DEFINE r == [req[q] EXCEPT !.step = "create", !.cause = Verdict(q)]
    <3>1. r \in Asked /\ r.step = "create"
      BY <1>2, <1>3 DEF Asked
    <3> HIDE DEF r
    <3>2. req' = [req EXCEPT ![q] = r]
      BY <2>2 DEF Goes, r
    <3>3. req[q].step = "gate"
      BY DEF Gate
    <3>4. QED
      BY <1>2, <3>1, <3>2, <3>3 DEF Carried, Pending, Late
  <2>3. QED
    BY <2>1, <2>2 DEF Gate
<1>5. cooling' \in [Proc -> BOOLEAN]
  BY TypeParts DEF Gate
<1>6. QED
  BY <1>1, <1>4, <1>5, EffectParts, TypeParts DEF Gate

LEMMA CreateReused ==
  ASSUME IInv, NEW q \in Request, Create(q), ~ Insertable(req[q].key)
  PROVE  Effect
<1> USE DEF IInv
<1>1. Existing(q, req[q].key, req[q].payload) /\ UNCHANGED rows
  BY DEF Create
<1>2. req[q] \in Asked
  BY TypeParts
<1>3. req[q].key \in Key \cup {NoKey} /\ req[q].payload \in Payload
  BY <1>2 DEF Asked
<1>4. /\ RepliesTold /\ replies' \subseteq Reply
      /\ Carried /\ Pending' \subseteq Pending /\ req' \in [Request -> Asked]
  BY <1>1, <1>3, ExistingWell
<1>5. QED
  BY <1>1, <1>4, SameKeeps, SameSweeps, EffectParts, TypeParts DEF Create

\* The reply of a request to the run it knows.
LEMMA AnswersWell ==
  ASSUME IInv, NEW q \in Request, req[q].step \in Late, Answers(q, req[q].run)
  PROVE  /\ RepliesTold /\ replies' \subseteq Reply
         /\ Carried /\ Pending' \subseteq Pending /\ req' \in [Request -> Asked]
<1>1. req[q] \in Asked
  BY TypeParts DEF IInv
<1>2. req[q].key \in Key \cup {NoKey} /\ req[q].payload \in Payload
  BY <1>1 DEF Asked
<1>3. Knows(q)
  BY DEF IInv
<1>4. QED
  BY <1>2, <1>3, RepliesWell DEF Answers, Knows, Late, IInv

LEMMA ClaimOwnEffect ==
  ASSUME IInv, NEW q \in Request, ClaimOwn(q)
  PROVE  Effect
<1> USE DEF IInv
<1>1. req[q].step = "claim" /\ req[q] \in Asked /\ req[q].run \in DOMAIN rows
  BY TypeParts DEF ClaimOwn, Knows
<1>2. SweepNamed
  BY SameSweeps DEF ClaimOwn
<1>3. CASE Claimable(req[q].run)
  <2> DEFINE r == [req[q] EXCEPT !.step = "attach"]
  <2>1. r \in Asked /\ r.step = "attach" /\ r.run = req[q].run /\ r.key = req[q].key
          /\ r.payload = req[q].payload
    BY <1>1 DEF Asked
  <2>2. Goes(q, r) /\ Own(req[q].run, q) /\ UNCHANGED replies
    BY <1>3 DEF ClaimOwn
  <2> HIDE DEF r
  <2>3. Carried /\ Pending' \subseteq Pending /\ req' \in [Request -> Asked]
    BY <1>1, <2>1, <2>2, GoesOn DEF Late
  <2>4. Kept
    BY <1>1, <1>3, <2>2, OwnKeeps DEF Holder
  <2>5. RepliesTold /\ replies' \subseteq Reply
    BY <2>2, SameReplies
  <2>6. QED
    BY <1>2, <2>3, <2>4, <2>5, EffectParts, TypeParts DEF ClaimOwn
<1>4. CASE ~ Claimable(req[q].run)
  <2>1. Answers(q, req[q].run) /\ UNCHANGED rows
    BY <1>4 DEF ClaimOwn
  <2>2. /\ RepliesTold /\ replies' \subseteq Reply
        /\ Carried /\ Pending' \subseteq Pending /\ req' \in [Request -> Asked]
    BY <1>1, <2>1, AnswersWell DEF Late
  <2>3. QED
    BY <1>2, <2>1, <2>2, SameKeeps, EffectParts, TypeParts DEF ClaimOwn
<1>5. QED
  BY <1>3, <1>4

LEMMA AttachEffect ==
  ASSUME IInv, NEW q \in Request, Attach(q)
  PROVE  Effect
<1> USE DEF IInv
<1>1. Kept /\ SweepNamed /\ RepliesTold /\ replies' \subseteq Reply
  BY SameKeeps, SameSweeps, SameReplies DEF Attach
<1>2. Carried /\ Pending' \subseteq Pending /\ req' \in [Request -> Asked]
  <2>1. CASE Ends(q)
    BY <2>1, EndsWell
  <2>2. CASE Goes(q, [req[q] EXCEPT !.step = "start"])
    <3> DEFINE r == [req[q] EXCEPT !.step = "start"]
    <3>1. req[q] \in Asked
      BY TypeParts
    <3>2. r \in Asked /\ r.step = "start" /\ r.run = req[q].run /\ r.key = req[q].key
            /\ r.payload = req[q].payload
      BY <3>1 DEF Asked
    <3>3. Goes(q, r)
      BY <2>2
    <3> HIDE DEF r
    <3>4. QED
      BY <3>2, <3>3, GoesOn DEF Attach, Late
  <2>3. QED
    BY <2>1, <2>2 DEF Attach
<1>3. QED
  BY <1>1, <1>2, EffectParts, TypeParts DEF Attach

\* A new status or owner for a run that is not filtered.
LEMMA ChangeKeeps ==
  ASSUME TypeOK, NEW r \in DOMAIN rows, rows[r].status # "filtered",
         NEW s \in {"analyzing", "retryable_failed", "settled"},
         NEW who \in Holder, NEW b \in BOOLEAN,
         rows' = [rows EXCEPT ![r] = [rows[r] EXCEPT !.status = s, !.owner = who, !.live = b]]
  PROVE  Kept
<1> DEFINE row == [rows[r] EXCEPT !.status = s, !.owner = who, !.live = b]
<1>1. rows[r] \in Row
  BY RowsAreFunctions
<1>2. row \in Row /\ row.key = rows[r].key /\ row.payload = rows[r].payload
        /\ row.status # "filtered"
  BY <1>1 DEF Row
<1>3. rows' = [rows EXCEPT ![r] = row]
  OBVIOUS
<1> HIDE DEF row
<1>4. QED
  BY <1>2, <1>3, UpdateKeeps

\* A thread takes over a run.
LEMMA OwnerKeeps ==
  ASSUME TypeOK, NEW r \in DOMAIN rows, NEW who \in Holder, rows[r].status # "filtered",
         rows' = [rows EXCEPT ![r].owner = who]
  PROVE  Kept
<1> DEFINE row == [rows[r] EXCEPT !.owner = who]
<1>1. rows[r] \in Row
  BY RowsAreFunctions
<1>2. row \in Row /\ row.key = rows[r].key /\ row.payload = rows[r].payload
        /\ row.status = rows[r].status
  BY <1>1 DEF Row
<1>3. rows' = [rows EXCEPT ![r] = row]
  OBVIOUS
<1> HIDE DEF row
<1>4. QED
  BY <1>2, <1>3, UpdateKeeps

LEMMA StartEffect ==
  ASSUME IInv, NEW q \in Request, Start(q)
  PROVE  Effect
<1> USE DEF IInv
<1> DEFINE p == req[q].proc
           r == req[q].run
<1>1. req[q].step = "start" /\ req[q] \in Asked /\ r \in DOMAIN rows /\ rows[r] \in Row
  BY TypeParts, RowsAreFunctions DEF Start, Knows
<1>2. p \in Proc /\ r \in Run
  BY <1>1, RowsAreFunctions DEF Asked
<1>3. SweepNamed
  BY SameSweeps DEF Start
<1>4. CASE Startable(p, r)
  <2>1. Starts(p, r, q) /\ Answers(q, r)
    BY <1>4 DEF Start
  <2>2. /\ RepliesTold /\ replies' \subseteq Reply
        /\ Carried /\ Pending' \subseteq Pending /\ req' \in [Request -> Asked]
    BY <1>1, <2>1, AnswersWell DEF Late
  <2>3. threads' \in [Proc -> SUBSET Run]
    BY <1>2, <2>1, TypeParts DEF Starts
  <2>4. Kept
    <3>1. CASE rows[r].owner = q
      <4>1. rows' = [rows EXCEPT ![r].owner = <<"thread", p>>]
        BY <2>1, <3>1 DEF Starts
      <4>2. rows[r].status # "filtered"
        BY <1>1, <3>1, IngressAssumption DEF Untouched
      <4>3. <<"thread", p>> \in Holder
        BY <1>2 DEF Holder
      <4>4. QED
        BY <1>1, <4>1, <4>2, <4>3, OwnerKeeps
    <3>2. CASE rows[r].owner # q
      BY <2>1, <3>2, SameKeeps DEF Starts
    <3>3. QED
      BY <3>1, <3>2
  <2>5. QED
    BY <1>3, <2>2, <2>3, <2>4, EffectParts, TypeParts DEF Start
<1>5. CASE ~ Startable(p, r) /\ Fence(r, q) /\ rows[r].status = "analyzing"
  <2>1. Answers(q, r) /\ threads' = threads
        /\ rows' = [rows EXCEPT ![r].status = "retryable_failed"]
    BY <1>5 DEF Start
  <2>2. /\ RepliesTold /\ replies' \subseteq Reply
        /\ Carried /\ Pending' \subseteq Pending /\ req' \in [Request -> Asked]
    BY <1>1, <2>1, AnswersWell DEF Late
  <2>3. rows' = [rows EXCEPT ![r] = [rows[r] EXCEPT !.status = "retryable_failed",
                                !.owner = rows[r].owner, !.live = rows[r].live]]
    BY <1>1, <2>1, RowsAreFunctions DEF Row
  <2>4. rows[r].owner \in Holder /\ rows[r].live \in BOOLEAN
    BY <1>1 DEF Row
  <2>5. Kept
    BY <1>1, <1>5, <2>3, <2>4, ChangeKeeps
  <2>6. QED
    BY <1>3, <2>1, <2>2, <2>5, EffectParts, TypeParts DEF Start
<1>6. CASE ~ Startable(p, r) /\ ~ (Fence(r, q) /\ rows[r].status = "analyzing")
  <2>1. Ends(q) /\ UNCHANGED <<rows, replies>> /\ threads' = threads
    BY <1>6 DEF Start
  <2>2. QED
    BY <1>3, <2>1, EndsWell, SameKeeps, SameReplies, EffectParts, TypeParts DEF Start
<1>7. QED
  BY <1>4, <1>5, <1>6

-----------------------------------------------------------------------------
(* The steps of threads, sweeps and leases.                                *)

LEMMA FinishEffect ==
  ASSUME IInv, NEW p \in Proc, NEW r \in DOMAIN rows, Finish(p, r)
  PROVE  Effect
<1> USE DEF IInv
<1>1. /\ SweepNamed /\ RepliesTold /\ replies' \subseteq Reply
      /\ Carried /\ Pending' \subseteq Pending /\ req' \in [Request -> Asked]
  BY SameSweeps, SameReplies, SameRequests DEF Finish
<1>2. threads' \in [Proc -> SUBSET Run]
  BY TypeParts DEF Finish
<1>3. Kept
  <2>1. CASE Fence(r, <<"thread", p>>)
    <3>1. rows' = [rows EXCEPT ![r] = [rows[r] EXCEPT !.status = "settled",
                                         !.owner = Nobody, !.live = FALSE]]
      BY <2>1, RowsAreFunctions DEF Finish, Row
    <3>2. rows[r].status # "filtered" /\ Nobody \in Holder
      BY <2>1 DEF Fence, Active, Holder
    <3>3. QED
      BY <3>1, <3>2, ChangeKeeps
  <2>2. CASE ~ Fence(r, <<"thread", p>>)
    BY <2>2, SameKeeps DEF Finish
  <2>3. QED
    BY <2>1, <2>2
<1>4. QED
  BY <1>1, <1>2, <1>3, EffectParts, TypeParts DEF Finish

LEMMA SweepClaimEffect ==
  ASSUME IInv, NEW p \in Proc, NEW r \in DOMAIN rows, SweepClaim(p, r)
  PROVE  Effect
<1> USE DEF IInv
<1>1. /\ RepliesTold /\ replies' \subseteq Reply
      /\ Carried /\ Pending' \subseteq Pending /\ req' \in [Request -> Asked]
  BY SameReplies, SameRequests DEF SweepClaim
<1>2. sweep' \in [Proc -> Run \cup {0}] /\ SweepNamed
  BY TypeParts, RowsAreFunctions DEF SweepClaim, SweepNamed
<1>3. Kept
  BY OwnKeeps DEF SweepClaim, Holder
<1>4. QED
  BY <1>1, <1>2, <1>3, EffectParts, TypeParts DEF SweepClaim

LEMMA SweepStartEffect ==
  ASSUME IInv, NEW p \in Proc, SweepStart(p)
  PROVE  Effect
<1> USE DEF IInv
<1> DEFINE r == sweep[p]
           again == [rows EXCEPT ![r].status = "analyzing"]
<1>1. /\ RepliesTold /\ replies' \subseteq Reply
      /\ Carried /\ Pending' \subseteq Pending /\ req' \in [Request -> Asked]
  BY SameReplies, SameRequests DEF SweepStart
<1>2. sweep' \in [Proc -> Run \cup {0}] /\ SweepNamed
  BY TypeParts DEF SweepStart, SweepNamed
<1>3. r \in DOMAIN rows /\ r \in Run /\ r # 0 /\ rows[r] \in Row
  BY RowsAreFunctions DEF SweepStart, Swept
<1>4. threads' \in [Proc -> SUBSET Run]
  <2>1. threads' = threads \/ threads' = [threads EXCEPT ![p] = threads[p] \cup {r}]
    BY DEF SweepStart
  <2>2. QED
    BY <1>3, <2>1, TypeParts
<1>5. Kept
  <2>1. CASE ~ Fence(r, <<"sweep", p>>)
    BY <2>1, SameKeeps DEF SweepStart
  <2>2. CASE Fence(r, <<"sweep", p>>)
    <3>1. rows[r].status # "filtered"
      BY <2>2 DEF Fence, Active
    <3>2. CASE Startable(p, r)
      <4>1. rows' = [again EXCEPT ![r].owner = <<"thread", p>>]
        BY <1>3, <2>2, <3>2 DEF SweepStart
      <4>2. rows' = [rows EXCEPT ![r] = [rows[r] EXCEPT !.status = "analyzing",
                         !.owner = <<"thread", p>>, !.live = rows[r].live]]
        BY <1>3, <4>1, RowsAreFunctions DEF Row
      <4>3. <<"thread", p>> \in Holder /\ rows[r].live \in BOOLEAN
        BY <1>3 DEF Holder, Row
      <4>4. QED
        BY <1>3, <3>1, <4>2, <4>3, ChangeKeeps
    <3>3. CASE ~ Startable(p, r)
      <4>1. rows' = again
        BY <1>3, <2>2, <3>3 DEF SweepStart
      <4>2. rows' = [rows EXCEPT ![r] = [rows[r] EXCEPT !.status = "analyzing",
                         !.owner = rows[r].owner, !.live = rows[r].live]]
        BY <1>3, <4>1, RowsAreFunctions DEF Row
      <4>3. rows[r].owner \in Holder /\ rows[r].live \in BOOLEAN
        BY <1>3 DEF Row
      <4>4. QED
        BY <1>3, <3>1, <4>2, <4>3, ChangeKeeps
    <3>4. QED
      BY <3>2, <3>3
  <2>3. QED
    BY <2>1, <2>2
<1>6. QED
  BY <1>1, <1>2, <1>4, <1>5, EffectParts, TypeParts DEF SweepStart

\* A lease that runs out changes neither owner nor status; a filtered run has none.
LEMMA LapseKeeps ==
  ASSUME IInv, NEW r \in DOMAIN rows, rows[r].live,
         rows' = [rows EXCEPT ![r].live = FALSE]
  PROVE  Kept
<1>1. rows[r] \in Row /\ TypeOK /\ rows[r].status # "filtered"
  BY RowsAreFunctions DEF IInv, Untouched
<1> DEFINE row == [rows[r] EXCEPT !.live = FALSE]
<1>2. row \in Row /\ row.key = rows[r].key /\ row.payload = rows[r].payload
        /\ row.status = rows[r].status
  BY <1>1 DEF Row
<1>3. rows' = [rows EXCEPT ![r] = row]
  OBVIOUS
<1> HIDE DEF row
<1>4. QED
  BY <1>1, <1>2, <1>3, UpdateKeeps

LEMMA LeaseEffect ==
  ASSUME IInv, NEW r \in DOMAIN rows, Expire(r) \/ LoseLease(r)
  PROVE  Effect
<1>1. TypeOK /\ Roomy /\ faults' \in 0..MaxFaults
  BY IngressAssumption, TypeParts DEF IInv, Expire, LoseLease, Fault
<1>2. /\ SweepNamed /\ RepliesTold /\ replies' \subseteq Reply
      /\ Carried /\ Pending' \subseteq Pending /\ req' \in [Request -> Asked]
  BY <1>1, SameSweeps, SameReplies, SameRequests DEF Expire, LoseLease
<1>3. Kept
  BY LapseKeeps DEF Expire, LoseLease
<1>4. QED
  BY <1>1, <1>2, <1>3, EffectParts, TypeParts DEF Expire, LoseLease

-----------------------------------------------------------------------------
(* Faults, shutdown and restart, and the steps that touch one process.     *)

LEMMA FailsEffect ==
  ASSUME IInv, NEW q \in Request, Fails(q)
  PROVE  Effect
<1>1. TypeOK /\ Roomy /\ faults' \in 0..MaxFaults
  BY IngressAssumption, TypeParts DEF IInv, Fails, Fault
<1>2. Kept /\ SweepNamed /\ RepliesTold /\ replies' \subseteq Reply
  BY <1>1, SameKeeps, SameSweeps, SameReplies DEF Fails
<1>3. QED
  BY <1>1, <1>2, EndsWell, EffectParts, TypeParts DEF Fails

LEMMA GoneEffect ==
  ASSUME IInv, NEW p \in Proc, Gone(p), faults' \in 0..MaxFaults
  PROVE  Effect
<1>1. TypeOK /\ Roomy
  BY DEF IInv
<1>2. Kept /\ RepliesTold /\ replies' \subseteq Reply
  BY <1>1, SameKeeps, SameReplies DEF Gone
<1>3. Carried /\ Pending' \subseteq Pending /\ req' \in [Request -> Asked]
  <2>1. req \in [Request -> Asked]
    BY <1>1, TypeParts
  <2>2. QED
    BY <2>1, OffIsAsked DEF Gone, Carried, Pending, Late
<1>4. sweep' \in [Proc -> Run \cup {0}] /\ SweepNamed
  BY <1>1, TypeParts DEF Gone, SweepNamed
<1>5. QED
  BY <1>1, <1>2, <1>3, <1>4, EffectParts, TypeParts DEF Gone

LEMMA ProcessEffect ==
  ASSUME IInv, NEW p \in Proc, Cool(p) \/ Crash(p) \/ Shutdown(p) \/ Exit(p) \/ Restart(p)
  PROVE  Effect
<1>1. TypeOK /\ Roomy
  BY DEF IInv
<1>2. CASE Crash(p) \/ Exit(p)
  BY <1>1, <1>2, GoneEffect, IngressAssumption, TypeParts DEF Crash, Exit, Fault
<1>3. CASE Cool(p) \/ Shutdown(p) \/ Restart(p)
  <2>1. /\ Kept /\ SweepNamed /\ RepliesTold /\ replies' \subseteq Reply
        /\ Carried /\ Pending' \subseteq Pending /\ req' \in [Request -> Asked]
    BY <1>1, <1>3, SameKeeps, SameSweeps, SameReplies, SameRequests
    DEF Cool, Shutdown, Restart
  <2>2. faults' \in 0..MaxFaults
    BY <1>1, <1>3, IngressAssumption, TypeParts DEF Cool, Shutdown, Restart, Fault
  <2>3. QED
    BY <1>1, <1>3, <2>1, <2>2, EffectParts, TypeParts DEF Cool, Shutdown, Restart
<1>4. QED
  BY <1>2, <1>3

LEMMA BreaksEffect ==
  ASSUME IInv, NEW p \in Proc, NEW r \in DOMAIN rows, Breaks(p, r)
  PROVE  Effect
<1>1. TypeOK /\ Roomy /\ faults' \in 0..MaxFaults
  BY IngressAssumption, TypeParts DEF IInv, Breaks, Fault
<1>2. /\ Kept /\ SweepNamed /\ RepliesTold /\ replies' \subseteq Reply
      /\ Carried /\ Pending' \subseteq Pending /\ req' \in [Request -> Asked]
  BY <1>1, SameKeeps, SameSweeps, SameReplies, SameRequests DEF Breaks
<1>3. QED
  BY <1>1, <1>2, EffectParts, TypeParts DEF Breaks

LEMMA StutterEffect ==
  ASSUME IInv, UNCHANGED vars
  PROVE  Effect
<1>1. TypeOK /\ Roomy
  BY DEF IInv
<1>2. QED
  BY <1>1, SameKeeps, SameSweeps, SameReplies, SameRequests, EffectParts, TypeParts DEF vars

-----------------------------------------------------------------------------
(* The insertion, and every step.                                          *)

\* create_or_get inserts a row under a key no row has.
Inserted(q) == Create(q) /\ Insertable(req[q].key)

LEMMA NextEffect ==
  ASSUME IInv, [Next]_vars
  PROVE  Effect \/ \E q \in Request : Inserted(q)
<1>1. CASE \E q \in Request, p \in Proc, k \in Key \cup {NoKey}, d \in Payload :
             Lookup(q, p, k, d)
  BY <1>1, LookupEffect
<1>2. CASE \E q \in Request : RequestStep(q) \/ Fails(q)
  BY <1>2, GateEffect, CreateReused, ClaimOwnEffect, AttachEffect, StartEffect, FailsEffect
  DEF RequestStep, Inserted
<1>3. CASE \E r \in DOMAIN rows : \/ \E p \in Proc : \/ Finish(p, r) \/ Breaks(p, r)
                                                     \/ SweepClaim(p, r)
                                  \/ Expire(r) \/ LoseLease(r)
  BY <1>3, FinishEffect, BreaksEffect, SweepClaimEffect, LeaseEffect
<1>4. CASE \E p \in Proc : \/ SweepStart(p) \/ Cool(p)
                           \/ Crash(p) \/ Shutdown(p) \/ Exit(p) \/ Restart(p)
  BY <1>4, SweepStartEffect, ProcessEffect
<1>5. CASE UNCHANGED vars
  BY <1>5, StutterEffect
<1>6. QED
  BY <1>1, <1>2, <1>3, <1>4, <1>5 DEF Next

\* Every step but an insertion keeps the invariant.
LEMMA EffectInductive ==
  ASSUME IInv, Effect
  PROVE  IInv'
<1>1. /\ \A r \in DOMAIN rows : /\ rows'[r].key = rows[r].key
                                /\ rows'[r].payload = rows[r].payload
      /\ DOMAIN rows' = DOMAIN rows
  BY RowsAreFunctions DEF Effect, Kept, IInv
<1>2. ASSUME NEW q \in Request PROVE Knows(q)'
  BY <1>1 DEF Effect, Carried, Late, IInv, Knows
<1>3. ASSUME NEW p \in Proc PROVE Swept(p)'
  BY <1>1 DEF Effect, SweepNamed, IInv, Swept
<1>4. ASSUME NEW a \in replies' PROVE Told(a)'
  <2>1. Told(a)
    BY DEF Effect, RepliesTold, IInv
  <2>2. QED
    BY <1>1, <2>1 DEF Told
<1>5. ASSUME NEW r \in DOMAIN rows' PROVE Untouched(r)'
  BY <1>1 DEF Effect, Kept, IInv, Untouched
<1>6. OneRunPerKey'
  BY <1>1 DEF IInv, OneRunPerKey
<1>7. TypeOK' /\ Roomy'
  BY DEF Effect
<1>8. QED
  BY <1>2, <1>3, <1>4, <1>5, <1>6, <1>7 DEF IInv

\* The row an insertion makes.
Made(q) == [key |-> req[q].key, payload |-> req[q].payload,
            status |-> IF req[q].cause = "run_created" THEN "analyzing" ELSE "filtered",
            owner |-> Nobody, live |-> FALSE]

\* The rows after an insertion: the old ones, and the new one under a key of its own.
Grown(q) ==
  /\ rows' \in Seq(Row)
  /\ Len(rows') = Len(rows) + 1
  /\ DOMAIN rows' = DOMAIN rows \cup {Len(rows) + 1}
  /\ \A r \in DOMAIN rows : rows'[r] = rows[r]
  /\ rows'[Len(rows) + 1] = Made(q)

LEMMA InsertedGrows ==
  ASSUME IInv, NEW q \in Request, Inserted(q)
  PROVE  Grown(q) /\ Made(q) \in Row
<1>1. req[q] \in Asked
  BY TypeParts DEF IInv
<1>2. Made(q) \in Row
  BY <1>1 DEF Made, Asked, Row, Holder
<1>3. rows' = Append(rows, Made(q))
  BY DEF Inserted, Create, Made
<1>4. rows \in Seq(Row) /\ Len(rows) \in Nat
  BY TypeParts, RowsAreFunctions DEF IInv
<1> HIDE DEF Made
<1>5. /\ rows' \in Seq(Row)
      /\ Len(rows') = Len(rows) + 1
      /\ \A i \in 1..Len(rows) : rows'[i] = rows[i]
      /\ rows'[Len(rows) + 1] = Made(q)
  BY <1>2, <1>3, <1>4, AppendProperties
<1>6. DOMAIN rows = 1..Len(rows) /\ DOMAIN rows' = 1..(Len(rows) + 1)
  BY <1>4, <1>5
<1>7. 1..(Len(rows) + 1) = (1..Len(rows)) \cup {Len(rows) + 1}
  BY <1>4
<1>8. QED
  BY <1>2, <1>5, <1>6, <1>7 DEF Grown

\* The request that inserts is no longer pending, so that its row has its place.
LEMMA InsertedRoomy ==
  ASSUME IInv, NEW q \in Request, Grown(q), q \in Pending, Pending' = Pending \ {q}
  PROVE  Roomy' /\ Len(rows) + 1 \in Run /\ Len(rows') <= MaxRun
<1>1. Cardinality(Pending \ {q}) = Cardinality(Pending) - 1
  BY PendingFinite, FS_RemoveElement
<1>2. Cardinality(Pending \ {q}) \in Nat
  BY PendingFinite, FS_Subset, FS_CardinalityType
<1>3. Len(rows) \in Nat /\ MaxRun \in Nat /\ Len(rows') = Len(rows) + 1
  BY RowsAreFunctions, IngressAssumption DEF IInv, Grown
<1>4. Len(rows) + Cardinality(Pending) <= MaxRun /\ Cardinality(Pending) \in Nat
  BY PendingFinite DEF IInv, Roomy
<1>5. Cardinality(Pending') = Cardinality(Pending) - 1 /\ Cardinality(Pending') \in Nat
  BY <1>1, <1>2
<1>6. Len(rows') + Cardinality(Pending') <= MaxRun
  BY <1>3, <1>4, <1>5
<1>7. QED
  BY <1>3, <1>4, <1>5, <1>6 DEF Roomy, Run

\* What an insertion does to the request and to the replies.
LEMMA InsertedRequest ==
  ASSUME IInv, NEW q \in Request, Inserted(q), Len(rows) + 1 \in Run
  PROVE  /\ req' \in [Request -> Asked]
         /\ Pending' = Pending \ {q}
         /\ q \in Pending
         /\ \A o \in Request \ {q} : req'[o] = req[o]
         /\ req'[q].step \in Late => /\ req'[q].run = Len(rows) + 1
                                     /\ req'[q].key = req[q].key
                                     /\ req'[q].payload = req[q].payload
         /\ replies' \subseteq Reply
         /\ \A a \in replies' : \/ a \in replies
                                \/ /\ a.run = Len(rows) + 1
                                   /\ a.key = req[q].key
                                   /\ a.payload = req[q].payload
<1> DEFINE n == Len(rows) + 1
<1>1. req \in [Request -> Asked] /\ req[q] \in Asked /\ replies \subseteq Reply
  BY TypeParts DEF IInv
<1>2. req[q].step = "create" /\ n \in Run
  BY DEF Inserted, Create
<1>3. CASE req[q].cause = "run_created"
  <2> DEFINE r == [req[q] EXCEPT !.step = "claim", !.run = n]
  <2>1. r \in Asked /\ r.step = "claim" /\ r.run = n /\ r.key = req[q].key
          /\ r.payload = req[q].payload
    BY <1>1, <1>2 DEF Asked
  <2>2. req' = [req EXCEPT ![q] = r] /\ replies' = replies
    BY <1>3 DEF Inserted, Create, Goes
  <2> HIDE DEF r
  <2>3. QED
    BY <1>1, <1>2, <2>1, <2>2 DEF Pending
<1>4. CASE req[q].cause # "run_created"
  <2>1. Answers(q, n)
    BY <1>4 DEF Inserted, Create
  <2>2. req' = [req EXCEPT ![q] = Off]
    BY <2>1 DEF Answers, Replies, Ends, Goes
  <2> DEFINE a == [key |-> req[q].key, payload |-> req[q].payload, run |-> n]
  <2>3. replies' = replies \/ (req[q].key # NoKey /\ replies' = replies \cup {a})
    BY <2>1 DEF Answers, Replies
  <2>4. req[q].key # NoKey => a \in Reply
    BY <1>1, <1>2 DEF Asked, Reply
  <2>5. /\ replies' \subseteq Reply
        /\ \A b \in replies' : b \in replies \/ b = a
    BY <1>1, <2>3, <2>4
  <2>6. Off.step \notin Late
    BY OffIsAsked DEF Late
  <2>7. QED
    BY <1>1, <1>2, <2>2, <2>5, <2>6, OffIsAsked DEF Pending
<1>5. QED
  BY <1>3, <1>4

LEMMA InsertedInductive ==
  ASSUME IInv, NEW q \in Request, Inserted(q)
  PROVE  IInv'
<1> DEFINE n == Len(rows) + 1
<1>1. Grown(q) /\ Made(q) \in Row /\ n \notin DOMAIN rows
  BY InsertedGrows, RowsAreFunctions DEF IInv
<1>2. q \in Pending /\ Pending' = Pending \ {q}
  <2> DEFINE r == [req[q] EXCEPT !.step = "claim", !.run = n]
  <2>1. req \in [Request -> Asked] /\ req[q] \in Asked /\ req[q].step = "create"
    BY TypeParts DEF IInv, Inserted, Create
  <2>2. r.step = "claim"
    BY <2>1 DEF Asked
  <2>3. req' = [req EXCEPT ![q] = r] \/ req' = [req EXCEPT ![q] = Off]
    BY DEF Inserted, Create, Goes, Answers, Replies, Ends
  <2> HIDE DEF r
  <2>4. QED
    BY <2>1, <2>2, <2>3, OffIsAsked DEF Pending
<1>3. Roomy' /\ n \in Run /\ Len(rows') <= MaxRun
  BY <1>1, <1>2, InsertedRoomy
<1>4. TypeOK'
  <2>1. req' \in [Request -> Asked] /\ replies' \subseteq Reply
    BY <1>3, InsertedRequest
  <2>2. QED
    BY <1>1, <1>3, <2>1, TypeParts DEF IInv, Grown, TypeOK, Inserted, Create, Asked, Reply
<1>5. ASSUME NEW o \in Request PROVE Knows(o)'
  <2>1. CASE o = q
    BY <1>1, <1>3, <2>1, InsertedRequest DEF Knows, Grown, Made, Late
  <2>2. CASE o # q
    BY <1>1, <1>3, <2>2, InsertedRequest DEF Knows, Grown, IInv
  <2>3. QED
    BY <2>1, <2>2
<1>6. ASSUME NEW p \in Proc PROVE Swept(p)'
  BY <1>1 DEF Inserted, Create, IInv, Swept, Grown
<1>7. ASSUME NEW a \in replies' PROVE Told(a)'
  <2>1. CASE a \in replies
    BY <1>1, <2>1 DEF IInv, Told, Grown
  <2>2. CASE a \notin replies
    BY <1>1, <1>3, <2>2, InsertedRequest DEF Told, Grown, Made
  <2>3. QED
    BY <2>1, <2>2
<1>8. ASSUME NEW r \in DOMAIN rows' PROVE Untouched(r)'
  BY <1>1 DEF IInv, Untouched, Grown, Made
<1>9. OneRunPerKey'
  <2>1. ASSUME NEW r \in DOMAIN rows PROVE req[q].key # NoKey => rows[r].key # req[q].key
    BY DEF Inserted, Insertable, RunsOf
  <2>2. \A r \in DOMAIN rows : rows'[r].key = rows[r].key
    BY <1>1 DEF Grown
  <2>3. rows'[n].key = req[q].key /\ DOMAIN rows' = DOMAIN rows \cup {n}
    BY <1>1 DEF Grown, Made
  <2>4. OneRunPerKey
    BY DEF IInv
  <2> HIDE DEF n
  <2>5. QED
    BY <2>1, <2>2, <2>3, <2>4 DEF OneRunPerKey
<1>10. QED
  BY <1>3, <1>4, <1>5, <1>6, <1>7, <1>8, <1>9 DEF IInv

-----------------------------------------------------------------------------
(* The invariant holds.                                                    *)

LEMMA InitInv == Init => IInv
<1> SUFFICES ASSUME Init PROVE IInv
  OBVIOUS
<1>1. rows = <<>> /\ rows \in Seq(Row) /\ Len(rows) = 0 /\ DOMAIN rows = {}
  BY DEF Init
<1>2. TypeOK
  BY <1>1, OffIsAsked, IngressAssumption DEF Init, TypeOK, Asked, Run
<1>3. Pending = {} /\ \A q \in Request : req[q].step = "off"
  BY OffIsAsked DEF Init, Pending
<1>4. Roomy
  BY <1>1, <1>3, FS_EmptySet, IngressAssumption DEF Roomy
<1>5. QED
  BY <1>1, <1>2, <1>3, <1>4 DEF Init, IInv, Knows, Swept, Told, Untouched, OneRunPerKey

LEMMA Inductive == IInv /\ [Next]_vars => IInv'
BY NextEffect, EffectInductive, InsertedInductive

LEMMA Invariant == Spec => []IInv
BY InitInv, Inductive, PTL DEF Spec

\* The types of the entrance's state.
THEOREM TypeCorrect == Spec => []TypeOK
<1>1. IInv => TypeOK
  BY DEF IInv
<1>2. QED
  BY <1>1, Invariant, PTL

\* The atomic insert of create_or_get lets two rows never have one ingest key, however
\* many requests of however many processes look the key up first, and whoever dies.
THEOREM OneRun == Spec => []OneRunPerKey
<1>1. IInv => OneRunPerKey
  BY DEF IInv
<1>2. QED
  BY <1>1, Invariant, PTL

\* Whoever is told of a run for a key is told the same run, made from the payload it sent.
THEOREM Agreement == Spec => []RepliesAgree
<1>1. IInv => RepliesAgree
  <2> SUFFICES ASSUME IInv, NEW a \in replies, NEW b \in replies
               PROVE  /\ rows[a.run].payload = a.payload
                      /\ a.key = b.key => a.run = b.run
    BY DEF RepliesAgree
  <2>1. Told(a) /\ Told(b) /\ a.key # NoKey
    BY TypeParts, IngressAssumption DEF IInv, Reply
  <2>2. QED
    BY <2>1 DEF IInv, Told, OneRunPerKey
<1>2. QED
  BY <1>1, Invariant, PTL

\* What was filtered under a key stays filtered: no claim, sweep, thread or repeated
\* request ever changes its row.
THEOREM FilteredStays == Spec => FilteredIsFinal
<1> DEFINE Stay == \A r \in DOMAIN rows : rows[r].status = "filtered" => rows'[r] = rows[r]
<1>1. IInv /\ [Next]_vars => [Stay]_vars
  <2> SUFFICES ASSUME IInv, [Next]_vars PROVE Stay
    OBVIOUS
  <2>1. CASE Effect
    BY <2>1 DEF Effect, Kept
  <2>2. CASE \E q \in Request : Inserted(q)
    BY <2>2, InsertedGrows DEF Grown
  <2>3. QED
    BY <2>1, <2>2, NextEffect
<1>2. QED
  BY <1>1, Invariant, PTL DEF Spec, FilteredIsFinal
=============================================================================
