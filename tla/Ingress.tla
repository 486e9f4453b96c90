------------------------------- MODULE Ingress -------------------------------
(***************************************************************************)
(* services/agent_runtime.py, from the HTTP request that brings a          *)
(* detection to the pipeline thread that works on its run: lookup, report  *)
(* cooldown, atomic insert, claim, evidence, start; the recovery sweep     *)
(* that claims what nobody works on; shutdown, exit, crash and restart of  *)
(* the processes.  The processes share agent_runs and nothing else.        *)
(*                                                                         *)
(* A statement of the store is one step (RunStore).  Instead of the        *)
(* fencing token a row names the piece of code that got it: a request, the *)
(* sweep of a process, or the one pipeline thread a process has per run.   *)
(* Detections are of one camera, type and zone.                            *)
(***************************************************************************)
EXTENDS Naturals, Sequences, FiniteSets

CONSTANTS
  Proc,         \* backend processes
  Request,      \* requests in flight; senders repeat them as they like
  Key,          \* ingest keys
  NoKey,        \* a detection without a source_event_id
  Payload,      \* what a request carries (ingest_payload_hash)
  Incident,     \* the payloads in which perception finds an incident
  Nobody,       \* owner_id IS NULL
  MaxRun,       \* bound: runs
  MaxFaults     \* bound: crashes, shutdowns, lost leases, database errors

ASSUME IngressAssumption ==
  /\ Proc # {} /\ Payload # {}
  /\ IsFiniteSet(Request)
  /\ Nobody \notin Request \cup ({"sweep", "thread"} \X Proc)
  /\ NoKey \notin Key
  /\ Incident \subseteq Payload
  /\ MaxRun \in Nat
  /\ MaxFaults \in Nat

VARIABLES
  rows,         \* agent_runs in the order of creation; a run is its index
  phase,        \* phase[p]: "up", "closing" (not accepting runs) or "down"
  cooling,      \* cooling[p]: _last_report holds a recent entry
  threads,      \* threads[p]: the runs p has a live pipeline thread for
  sweep,        \* sweep[p]: the run p's sweep has claimed, 0 between claims
  req,          \* req[q]: the request q
  replies,      \* every reply so far that names a run
  faults        \* faults so far

vars == <<rows, phase, cooling, threads, sweep, req, replies, faults>>

Run == 1..MaxRun

Holder == {Nobody} \cup Request \cup ({"sweep", "thread"} \X Proc)

Row == [key : Key \cup {NoKey}, payload : Payload,
        status : {"analyzing", "retryable_failed", "filtered", "settled"},
        owner : Holder, live : BOOLEAN]

Off == [step |-> "off", proc |-> CHOOSE p \in Proc : TRUE, key |-> NoKey,
        payload |-> CHOOSE d \in Payload : TRUE, cause |-> "run_created",
        run |-> 0]

TypeOK ==
  /\ rows \in Seq(Row) /\ Len(rows) <= MaxRun
  /\ phase \in [Proc -> {"up", "closing", "down"}]
  /\ cooling \in [Proc -> BOOLEAN]
  /\ threads \in [Proc -> SUBSET Run]
  /\ sweep \in [Proc -> Run \cup {0}]
  /\ req \in [Request ->
               [step : {"off", "gate", "create", "claim", "attach",
                        "start"},
                proc : Proc, key : Key \cup {NoKey}, payload : Payload,
                cause : {"run_created", "no_policy_incident", "cooldown"},
                run : Run \cup {0}]]
  /\ replies \subseteq [key : Key, payload : Payload, run : Run]
  /\ faults \in 0..MaxFaults
-----------------------------------------------------------------------------
(* Checks.  Names ending in M are plausible mistakes.                      *)

Active == {"analyzing", "retryable_failed"}

\* The run that owns an ingest key.
RunsOf(k) == {r \in DOMAIN rows : rows[r].key = k}

InsertableM(k) == k = k

\* INSERT ... ON CONFLICT DO NOTHING on the unique index of ingest_key.
Insertable(k) == k = NoKey \/ RunsOf(k) = {}

MatchesM(r, d) == r \in DOMAIN rows

\* A key that comes with another payload is a conflict.
Matches(r, d) == rows[r].payload = d

ClaimableM1(r) == rows[r].owner = Nobody

ClaimableM2(r) == rows[r].status \in Active /\ rows[r].owner = Nobody

Claimable(r) == /\ rows[r].status \in Active
                /\ rows[r].owner = Nobody \/ ~ rows[r].live

Fence(r, who) == /\ rows[r].owner = who
                 /\ rows[r].live
                 /\ rows[r].status \in Active

\* _start_pipeline: accepting, and no live thread for the run in this process.
Startable(p, r) == phase[p] = "up" /\ r \notin threads[p]
-----------------------------------------------------------------------------
Init ==
  /\ rows = <<>>
  /\ phase = [p \in Proc |-> "up"]
  /\ cooling = [p \in Proc |-> FALSE]
  /\ threads = [p \in Proc |-> {}]
  /\ sweep = [p \in Proc |-> 0]
  /\ req = [q \in Request |-> Off]
  /\ replies = {}
  /\ faults = 0

Goes(q, r) == req' = [req EXCEPT ![q] = r]

Ends(q) == Goes(q, Off)

\* The response; a detection without a key is never asked for again.
Replies(q, r, k, d) ==
  /\ Ends(q)
  /\ replies' = IF k = NoKey THEN replies
                ELSE replies \cup {[key |-> k, payload |-> d, run |-> r]}

Answers(q, r) == Replies(q, r, req[q].key, req[q].payload)

\* The existing run, or IngestConflictError.
Existing(q, k, d) ==
  \E r \in RunsOf(k) : IF Matches(r, d) THEN Replies(q, r, k, d)
                                        ELSE Ends(q) /\ UNCHANGED replies

\* One request of a process per key (_ingest_locks), until its response.
KeyLocked(p, k) ==
  /\ k # NoKey
  /\ \E o \in Request : /\ req[o].step # "off"
                        /\ req[o].proc = p
                        /\ req[o].key = k

\* MaxRun leaves room for the run of one more request.
Room ==
  Len(rows) + Cardinality({q \in Request : req[q].step \in {"gate", "create"}})
    < MaxRun

\* A request arrives and looks its key up.
Lookup(q, p, k, d) ==
  /\ req[q].step = "off"
  /\ phase[p] # "down"
  /\ ~ KeyLocked(p, k)
  /\ \/ /\ k = NoKey \/ RunsOf(k) = {}
        /\ Room
        /\ Goes(q, [step |-> "gate", proc |-> p, key |-> k, payload |-> d,
                    cause |-> "run_created", run |-> 0])
        /\ UNCHANGED replies
     \/ /\ k # NoKey
        /\ Existing(q, k, d)
  /\ UNCHANGED <<rows, phase, cooling, threads, sweep, faults>>

\* The transition detail takes the place of the filter reason.
VerdictM(q) ==
  IF req[q].payload \notin Incident \/ cooling[req[q].proc] THEN "filtered"
  ELSE "run_created"

Verdict(q) ==
  CASE req[q].payload \notin Incident -> "no_policy_incident"
    [] req[q].payload \in Incident /\ cooling[req[q].proc] -> "cooldown"
    [] OTHER -> "run_created"

\* perception and _should_report: reporting starts the cooldown.
Gate(q) ==
  /\ req[q].step = "gate"
  /\ IF req[q].key = NoKey /\ Verdict(q) # "run_created"
     THEN Ends(q)
     ELSE Goes(q, [req[q] EXCEPT !.step = "create", !.cause = Verdict(q)])
  /\ cooling' = IF Verdict(q) = "run_created"
                THEN [cooling EXCEPT ![req[q].proc] = TRUE] ELSE cooling
  /\ UNCHANGED <<rows, phase, threads, sweep, replies, faults>>

\* create_or_get
Create(q) ==
  /\ req[q].step = "create"
  /\ IF Insertable(req[q].key)
     THEN /\ rows' = Append(rows,
               [key |-> req[q].key, payload |-> req[q].payload,
                status |-> IF req[q].cause = "run_created" THEN "analyzing"
                                                           ELSE "filtered",
                owner |-> Nobody, live |-> FALSE])
          /\ IF req[q].cause = "run_created"
             THEN /\ Goes(q, [req[q] EXCEPT !.step = "claim",
                                            !.run = Len(rows) + 1])
                  /\ UNCHANGED replies
             ELSE Answers(q, Len(rows) + 1)
     ELSE Existing(q, req[q].key, req[q].payload) /\ UNCHANGED rows
  /\ UNCHANGED <<phase, cooling, threads, sweep, faults>>

Own(r, who) == rows' = [rows EXCEPT ![r].owner = who, ![r].live = TRUE]

\* A sweep may have claimed the new run first: then its evidence is not attached.
ClaimOwn(q) ==
  /\ req[q].step = "claim"
  /\ IF Claimable(req[q].run)
     THEN /\ Own(req[q].run, q)
          /\ Goes(q, [req[q] EXCEPT !.step = "attach"])
          /\ UNCHANGED replies
     ELSE Answers(q, req[q].run) /\ UNCHANGED rows
  /\ UNCHANGED <<phase, cooling, threads, sweep, faults>>

\* Evidence file, snapshot under the fence, first broadcast.
Attach(q) ==
  /\ req[q].step = "attach"
  /\ IF Fence(req[q].run, q)
     THEN Goes(q, [req[q] EXCEPT !.step = "start"])
     ELSE Ends(q)
  /\ UNCHANGED <<rows, phase, cooling, threads, sweep, replies, faults>>

\* The thread of p takes over what `who' has; it starts even with a stale token.
Starts(p, r, who) ==
  /\ threads' = [threads EXCEPT ![p] = @ \cup {r}]
  /\ rows' = IF rows[r].owner = who
             THEN [rows EXCEPT ![r].owner = <<"thread", p>>] ELSE rows

\* A process that closes gives the run back to recovery, still under its lease.
Start(q) ==
  /\ req[q].step = "start"
  /\ IF Startable(req[q].proc, req[q].run)
     THEN /\ Starts(req[q].proc, req[q].run, q)
          /\ Answers(q, req[q].run)
     ELSE /\ UNCHANGED threads
          /\ IF Fence(req[q].run, q) /\ rows[req[q].run].status = "analyzing"
             THEN /\ rows' = [rows EXCEPT ![req[q].run].status =
                                            "retryable_failed"]
                  /\ Answers(q, req[q].run)
             ELSE Ends(q) /\ UNCHANGED <<rows, replies>>
  /\ UNCHANGED <<phase, cooling, sweep, faults>>

\* The pipeline, up to its last transition; it renews its lease meanwhile.
Finish(p, r) ==
  /\ r \in threads[p]
  /\ threads' = [threads EXCEPT ![p] = @ \ {r}]
  /\ rows' = IF Fence(r, <<"thread", p>>)
             THEN [rows EXCEPT ![r].status = "settled", ![r].owner = Nobody,
                               ![r].live = FALSE]
             ELSE rows
  /\ UNCHANGED <<phase, cooling, sweep, req, replies, faults>>

\* recover_expired_runs and claim, for one candidate.  A sweep under way goes on
\* when its process begins to close.
SweepClaim(p, r) ==
  /\ phase[p] # "down"
  /\ sweep[p] = 0
  /\ Claimable(r)
  /\ Own(r, <<"sweep", p>>)
  /\ sweep' = [sweep EXCEPT ![p] = r]
  /\ UNCHANGED <<phase, cooling, threads, req, replies, faults>>

\* Marked, saved and started again, for a run without tool rows.  A refused start leaves the claim behind.
SweepStart(p) ==
  LET r == sweep[p]
      again == IF r # 0 THEN [rows EXCEPT ![r].status = "analyzing"] ELSE rows
  IN  /\ r # 0
      /\ sweep' = [sweep EXCEPT ![p] = 0]
      /\ IF ~ Fence(r, <<"sweep", p>>)
         THEN UNCHANGED <<rows, threads>>
         ELSE IF Startable(p, r)
              THEN /\ threads' = [threads EXCEPT ![p] = @ \cup {r}]
                   /\ rows' = [again EXCEPT ![r].owner = <<"thread", p>>]
              ELSE rows' = again /\ UNCHANGED threads
      /\ UNCHANGED <<phase, cooling, req, replies, faults>>

\* The code that got the run still works on it.
Busy(r) ==
  \/ \E q \in Request : /\ rows[r].owner = q
                        /\ req[q].run = r
                        /\ req[q].step \in {"attach", "start"}
  \/ \E p \in Proc : \/ rows[r].owner = <<"sweep", p>> /\ sweep[p] = r
                     \/ rows[r].owner = <<"thread", p>> /\ r \in threads[p]

Expire(r) ==
  /\ rows[r].live
  /\ ~ Busy(r)
  /\ rows' = [rows EXCEPT ![r].live = FALSE]
  /\ UNCHANGED <<phase, cooling, threads, sweep, req, replies, faults>>

\* COOLDOWNS have passed.
Cool(p) ==
  /\ cooling[p]
  /\ cooling' = [cooling EXCEPT ![p] = FALSE]
  /\ UNCHANGED <<rows, phase, threads, sweep, req, replies, faults>>
-----------------------------------------------------------------------------
(* Faults, shutdown and restart.                                           *)

Fault == faults < MaxFaults /\ faults' = faults + 1

\* A database error: the request fails with 500 wherever it is.
Fails(q) ==
  /\ Fault
  /\ req[q].step # "off"
  /\ Ends(q)
  /\ UNCHANGED <<rows, phase, cooling, threads, sweep, replies>>

\* A pipeline fails and its failure cannot be written either.
Breaks(p, r) ==
  /\ Fault
  /\ r \in threads[p]
  /\ threads' = [threads EXCEPT ![p] = @ \ {r}]
  /\ UNCHANGED <<rows, phase, cooling, sweep, req, replies>>

\* A request or a sweep takes longer than the lease, or a renewal comes too late.
LoseLease(r) ==
  /\ Fault
  /\ rows[r].live
  /\ Busy(r)
  /\ rows' = [rows EXCEPT ![r].live = FALSE]
  /\ UNCHANGED <<phase, cooling, threads, sweep, req, replies>>

Gone(p) ==
  /\ phase' = [phase EXCEPT ![p] = "down"]
  /\ cooling' = [cooling EXCEPT ![p] = FALSE]
  /\ threads' = [threads EXCEPT ![p] = {}]
  /\ sweep' = [sweep EXCEPT ![p] = 0]
  /\ req' = [q \in Request |-> IF req[q].proc = p THEN Off ELSE req[q]]
  /\ UNCHANGED <<rows, replies>>

Crash(p) == phase[p] # "down" /\ Fault /\ Gone(p)

\* shutdown: no new pipelines; what has not ended by the deadline is given up.
Shutdown(p) ==
  /\ Fault
  /\ phase[p] = "up"
  /\ phase' = [phase EXCEPT ![p] = "closing"]
  /\ UNCHANGED <<rows, cooling, threads, sweep, req, replies>>

Exit(p) == phase[p] = "closing" /\ Gone(p) /\ UNCHANGED faults

Restart(p) ==
  /\ phase[p] = "down"
  /\ phase' = [phase EXCEPT ![p] = "up"]
  /\ UNCHANGED <<rows, cooling, threads, sweep, req, replies, faults>>
-----------------------------------------------------------------------------
RequestStep(q) == Gate(q) \/ Create(q) \/ ClaimOwn(q) \/ Attach(q) \/ Start(q)

Next ==
  \/ \E q \in Request :
       \/ \E p \in Proc, k \in Key \cup {NoKey}, d \in Payload : Lookup(q, p, k, d)
       \/ RequestStep(q) \/ Fails(q)
  \/ \E r \in DOMAIN rows : \/ \E p \in Proc : Finish(p, r) \/ Breaks(p, r)
                                                  \/ SweepClaim(p, r)
                            \/ Expire(r) \/ LoseLease(r)
  \/ \E p \in Proc : \/ SweepStart(p) \/ Cool(p)
                     \/ Crash(p) \/ Shutdown(p) \/ Exit(p) \/ Restart(p)

Spec == Init /\ [][Next]_vars

\* Threads run on, unattended leases run out, some process sweeps, and one that closes
\* exits.  Nobody has to start a process again, and senders owe nothing.
Fairness ==
  /\ \A q \in Request : WF_vars(RequestStep(q))
  /\ \A p \in Proc : WF_vars(SweepStart(p)) /\ WF_vars(Exit(p))
  /\ \A r \in Run : /\ WF_vars(r \in DOMAIN rows /\ \E p \in Proc : SweepClaim(p, r))
                    /\ WF_vars(r \in DOMAIN rows /\ \E p \in Proc : Finish(p, r))
                    /\ WF_vars(r \in DOMAIN rows /\ Expire(r))

FairSpec == Spec /\ Fairness
-----------------------------------------------------------------------------
(* What makes the entrance correct.                                        *)

\* create_or_get, docs/agent-runtime.md "atomic insert determines the one creator":
\* two rows never have one ingest key, whoever looked before whom.
OneRunPerKey ==
  \A r, s \in DOMAIN rows :
    rows[r].key = rows[s].key /\ rows[r].key # NoKey => r = s

\* docs/getting-started.md, repeated submissions: whoever is told of a run for a key
\* is told the same run, made from the payload it sent.
RepliesAgree ==
  \A a, b \in replies :
    /\ rows[a.run].payload = a.payload
    /\ a.key = b.key => a.run = b.run

\* docs/getting-started.md: what was filtered under a key stays filtered; no sweep and
\* no repeated request turns it into an event later.
FilteredIsFinal ==
  [][\A r \in DOMAIN rows : rows[r].status = "filtered" => rows'[r] = rows[r]]_vars

\* A run that exists is worked on to its end, by the process that took it in or by
\* one that recovers it, through shutdowns, refused starts and deaths.
CreatedIsHandled ==
  \A r \in Run : (r \in DOMAIN rows /\ rows[r].status \in Active)
                   ~> (r \in DOMAIN rows /\ rows[r].status \notin Active)
==============================================================================
