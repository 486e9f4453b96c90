------------------------------ MODULE RunStore ------------------------------
(***************************************************************************)
(* services/run_store.py and services/run_lease.py: the SQLite table       *)
(* agent_runs shared by several worker processes of one host.              *)
(*                                                                         *)
(* Every process has one RunStore, whose RLock serialises its threads, and *)
(* no lock is shared between processes.  A claim, a renewal, a release and *)
(* a creation are one SQL statement each.  Every other write reads the row *)
(* (SELECT), checks fence and transition table in Python, and writes it    *)
(* with an UPDATE whose WHERE clause repeats the fence but not the status: *)
(* call[p] is such a write of process p between its two statements, and    *)
(* other processes run in the gap.                                         *)
(*                                                                         *)
(* The wall clock is `now'.  A statement may wait for the RLock or for the *)
(* database after time.time() was read, so the time it compares with is    *)
(* any t <= now.                                                           *)
(***************************************************************************)
EXTENDS Naturals, RunStatus

CONSTANTS
  Proc,           \* worker processes; a process keeps its owner_id (RUNTIME_OWNER_ID)
  OperatorProc,   \* the processes whose HTTP API operators use
  ReleaseProc,    \* the processes that call release_run (none does today)
  Run,            \* run ids
  NoOwner,        \* owner_id IS NULL
  LeaseTime,      \* run_lease_seconds, in clock ticks
  MaxAttempt,     \* bound: claims of one run
  MaxTime         \* bound: clock ticks

ASSUME StoreAssumption ==
  /\ OperatorProc \subseteq Proc
  /\ ReleaseProc \subseteq Proc
  /\ NoOwner \notin Proc
  /\ Run # {}
  /\ LeaseTime \in Nat \ {0}
  /\ MaxAttempt \in Nat
  /\ MaxTime \in Nat

VARIABLES
  status,         \* the agent_runs row of each run: its status, or Absent,
  owner,          \* owner_id, or NoOwner,
  leaseUntil,     \* lease_until (0 when null),
  attempt,        \* execution_attempt, the fencing token,
  snap,           \* and the execution_attempt inside event_json: whose event it is
  trail,          \* trail[r]: from and to of the last run_transitions row of r
  held,           \* held[p]: <<run, execution_attempt>> of the events in p's threads
  views,          \* views[p]: <<run, snapshot>> p's operator requests have read
  call,           \* call[p]: the write of p between its SELECT and its UPDATE
  now             \* the wall clock

rowVars == <<status, owner, leaseUntil, attempt, snap>>

vars == <<rowVars, trail, held, views, call, now>>

Attempt == 0..MaxAttempt
Time == 0..(MaxTime + LeaseTime)

Kind == {"idle", "transition", "snapshot", "mark", "patch"}

Call == [kind : Kind, run : Run, fenced : BOOLEAN, attempt : Attempt,
         seen : Status, to : Status, snap : Attempt]

Idle == [kind |-> "idle", run |-> CHOOSE r \in Run : TRUE, fenced |-> FALSE,
         attempt |-> 0, seen |-> "analyzing", to |-> "analyzing", snap |-> 0]

TypeOK ==
  /\ status \in [Run -> Status \cup {Absent}]
  /\ owner \in [Run -> Proc \cup {NoOwner}]
  /\ leaseUntil \in [Run -> Time]
  /\ attempt \in [Run -> Attempt]
  /\ snap \in [Run -> Attempt]
  /\ trail \in [Run -> (Status \cup {Absent}) \X (Status \cup {Absent})]
  /\ held \in [Proc -> SUBSET (Run \X Attempt)]
  /\ views \in [Proc -> SUBSET (Run \X Attempt)]
  /\ call \in [Proc -> Call]
  /\ now \in 0..MaxTime

-----------------------------------------------------------------------------
(* The checks of the store, and the plausible mistakes in them that the    *)
(* runs must notice (names ending in a letter M).                          *)

\* The RLock of p's RunStore is free.
LockFree(p) == call[p].kind = "idle"

FenceM(r, p, a, t) == owner[r] = p /\ leaseUntil[r] > t

\* Owner, fencing token and lease of a row that names an owner.
Fence(r, p, a, t) == owner[r] = p /\ attempt[r] = a /\ leaseUntil[r] > t

StillFencedM(p, c, t) == status[c.run] # Absent

\* _fence_where: what the UPDATE re-checks.
StillFenced(p, c, t) ==
  IF c.fenced THEN Fence(c.run, p, c.attempt, t)
              ELSE owner[c.run] = NoOwner

\* An expired lease, or no owner.
Claimable(r, t) == owner[r] = NoOwner \/ leaseUntil[r] <= t

NextAttemptM1(r) == attempt[r] + 2

NextAttemptM2(r) == IF owner[r] = NoOwner THEN attempt[r] + 1 ELSE attempt[r]

NextAttempt(r) == attempt[r] + 1

ReleasesOwnerM(to) == to \in FinalStatuses

\* release_owner: a status that is not active gives the lease back.
ReleasesOwner(to) == to \notin ActiveStatuses
-----------------------------------------------------------------------------
Init ==
  /\ status = [r \in Run |-> Absent]
  /\ owner = [r \in Run |-> NoOwner]
  /\ leaseUntil = [r \in Run |-> 0]
  /\ attempt = [r \in Run |-> 0]
  /\ snap = [r \in Run |-> 0]
  /\ trail = [r \in Run |-> <<Absent, Absent>>]
  /\ held = [p \in Proc |-> {}]
  /\ views = [p \in Proc |-> {}]
  /\ call = [p \in Proc |-> Idle]
  /\ now = 0

\* create_or_get, when the INSERT wins: an unowned row and its first audit row.
Create(p, r) ==
  /\ LockFree(p)
  /\ status[r] = Absent
  /\ \E s \in InitialStatuses :
       /\ status' = [status EXCEPT ![r] = s]
       /\ trail' = [trail EXCEPT ![r] = <<Absent, s>>]
  /\ UNCHANGED <<owner, leaseUntil, attempt, snap, held, views, call, now>>

\* claim_run: one conditional UPDATE takes the lease and a new fencing token.
Claim(p, r, t) ==
  /\ LockFree(p)
  /\ status[r] \in ActiveStatuses
  /\ Claimable(r, t)
  /\ attempt[r] < MaxAttempt
  /\ owner' = [owner EXCEPT ![r] = p]
  /\ leaseUntil' = [leaseUntil EXCEPT ![r] = t + LeaseTime]
  /\ attempt' = [attempt EXCEPT ![r] = NextAttempt(r)]
  /\ held' = [held EXCEPT ![p] = @ \cup {<<r, NextAttempt(r)>>}]
  /\ UNCHANGED <<status, snap, trail, views, call, now>>

\* renew_lease, by the heartbeat thread of a worker of p.
Renew(p, r, a, t) ==
  /\ LockFree(p)
  /\ <<r, a>> \in held[p]
  /\ Fence(r, p, a, t)
  /\ status[r] \in ActiveStatuses
  /\ leaseUntil' = [leaseUntil EXCEPT ![r] = t + LeaseTime]
  /\ UNCHANGED <<status, owner, attempt, snap, trail, held, views, call, now>>

\* release_run: the token's owner gives the lease back, whatever its expiry.
Release(p, r, a) ==
  /\ LockFree(p)
  /\ p \in ReleaseProc
  /\ <<r, a>> \in held[p]
  /\ owner[r] = p
  /\ attempt[r] = a
  /\ owner' = [owner EXCEPT ![r] = NoOwner]
  /\ leaseUntil' = [leaseUntil EXCEPT ![r] = 0]
  /\ UNCHANGED <<status, attempt, snap, trail, held, views, call, now>>

-----------------------------------------------------------------------------
(* The SELECT half of a worker's write, with the checks made on what it    *)
(* read.  A worker passes its token; a failed check raises and changes     *)
(* nothing.                                                                *)

WorkerSelect(p, r, a, kind, to) ==
  /\ LockFree(p)
  /\ <<r, a>> \in held[p]
  /\ status[r] # Absent
  /\ \E t \in 0..now : Fence(r, p, a, t)
  /\ Legal(status[r], to)
  /\ call' = [call EXCEPT ![p] =
                [kind |-> kind, run |-> r, fenced |-> TRUE, attempt |-> a,
                 seen |-> status[r], to |-> to, snap |-> a]]
  /\ UNCHANGED <<rowVars, trail, held, views, now>>

\* transition(..., event=event, owner_id, execution_attempt)
TransitionSelect(p, r, a) ==
  \E to \in Status : WorkerSelect(p, r, a, "transition", to)

\* save_snapshot(event, owner_id, execution_attempt)
SnapshotSelect(p, r, a) == WorkerSelect(p, r, a, "snapshot", status[r])

\* mark_recovery_started(run_id, detail, owner_id, execution_attempt)
MarkSelect(p, r, a) == WorkerSelect(p, r, a, "mark", status[r])

(* Operator requests pass no owner: the fence then demands an unowned row. *)

OperatorSelect(p, r, kind, to, event) ==
  /\ LockFree(p)
  /\ p \in OperatorProc
  /\ status[r] # Absent
  /\ owner[r] = NoOwner
  /\ Legal(status[r], to)
  /\ call' = [call EXCEPT ![p] =
                [kind |-> kind, run |-> r, fenced |-> FALSE, attempt |-> 0,
                 seen |-> status[r], to |-> to, snap |-> event]]
  /\ UNCHANGED <<rowVars, trail, held, views, now>>

\* approve: an approval order exists only for a run that has left analysis.
\* It writes back the event_json it read with fields of its own merged in.
PatchSelect(p, r) ==
  /\ status[r] \in Status \ ActiveStatuses
  /\ OperatorSelect(p, r, "patch", status[r], snap[r])

ApproveSelect(p, r) ==
  /\ status[r] \in Status \ ActiveStatuses
  /\ \E to \in {"succeeded", "cancelled"} :
       OperatorSelect(p, r, "transition", to, snap[r])

\* resolve_recovery reads the run first; its event is what it then writes.
ResolveRead(p, r) ==
  /\ LockFree(p)
  /\ p \in OperatorProc
  /\ status[r] = "manual_takeover"
  /\ views' = [views EXCEPT ![p] = @ \cup {<<r, snap[r]>>}]
  /\ UNCHANGED <<rowVars, trail, held, call, now>>

ResolveSelect(p, r, event) ==
  /\ <<r, event>> \in views[p]
  /\ status[r] = "manual_takeover"
  /\ \E to \in {"analyzing", "succeeded", "permanent_failed", "cancelled"} :
       OperatorSelect(p, r, "transition", to, event)

-----------------------------------------------------------------------------
(* The UPDATE half, with its audit row, in one SQLite transaction.         *)

WriteTransition(c) ==
  /\ status' = [status EXCEPT ![c.run] = c.to]
  /\ snap' = [snap EXCEPT ![c.run] = c.snap]
  /\ owner' = [owner EXCEPT ![c.run] = IF ReleasesOwner(c.to) THEN NoOwner ELSE @]
  /\ leaseUntil' = [leaseUntil EXCEPT ![c.run] = IF ReleasesOwner(c.to) THEN 0 ELSE @]
  /\ trail' = [trail EXCEPT ![c.run] = <<c.seen, c.to>>]
  /\ UNCHANGED attempt

WriteSnapshot(c) ==
  /\ snap' = [snap EXCEPT ![c.run] = c.snap]
  /\ UNCHANGED <<status, owner, leaseUntil, attempt, trail>>

WriteMark(c) ==
  /\ trail' = [trail EXCEPT ![c.run] = <<c.seen, c.seen>>]
  /\ UNCHANGED rowVars

Update(p, t) ==
  /\ ~LockFree(p)
  /\ StillFenced(p, call[p], t)
  /\ \/ call[p].kind = "transition" /\ WriteTransition(call[p])
     \/ call[p].kind \in {"snapshot", "patch"} /\ WriteSnapshot(call[p])
     \/ call[p].kind = "mark" /\ WriteMark(call[p])
  /\ call' = [call EXCEPT ![p] = Idle]
  /\ UNCHANGED <<held, views, now>>

\* rowcount is 0: StaleRunOwnerError, and nothing is written.
UpdateRefused(p, t) ==
  /\ ~LockFree(p)
  /\ ~StillFenced(p, call[p], t)
  /\ call' = [call EXCEPT ![p] = Idle]
  /\ UNCHANGED <<rowVars, trail, held, views, now>>

\* The process dies: its threads, their tokens and its open write are gone.
Crash(p) ==
  /\ held' = [held EXCEPT ![p] = {}]
  /\ views' = [views EXCEPT ![p] = {}]
  /\ call' = [call EXCEPT ![p] = Idle]
  /\ UNCHANGED <<rowVars, trail, now>>

Tick ==
  /\ now < MaxTime
  /\ now' = now + 1
  /\ UNCHANGED <<rowVars, trail, held, views, call>>

Next ==
  \/ \E p \in Proc, r \in Run :
       \/ Create(p, r)
       \/ \E t \in 0..now : Claim(p, r, t)
       \/ \E a \in Attempt :
            \/ \E t \in 0..now : Renew(p, r, a, t)
            \/ Release(p, r, a)
            \/ TransitionSelect(p, r, a)
            \/ SnapshotSelect(p, r, a)
            \/ MarkSelect(p, r, a)
            \/ ResolveSelect(p, r, a)
       \/ PatchSelect(p, r)
       \/ ApproveSelect(p, r)
       \/ ResolveRead(p, r)
  \/ \E p \in Proc : \/ \E t \in 0..now : Update(p, t) \/ UpdateRefused(p, t)
                     \/ Crash(p)
  \/ Tick

Spec == Init /\ [][Next]_vars
-----------------------------------------------------------------------------
(* What makes the store correct.                                           *)

\* claim_run, docs/agent-runtime.md "Lease and Fencing Token": a fencing token
\* is given out once.  No two processes ever hold the same attempt of a run,
\* and the newest one is only in the process the row names as owner.
TokensAreUnique ==
  \A p, q \in Proc, r \in Run, a \in Attempt :
    /\ <<r, a>> \in held[p] \cap held[q] => p = q
    /\ /\ <<r, a>> \in held[p]
       /\ a = attempt[r]
       /\ owner[r] # NoOwner
       => owner[r] = p

\* transition: a run that is not active is owned by nobody.  Operators, who
\* write without a token, would otherwise be refused on a parked run.
OnlyActiveRunsAreOwned ==
  \A r \in Run : owner[r] # NoOwner => status[r] \in ActiveStatuses

\* _fence_where: a worker whose token is stale never replaces the snapshot of a
\* newer one, whatever the clocks and the gaps.  Only an operator's request, which
\* writes the event it read earlier, can bring an older snapshot back, and only
\* while nobody owns the run.
StaleWriterNeverWins ==
  [][\A r \in Run : snap'[r] < snap[r] => owner[r] = NoOwner]_vars

\* transition: no step changes the status of a run outside the table, although
\* the UPDATE does not re-check the status the SELECT saw.
LegalTransitions ==
  [][\A r \in Run : status[r] # Absent
                      => Legal(status[r], status'[r])]_vars

\* run_transitions: whatever changes the status of a run leaves an audit row
\* with the status it really left and the status it really reached.
AuditTrailIsTrue ==
  [][\A r \in Run :
       trail'[r] # trail[r] \/ status'[r] # status[r]
         => trail'[r] = <<status[r], status'[r]>>]_vars

\* The store implements the atomic lifecycle: each UPDATE is one legal move,
\* each claim one step of the epoch, everything else invisible.
Lifecycle == INSTANCE RunLifecycle WITH
  epoch <- attempt

RefinesLifecycle == Lifecycle!Spec
=============================================================================
