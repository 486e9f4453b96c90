--------------------------- MODULE RunStoreProofs ---------------------------
(***************************************************************************)
(* Theorems about the run store, for any number of processes and runs and  *)
(* any bounds.  The store is safe without any assumption on clocks: the    *)
(* proofs never use that a lease has or has not expired.                   *)
(***************************************************************************)
EXTENDS RunStore, TLAPS

-----------------------------------------------------------------------------
(* Type correctness.                                                       *)

\* The transition table stays within the statuses.
LEMMA LegalIsStatus ==
  ASSUME NEW s \in Status \cup {Absent}, NEW to, Legal(s, to), s # Absent
  PROVE  to \in Status
BY DEF Legal, AllowedTransitions, Status, ActiveStatuses, FinalStatuses,
       ParkedStatuses, Absent

LEMMA ActiveAreStatuses ==
  /\ ActiveStatuses \subseteq Status
  /\ InitialStatuses \subseteq Status
  /\ Absent \notin Status
  /\ "manual_takeover" \in Status \ ActiveStatuses
BY DEF Status, ActiveStatuses, FinalStatuses, ParkedStatuses, InitialStatuses,
       Absent

LEMMA IdleType == Idle \in Call
<1>1. (CHOOSE r \in Run : TRUE) \in Run
  BY StoreAssumption
<1>2. 0 \in Attempt
  BY StoreAssumption DEF Attempt
<1>3. "analyzing" \in Status
  BY DEF Status, ActiveStatuses
<1>4. QED
  BY <1>1, <1>2, <1>3 DEF Idle, Call, Kind

LEMMA InitType == Init => TypeOK
BY IdleType, StoreAssumption DEF Init, TypeOK, Attempt, Time

\* What a reading of the clock and a lease computed from it can be.
LEMMA LeaseType ==
  ASSUME now \in 0..MaxTime, NEW t \in 0..now
  PROVE  t + LeaseTime \in Time /\ 0 \in Time
BY StoreAssumption DEF Time

LEMMA SelectType ==
  ASSUME TypeOK, NEW p \in Proc, NEW r \in Run, NEW f \in BOOLEAN,
         NEW a \in Attempt, NEW k \in Kind, NEW to \in Status,
         NEW s \in Attempt, status[r] # Absent,
         call' = [call EXCEPT ![p] =
                    [kind |-> k, run |-> r, fenced |-> f, attempt |-> a,
                     seen |-> status[r], to |-> to, snap |-> s]],
         UNCHANGED <<rowVars, trail, held, views, now>>
  PROVE  TypeOK'
<1>1. status[r] \in Status
  BY DEF TypeOK
<1>2. [kind |-> k, run |-> r, fenced |-> f, attempt |-> a,
       seen |-> status[r], to |-> to, snap |-> s] \in Call
  BY <1>1 DEF Call
<1>3. call' \in [Proc -> Call]
  BY <1>2 DEF TypeOK
<1>4. QED
  BY <1>3 DEF TypeOK, rowVars

LEMMA CreateType == ASSUME TypeOK, NEW p \in Proc, NEW r \in Run, Create(p, r)
                    PROVE  TypeOK'
<1>1. PICK s \in InitialStatuses :
        /\ status' = [status EXCEPT ![r] = s]
        /\ trail' = [trail EXCEPT ![r] = <<Absent, s>>]
  BY DEF Create
<1>2. s \in Status
  BY ActiveAreStatuses
<1>3. status' \in [Run -> Status \cup {Absent}]
  BY <1>1, <1>2 DEF TypeOK
<1>4. trail' \in [Run -> (Status \cup {Absent}) \X (Status \cup {Absent})]
  BY <1>1, <1>2 DEF TypeOK
<1>5. QED
  BY <1>3, <1>4 DEF Create, TypeOK

LEMMA ClaimType ==
  ASSUME TypeOK, NEW p \in Proc, NEW r \in Run, NEW t \in 0..now, Claim(p, r, t)
  PROVE  TypeOK'
<1>1. attempt[r] + 1 \in Attempt
  BY StoreAssumption DEF Claim, TypeOK, Attempt
<1>2. t + LeaseTime \in Time
  BY LeaseType DEF TypeOK
<1>3. /\ owner' \in [Run -> Proc \cup {NoOwner}]
      /\ leaseUntil' \in [Run -> Time]
      /\ attempt' \in [Run -> Attempt]
  BY <1>1, <1>2 DEF Claim, NextAttempt, TypeOK
<1>4. held' \in [Proc -> SUBSET (Run \X Attempt)]
  BY <1>1 DEF Claim, NextAttempt, TypeOK
<1>5. QED
  BY <1>3, <1>4 DEF Claim, TypeOK

LEMMA RenewType ==
  ASSUME TypeOK, NEW p \in Proc, NEW r \in Run, NEW a \in Attempt,
         NEW t \in 0..now, Renew(p, r, a, t)
  PROVE  TypeOK'
<1>1. leaseUntil' \in [Run -> Time]
  BY LeaseType DEF Renew, TypeOK
<1>2. QED
  BY <1>1 DEF Renew, TypeOK

LEMMA ReleaseType ==
  ASSUME TypeOK, NEW p \in Proc, NEW r \in Run, NEW a \in Attempt,
         Release(p, r, a)
  PROVE  TypeOK'
<1>1. 0 \in Time
  BY StoreAssumption DEF Time
<1>2. QED
  BY <1>1 DEF Release, TypeOK

LEMMA WorkerSelectType ==
  ASSUME TypeOK, NEW p \in Proc, NEW r \in Run, NEW a \in Attempt,
         NEW k \in Kind, NEW to \in Status,
         WorkerSelect(p, r, a, k, to)
  PROVE  TypeOK'
BY SelectType DEF WorkerSelect

LEMMA OperatorSelectType ==
  ASSUME TypeOK, NEW p \in Proc, NEW r \in Run, NEW s \in Attempt,
         NEW k \in Kind, NEW to \in Status,
         OperatorSelect(p, r, k, to, s)
  PROVE  TypeOK'
<1>1. 0 \in Attempt
  BY StoreAssumption DEF Attempt
<1>2. QED
  BY <1>1, SelectType DEF OperatorSelect

LEMMA UpdateType ==
  ASSUME TypeOK, NEW p \in Proc, NEW t \in 0..now, Update(p, t)
  PROVE  TypeOK'
<1> DEFINE c == call[p]
<1>1. /\ c \in Call
      /\ 0 \in Time
  BY StoreAssumption DEF TypeOK, Time
<1>2. /\ c.run \in Run
      /\ c.to \in Status
      /\ c.seen \in Status
      /\ c.snap \in Attempt
  BY <1>1 DEF Call
<1>3. call' \in [Proc -> Call]
  BY IdleType DEF Update, TypeOK
<1> HIDE DEF c
<1>4. CASE WriteTransition(c)
  <2>1. /\ status' \in [Run -> Status \cup {Absent}]
        /\ snap' \in [Run -> Attempt]
        /\ owner' \in [Run -> Proc \cup {NoOwner}]
        /\ leaseUntil' \in [Run -> Time]
    BY <1>1, <1>2, <1>4 DEF WriteTransition, TypeOK
  <2>2. trail' \in [Run -> (Status \cup {Absent}) \X (Status \cup {Absent})]
    BY <1>2, <1>4 DEF WriteTransition, TypeOK
  <2>3. QED
    BY <1>3, <1>4, <2>1, <2>2 DEF Update, WriteTransition, TypeOK
<1>5. CASE WriteSnapshot(c)
  BY <1>2, <1>3, <1>5 DEF Update, WriteSnapshot, TypeOK
<1>6. CASE WriteMark(c)
  <2>1. trail' \in [Run -> (Status \cup {Absent}) \X (Status \cup {Absent})]
    BY <1>2, <1>6 DEF WriteMark, TypeOK
  <2>2. QED
    BY <1>3, <1>6, <2>1 DEF Update, WriteMark, TypeOK, rowVars
<1>7. QED
  BY <1>4, <1>5, <1>6 DEF Update, c

LEMMA NextType == TypeOK /\ [Next]_vars => TypeOK'
<1> SUFFICES ASSUME TypeOK, [Next]_vars PROVE TypeOK'
  OBVIOUS
<1> USE ActiveAreStatuses
<1>1. CASE UNCHANGED vars
  BY <1>1 DEF vars, rowVars, TypeOK
<1>2. ASSUME NEW p \in Proc, NEW r \in Run, Create(p, r) PROVE TypeOK'
  BY <1>2, CreateType
<1>3. ASSUME NEW p \in Proc, NEW r \in Run, NEW t \in 0..now, Claim(p, r, t)
      PROVE  TypeOK'
  BY <1>3, ClaimType
<1>4. ASSUME NEW p \in Proc, NEW r \in Run, NEW a \in Attempt,
             NEW t \in 0..now, Renew(p, r, a, t)
      PROVE  TypeOK'
  BY <1>4, RenewType
<1>5. ASSUME NEW p \in Proc, NEW r \in Run, NEW a \in Attempt, Release(p, r, a)
      PROVE  TypeOK'
  BY <1>5, ReleaseType
<1>6. ASSUME NEW p \in Proc, NEW r \in Run, NEW a \in Attempt,
             \/ TransitionSelect(p, r, a)
             \/ SnapshotSelect(p, r, a)
             \/ MarkSelect(p, r, a)
      PROVE  TypeOK'
  <2>1. PICK k \in Kind, to \in Status \cup {Absent} : WorkerSelect(p, r, a, k, to)
    BY <1>6 DEF TransitionSelect, SnapshotSelect, MarkSelect, Kind, TypeOK
  <2>2. status[r] \in Status /\ Legal(status[r], to)
    BY <2>1 DEF WorkerSelect, TypeOK
  <2>3. to \in Status
    BY <2>2, LegalIsStatus DEF Status
  <2>4. QED
    BY <2>1, <2>3, WorkerSelectType
<1>7. ASSUME NEW p \in Proc, NEW r \in Run,
             \/ PatchSelect(p, r)
             \/ ApproveSelect(p, r)
             \/ \E s \in Attempt : ResolveSelect(p, r, s)
      PROVE  TypeOK'
  <2>1. snap[r] \in Attempt /\ status[r] \in Status
    BY <1>7 DEF TypeOK, PatchSelect, ApproveSelect, ResolveSelect
  <2>2. PICK k \in Kind, to \in Status, s \in Attempt :
          OperatorSelect(p, r, k, to, s)
    BY <1>7, <2>1 DEF PatchSelect, ApproveSelect, ResolveSelect, Kind, TypeOK,
                      Status, ActiveStatuses, FinalStatuses, ParkedStatuses
  <2>3. QED
    BY <2>1, <2>2, OperatorSelectType
<1>8. ASSUME NEW p \in Proc, NEW r \in Run, ResolveRead(p, r) PROVE TypeOK'
  BY <1>8 DEF ResolveRead, TypeOK, rowVars
<1>9. ASSUME NEW p \in Proc, NEW t \in 0..now, Update(p, t) PROVE TypeOK'
  BY <1>9, UpdateType
<1>10. ASSUME NEW p \in Proc, NEW t \in 0..now, UpdateRefused(p, t)
       PROVE  TypeOK'
  BY <1>10, IdleType DEF UpdateRefused, TypeOK, rowVars
<1>11. ASSUME NEW p \in Proc, Crash(p) PROVE TypeOK'
  BY <1>11, IdleType DEF Crash, TypeOK, rowVars
<1>12. CASE Tick
  BY <1>12, StoreAssumption DEF Tick, TypeOK, rowVars
<1>13. QED
  BY <1>1, <1>2, <1>3, <1>4, <1>5, <1>6, <1>7, <1>8, <1>9, <1>10, <1>11, <1>12
     DEF Next

\* Every variable of the store keeps its type: in particular the fencing token
\* and the lease stay within their bounds whatever the callers do.
THEOREM TypeCorrect == Spec => []TypeOK
<1>1. QED
  BY InitType, NextType, PTL DEF Spec
-----------------------------------------------------------------------------
(* Fencing tokens.  TokensAreUnique is not inductive: a claim might hand   *)
(* out a token somebody already has, were there tokens above the row's.    *)

TokenInv ==
  /\ TokensAreUnique
  /\ \A p \in Proc, r \in Run, a \in Attempt :
       <<r, a>> \in held[p] => a <= attempt[r]

LEMMA TokenInit == Init => TokenInv
BY DEF Init, TokenInv, TokensAreUnique

\* Only a claim gives out a token, and it gives out one above all others.
LEMMA TokenClaim ==
  ASSUME TypeOK, TokenInv, NEW p \in Proc, NEW r \in Run, NEW t \in 0..now,
         Claim(p, r, t)
  PROVE  TokenInv'
<1> DEFINE new == attempt[r] + 1
<1>1. /\ held' = [held EXCEPT ![p] = @ \cup {<<r, new>>}]
      /\ attempt' = [attempt EXCEPT ![r] = new]
      /\ owner' = [owner EXCEPT ![r] = p]
  BY DEF Claim, NextAttempt
<1>2. attempt[r] \in Nat
  BY StoreAssumption DEF TypeOK, Attempt
<1>3. \A q \in Proc : <<r, new>> \notin held[q]
  <2> SUFFICES ASSUME NEW q \in Proc, <<r, new>> \in held[q] PROVE FALSE
    OBVIOUS
  <2>1. new \in Attempt
    BY DEF TypeOK
  <2>2. new <= attempt[r]
    BY <2>1 DEF TokenInv
  <2>3. QED
    BY <1>2, <2>2
<1>4. ASSUME NEW q \in Proc, NEW s \in Run, NEW a \in Attempt,
             <<s, a>> \in held'[q]
      PROVE  \/ <<s, a>> \in held[q] /\ <<s, a>> # <<r, new>>
             \/ q = p /\ s = r /\ a = new
  BY <1>1, <1>3, <1>4 DEF TypeOK
<1>5. ASSUME NEW q \in Proc, NEW s \in Run, NEW a \in Attempt,
             <<s, a>> \in held'[q]
      PROVE  a <= attempt'[s]
  <2>1. CASE s = r
    BY <1>1, <1>2, <1>4, <1>5, <2>1 DEF TypeOK, TokenInv, Attempt
  <2>2. CASE s # r
    BY <1>1, <1>4, <1>5, <2>2 DEF TypeOK, TokenInv
  <2>3. QED
    BY <2>1, <2>2
<1>6. ASSUME NEW q \in Proc, NEW q2 \in Proc, NEW s \in Run, NEW a \in Attempt,
             <<s, a>> \in held'[q], <<s, a>> \in held'[q2]
      PROVE  q = q2
  BY <1>3, <1>4, <1>6 DEF TokenInv, TokensAreUnique
<1>7. ASSUME NEW q \in Proc, NEW s \in Run, NEW a \in Attempt,
             <<s, a>> \in held'[q], a = attempt'[s], owner'[s] # NoOwner
      PROVE  owner'[s] = q
  <2>1. CASE s = r
    <3>1. a = new
      BY <1>1, <1>7, <2>1 DEF TypeOK
    <3>2. q = p
      BY <1>4, <1>7, <2>1, <3>1
    <3>3. QED
      BY <1>1, <2>1, <3>2 DEF TypeOK
  <2>2. CASE s # r
    BY <1>1, <1>4, <1>7, <2>2 DEF TypeOK, TokenInv, TokensAreUnique
  <2>3. QED
    BY <2>1, <2>2
<1>8. QED
  BY <1>5, <1>6, <1>7 DEF TokenInv, TokensAreUnique

\* Every other step leaves tokens where they are, drops some, or clears the
\* owner of a row.
LEMMA TokenStep ==
  ASSUME TypeOK, TokenInv, UNCHANGED attempt,
         \A p \in Proc : held'[p] \subseteq held[p],
         \A r \in Run : owner'[r] \in {owner[r], NoOwner}
  PROVE  TokenInv'
BY DEF TokenInv, TokensAreUnique

\* The steps that are not claims, as far as tokens are concerned.
LEMMA OtherSteps ==
  ASSUME TypeOK, [Next]_vars,
         ~ \E p \in Proc, r \in Run : \E t \in 0..now : Claim(p, r, t)
  PROVE  /\ UNCHANGED attempt
         /\ \A p \in Proc : held'[p] \subseteq held[p]
         /\ \A r \in Run : owner'[r] \in {owner[r], NoOwner}
<1>1. CASE UNCHANGED vars
  BY <1>1 DEF vars, rowVars
<1>2. ASSUME NEW p \in Proc, NEW r \in Run,
             \/ Create(p, r)
             \/ \E a \in Attempt, t \in 0..now : Renew(p, r, a, t)
      PROVE  UNCHANGED <<attempt, held, owner>>
  BY <1>2 DEF Create, Renew
<1>3. ASSUME NEW p \in Proc, NEW r \in Run, NEW a \in Attempt, Release(p, r, a)
      PROVE  /\ UNCHANGED <<attempt, held>>
             /\ \A s \in Run : owner'[s] \in {owner[s], NoOwner}
  BY <1>3 DEF Release, TypeOK
<1>4. ASSUME NEW p \in Proc, NEW r \in Run,
             \/ \E a \in Attempt : \/ TransitionSelect(p, r, a)
                                  \/ SnapshotSelect(p, r, a)
                                  \/ MarkSelect(p, r, a)
                                  \/ ResolveSelect(p, r, a)
             \/ PatchSelect(p, r)
             \/ ApproveSelect(p, r)
             \/ ResolveRead(p, r)
      PROVE  UNCHANGED <<attempt, held, owner>>
  BY <1>4 DEF TransitionSelect, SnapshotSelect, MarkSelect, ResolveSelect,
              PatchSelect, ApproveSelect, ResolveRead, WorkerSelect,
              OperatorSelect, rowVars
<1>5. ASSUME NEW p \in Proc, NEW t \in 0..now, Update(p, t)
      PROVE  /\ UNCHANGED <<attempt, held>>
             /\ \A s \in Run : owner'[s] \in {owner[s], NoOwner}
  <2>1. CASE WriteTransition(call[p])
    <3> DEFINE r == call[p].run
    <3>1. owner' = [owner EXCEPT ![r] =
                      IF ReleasesOwner(call[p].to) THEN NoOwner ELSE @]
      BY <2>1 DEF WriteTransition
    <3>2. ASSUME NEW s \in Run PROVE owner'[s] \in {owner[s], NoOwner}
      BY <3>1 DEF TypeOK
    <3>3. QED
      BY <1>5, <2>1, <3>2 DEF Update, WriteTransition
  <2>2. CASE WriteSnapshot(call[p]) \/ WriteMark(call[p])
    BY <1>5, <2>2 DEF Update, WriteSnapshot, WriteMark, rowVars
  <2>3. QED
    BY <1>5, <2>1, <2>2 DEF Update
<1>6. ASSUME NEW p \in Proc, NEW t \in 0..now, UpdateRefused(p, t)
      PROVE  UNCHANGED <<attempt, held, owner>>
  BY <1>6 DEF UpdateRefused, rowVars
<1>7. ASSUME NEW p \in Proc, Crash(p)
      PROVE  /\ UNCHANGED <<attempt, owner>>
             /\ \A q \in Proc : held'[q] \subseteq held[q]
  BY <1>7 DEF Crash, TypeOK, rowVars
<1>8. CASE Tick
  BY <1>8 DEF Tick, rowVars
<1>9. QED
  BY <1>1, <1>2, <1>3, <1>4, <1>5, <1>6, <1>7, <1>8 DEF Next

LEMMA TokenNext == TypeOK /\ TokenInv /\ [Next]_vars => TokenInv'
<1> SUFFICES ASSUME TypeOK, TokenInv, [Next]_vars PROVE TokenInv'
  OBVIOUS
<1>1. CASE \E p \in Proc, r \in Run : \E t \in 0..now : Claim(p, r, t)
  BY <1>1, TokenClaim
<1>2. CASE ~ \E p \in Proc, r \in Run : \E t \in 0..now : Claim(p, r, t)
  BY <1>2, OtherSteps, TokenStep
<1>3. QED
  BY <1>1, <1>2

\* claim_run gives each fencing token to one process only, and the newest token
\* of an owned run is in its owner, whatever crashes, clocks and releases do.
THEOREM TokensUnique == Spec => []TokensAreUnique
<1>1. TokenInv => TokensAreUnique
  BY DEF TokenInv
<1>2. QED
  BY <1>1, InitType, NextType, TokenInit, TokenNext, PTL DEF Spec
-----------------------------------------------------------------------------
(* Ownership and snapshots.                                                *)

\* The steps that write no row, apart from the expiry of a lease.
LEMMA QuietSteps ==
  ASSUME [Next]_vars,
         ~ \E p \in Proc, r \in Run :
             \/ Create(p, r)
             \/ \E t \in 0..now : Claim(p, r, t)
             \/ \E a \in Attempt : Release(p, r, a),
         ~ \E p \in Proc : \E t \in 0..now : Update(p, t)
  PROVE  UNCHANGED <<status, owner, attempt, snap, trail>>
<1>1. CASE UNCHANGED vars
  BY <1>1 DEF vars, rowVars
<1>2. ASSUME NEW p \in Proc, NEW r \in Run, NEW a \in Attempt,
             NEW t \in 0..now, Renew(p, r, a, t)
      PROVE  UNCHANGED <<status, owner, attempt, snap, trail>>
  BY <1>2 DEF Renew
<1>3. ASSUME NEW p \in Proc, NEW r \in Run,
             \/ \E a \in Attempt : \/ TransitionSelect(p, r, a)
                                  \/ SnapshotSelect(p, r, a)
                                  \/ MarkSelect(p, r, a)
                                  \/ ResolveSelect(p, r, a)
             \/ PatchSelect(p, r)
             \/ ApproveSelect(p, r)
             \/ ResolveRead(p, r)
      PROVE  UNCHANGED <<status, owner, attempt, snap, trail>>
  BY <1>3 DEF TransitionSelect, SnapshotSelect, MarkSelect, ResolveSelect,
              PatchSelect, ApproveSelect, ResolveRead, WorkerSelect,
              OperatorSelect, rowVars
<1>4. ASSUME NEW p \in Proc, (\E t \in 0..now : UpdateRefused(p, t)) \/ Crash(p)
      PROVE  UNCHANGED <<status, owner, attempt, snap, trail>>
  BY <1>4 DEF UpdateRefused, Crash, rowVars
<1>5. CASE Tick
  BY <1>5 DEF Tick, rowVars
<1>6. QED
  BY <1>1, <1>2, <1>3, <1>4, <1>5 DEF Next

LEMMA OwnedNext ==
  TypeOK /\ OnlyActiveRunsAreOwned /\ [Next]_vars => OnlyActiveRunsAreOwned'
<1> SUFFICES ASSUME TypeOK, OnlyActiveRunsAreOwned, [Next]_vars,
                    NEW s \in Run, owner'[s] # NoOwner
             PROVE  status'[s] \in ActiveStatuses
  BY DEF OnlyActiveRunsAreOwned
<1>1. ASSUME NEW p \in Proc, NEW r \in Run, Create(p, r)
      PROVE  status'[s] \in ActiveStatuses
  <2>1. owner' = owner /\ status[r] = Absent
    BY <1>1 DEF Create
  <2>2. Absent \notin ActiveStatuses
    BY DEF Absent, ActiveStatuses
  <2>3. s # r
    BY <2>1, <2>2 DEF OnlyActiveRunsAreOwned
  <2>4. status'[s] = status[s]
    BY <1>1, <2>3 DEF Create, TypeOK
  <2>5. QED
    BY <2>1, <2>4 DEF OnlyActiveRunsAreOwned
<1>2. ASSUME NEW p \in Proc, NEW r \in Run, NEW t \in 0..now, Claim(p, r, t)
      PROVE  status'[s] \in ActiveStatuses
  BY <1>2 DEF Claim, TypeOK, OnlyActiveRunsAreOwned
<1>3. ASSUME NEW p \in Proc, NEW r \in Run, NEW a \in Attempt, Release(p, r, a)
      PROVE  status'[s] \in ActiveStatuses
  BY <1>3 DEF Release, TypeOK, OnlyActiveRunsAreOwned
<1>4. ASSUME NEW p \in Proc, NEW t \in 0..now, Update(p, t)
      PROVE  status'[s] \in ActiveStatuses
  <2>1. CASE WriteTransition(call[p])
    <3> DEFINE r == call[p].run
               to == call[p].to
    <3>1. /\ status' = [status EXCEPT ![r] = to]
          /\ owner' = [owner EXCEPT ![r] =
                         IF ReleasesOwner(to) THEN NoOwner ELSE @]
      BY <2>1 DEF WriteTransition
    <3>2. CASE s = r
      BY <3>1, <3>2 DEF TypeOK, ReleasesOwner
    <3>3. CASE s # r
      BY <3>1, <3>3 DEF TypeOK, OnlyActiveRunsAreOwned
    <3>4. QED
      BY <3>2, <3>3
  <2>2. CASE WriteSnapshot(call[p]) \/ WriteMark(call[p])
    BY <2>2 DEF WriteSnapshot, WriteMark, rowVars, OnlyActiveRunsAreOwned
  <2>3. QED
    BY <1>4, <2>1, <2>2 DEF Update
<1>5. CASE UNCHANGED <<status, owner, attempt, snap, trail>>
  BY <1>5 DEF OnlyActiveRunsAreOwned
<1>6. QED
  BY <1>1, <1>2, <1>3, <1>4, <1>5, QuietSteps

\* transition clears the owner of a run that leaves the active statuses, and no
\* claim, renewal or creation brings one back.
THEOREM ParkedRunsAreUnowned == Spec => []OnlyActiveRunsAreOwned
<1>1. Init => OnlyActiveRunsAreOwned
  BY DEF Init, OnlyActiveRunsAreOwned
<1>2. QED
  BY <1>1, InitType, NextType, OwnedNext, PTL DEF Spec

\* Whose event is where: every snapshot, in the row, in an operator's hands or on
\* its way to the row, is of an attempt already made, and a worker writes its own.
SnapInv ==
  /\ \A r \in Run : snap[r] <= attempt[r]
  /\ \A p \in Proc, r \in Run, a \in Attempt :
       <<r, a>> \in views[p] => a <= attempt[r]
  /\ \A p \in Proc : /\ call[p].snap <= attempt[call[p].run]
                     /\ call[p].fenced => call[p].snap = call[p].attempt

LEMMA SnapInit == Init => SnapInv
<1> SUFFICES ASSUME Init PROVE SnapInv
  OBVIOUS
<1>1. Idle.run \in Run /\ Idle.snap = 0 /\ Idle.fenced = FALSE
  BY StoreAssumption DEF Idle
<1>2. QED
  BY <1>1 DEF Init, SnapInv

LEMMA AttemptGrows ==
  ASSUME TypeOK, [Next]_vars, NEW r \in Run
  PROVE  attempt[r] \in Nat /\ attempt'[r] \in Nat /\ attempt[r] <= attempt'[r]
<1>1. TypeOK'
  BY NextType
<1>2. attempt[r] \in Nat /\ attempt'[r] \in Nat
  BY <1>1, StoreAssumption DEF TypeOK, Attempt
<1>3. ASSUME NEW p \in Proc, NEW s \in Run, NEW t \in 0..now, Claim(p, s, t)
      PROVE  attempt[r] <= attempt'[r]
  BY <1>2, <1>3 DEF Claim, NextAttempt, TypeOK
<1>4. QED
  BY <1>2, <1>3, OtherSteps

\* What a step may put into call, views and snap.
LEMMA CallSteps ==
  ASSUME TypeOK, TokenInv, SnapInv, [Next]_vars, NEW p \in Proc
  PROVE  \/ call'[p] = call[p]
         \/ call'[p] = Idle
         \/ /\ call'[p].run \in Run
            /\ call'[p].snap \in Attempt
            /\ call'[p].snap <= attempt[call'[p].run]
            /\ call'[p].fenced => call'[p].snap = call'[p].attempt
<1> DEFINE Fresh == /\ call'[p].run \in Run
                    /\ call'[p].snap \in Attempt
                    /\ call'[p].snap <= attempt[call'[p].run]
                    /\ call'[p].fenced => call'[p].snap = call'[p].attempt
           Goal == call'[p] = call[p] \/ call'[p] = Idle \/ Fresh
<1> SUFFICES Goal
  OBVIOUS
<1>1. ASSUME NEW q \in Proc, NEW r \in Run, NEW a \in Attempt, NEW k, NEW to,
             WorkerSelect(q, r, a, k, to)
      PROVE  Goal
  <2>1. a <= attempt[r]
    BY <1>1 DEF WorkerSelect, TokenInv
  <2>2. call' = [call EXCEPT ![q] =
                   [kind |-> k, run |-> r, fenced |-> TRUE, attempt |-> a,
                    seen |-> status[r], to |-> to, snap |-> a]]
    BY <1>1 DEF WorkerSelect
  <2>3. CASE p = q
    BY <2>1, <2>2, <2>3 DEF TypeOK
  <2>4. CASE p # q
    BY <2>2, <2>4 DEF TypeOK
  <2>5. QED
    BY <2>3, <2>4
<1>2. ASSUME NEW q \in Proc, NEW r \in Run, NEW a \in Attempt, NEW k, NEW to,
             a <= attempt[r], OperatorSelect(q, r, k, to, a)
      PROVE  Goal
  <2>1. call' = [call EXCEPT ![q] =
                   [kind |-> k, run |-> r, fenced |-> FALSE, attempt |-> 0,
                    seen |-> status[r], to |-> to, snap |-> a]]
    BY <1>2 DEF OperatorSelect
  <2>2. CASE p = q
    BY <1>2, <2>1, <2>2 DEF TypeOK
  <2>3. CASE p # q
    BY <2>1, <2>3 DEF TypeOK
  <2>4. QED
    BY <2>2, <2>3
<1>3. ASSUME NEW q \in Proc, NEW r \in Run,
             \E a \in Attempt : \/ TransitionSelect(q, r, a)
                               \/ SnapshotSelect(q, r, a)
                               \/ MarkSelect(q, r, a)
      PROVE  Goal
  BY <1>1, <1>3 DEF TransitionSelect, SnapshotSelect, MarkSelect
<1>4. ASSUME NEW q \in Proc, NEW r \in Run,
             PatchSelect(q, r) \/ ApproveSelect(q, r)
      PROVE  Goal
  <2>1. snap[r] \in Attempt /\ snap[r] <= attempt[r]
    BY DEF TypeOK, SnapInv
  <2>2. QED
    BY <1>2, <1>4, <2>1 DEF PatchSelect, ApproveSelect
<1>5. ASSUME NEW q \in Proc, NEW r \in Run, NEW a \in Attempt,
             ResolveSelect(q, r, a)
      PROVE  Goal
  <2>1. a <= attempt[r]
    BY <1>5 DEF ResolveSelect, SnapInv
  <2>2. QED
    BY <1>2, <1>5, <2>1 DEF ResolveSelect
<1>6. ASSUME NEW q \in Proc, NEW r \in Run,
             \/ Create(q, r)
             \/ \E t \in 0..now : Claim(q, r, t)
             \/ \E a \in Attempt, t \in 0..now : Renew(q, r, a, t)
             \/ \E a \in Attempt : Release(q, r, a)
             \/ ResolveRead(q, r)
      PROVE  Goal
  BY <1>6 DEF Create, Claim, Renew, Release, ResolveRead
<1>7. ASSUME NEW q \in Proc,
             \/ \E t \in 0..now : Update(q, t) \/ UpdateRefused(q, t)
             \/ Crash(q)
      PROVE  Goal
  <2>1. call' = [call EXCEPT ![q] = Idle]
    BY <1>7 DEF Update, UpdateRefused, Crash
  <2>2. QED
    BY <2>1 DEF TypeOK
<1>8. CASE Tick \/ UNCHANGED vars
  BY <1>8 DEF Tick, vars
<1>9. QED
  BY <1>3, <1>4, <1>5, <1>6, <1>7, <1>8 DEF Next

\* What a step does to the snapshots in the rows.
LEMMA SnapSteps ==
  ASSUME TypeOK, [Next]_vars
  PROVE  \/ UNCHANGED snap
         \/ \E p \in Proc, t \in 0..now :
              /\ StillFenced(p, call[p], t)
              /\ snap' = [snap EXCEPT ![call[p].run] = call[p].snap]
<1>1. ASSUME NEW p \in Proc, NEW t \in 0..now, Update(p, t)
      PROVE  \/ UNCHANGED snap
             \/ /\ StillFenced(p, call[p], t)
                /\ snap' = [snap EXCEPT ![call[p].run] = call[p].snap]
  <2>1. CASE WriteMark(call[p])
    BY <2>1 DEF WriteMark, rowVars
  <2>2. CASE WriteTransition(call[p]) \/ WriteSnapshot(call[p])
    BY <1>1, <2>2 DEF Update, WriteTransition, WriteSnapshot
  <2>3. QED
    BY <1>1, <2>1, <2>2 DEF Update
<1>2. ASSUME NEW p \in Proc, NEW r \in Run,
             \/ Create(p, r)
             \/ \E t \in 0..now : Claim(p, r, t)
             \/ \E a \in Attempt : Release(p, r, a)
      PROVE  UNCHANGED snap
  BY <1>2 DEF Create, Claim, Release
<1>3. QED
  BY <1>1, <1>2, QuietSteps

LEMMA ViewSteps ==
  ASSUME TypeOK, [Next]_vars, NEW p \in Proc, NEW r \in Run, NEW a \in Attempt,
         <<r, a>> \in views'[p]
  PROVE  <<r, a>> \in views[p] \/ a = snap[r]
<1>1. ASSUME NEW q \in Proc, NEW s \in Run, ResolveRead(q, s)
      PROVE  <<r, a>> \in views[p] \/ a = snap[r]
  BY <1>1 DEF ResolveRead, TypeOK
<1>2. ASSUME NEW q \in Proc, Crash(q)
      PROVE  <<r, a>> \in views[p] \/ a = snap[r]
  BY <1>2 DEF Crash, TypeOK
<1>3. ASSUME NEW q \in Proc, NEW s \in Run,
             \/ Create(q, s)
             \/ \E t \in 0..now : Claim(q, s, t)
             \/ \E b \in Attempt : \/ \E t \in 0..now : Renew(q, s, b, t)
                                  \/ Release(q, s, b)
      PROVE  UNCHANGED views
  BY <1>3 DEF Create, Claim, Renew, Release
<1>4. ASSUME NEW q \in Proc, NEW s \in Run,
             \/ \E b \in Attempt : \/ TransitionSelect(q, s, b)
                                  \/ SnapshotSelect(q, s, b)
                                  \/ MarkSelect(q, s, b)
                                  \/ ResolveSelect(q, s, b)
             \/ PatchSelect(q, s)
             \/ ApproveSelect(q, s)
      PROVE  UNCHANGED views
  BY <1>4 DEF TransitionSelect, SnapshotSelect, MarkSelect, ResolveSelect,
              PatchSelect, ApproveSelect, WorkerSelect, OperatorSelect
<1>5. CASE \/ \E q \in Proc : \E t \in 0..now : Update(q, t) \/ UpdateRefused(q, t)
           \/ Tick
           \/ UNCHANGED vars
  BY <1>5 DEF Update, UpdateRefused, Tick, vars
<1>6. QED
  BY <1>1, <1>2, <1>3, <1>4, <1>5 DEF Next

LEMMA SnapNext ==
  ASSUME TypeOK, TokenInv, SnapInv, [Next]_vars
  PROVE  SnapInv'
<1>0. TypeOK'
  BY NextType
<1>1. \A r \in Run : /\ attempt[r] \in Nat
                    /\ attempt'[r] \in Nat
                    /\ attempt[r] <= attempt'[r]
  BY AttemptGrows
<1>2. ASSUME NEW r \in Run PROVE snap'[r] <= attempt'[r]
  <2>1. snap[r] \in Nat /\ snap[r] <= attempt[r]
    BY StoreAssumption DEF TypeOK, SnapInv, Attempt
  <2>2. CASE UNCHANGED snap
    BY <1>1, <2>1, <2>2
  <2>3. ASSUME NEW p \in Proc, snap' = [snap EXCEPT ![call[p].run] = call[p].snap]
        PROVE  snap'[r] <= attempt'[r]
    <3>1. /\ call[p].snap \in Nat
          /\ call[p].snap <= attempt[call[p].run]
      BY StoreAssumption DEF TypeOK, Call, SnapInv, Attempt
    <3>2. snap'[r] = snap[r] \/ (r = call[p].run /\ snap'[r] = call[p].snap)
      BY <2>3 DEF TypeOK
    <3>3. QED
      BY <1>1, <2>1, <3>1, <3>2
  <2>4. QED
    BY <2>2, <2>3, SnapSteps
<1>3. ASSUME NEW p \in Proc, NEW r \in Run, NEW a \in Attempt,
             <<r, a>> \in views'[p]
      PROVE  a <= attempt'[r]
  <2>1. a <= attempt[r] /\ a \in Nat
    BY <1>3, ViewSteps DEF SnapInv, Attempt
  <2>2. QED
    BY <1>1, <2>1
<1>4. ASSUME NEW p \in Proc
      PROVE  /\ call'[p].snap <= attempt'[call'[p].run]
             /\ call'[p].fenced => call'[p].snap = call'[p].attempt
  <2>1. /\ call[p].run \in Run
        /\ call[p].snap \in Nat
        /\ call[p].snap <= attempt[call[p].run]
        /\ call[p].fenced => call[p].snap = call[p].attempt
    BY DEF TypeOK, Call, SnapInv, Attempt
  <2>2. CASE call'[p] = call[p]
    BY <1>1, <2>1, <2>2
  <2>3. CASE call'[p] = Idle
    <3>1. Idle.run \in Run /\ Idle.snap = 0 /\ Idle.fenced = FALSE
      BY StoreAssumption DEF Idle
    <3>2. QED
      BY <1>1, <2>3, <3>1
  <2>4. CASE /\ call'[p].run \in Run
             /\ call'[p].snap \in Attempt
             /\ call'[p].snap <= attempt[call'[p].run]
             /\ call'[p].fenced => call'[p].snap = call'[p].attempt
    BY <1>1, <2>4 DEF Attempt
  <2>5. QED
    BY <2>2, <2>3, <2>4, CallSteps
<1>5. QED
  BY <1>2, <1>3, <1>4 DEF SnapInv

\* An UPDATE that still passes the fence writes the snapshot of the newest token,
\* or the run is nobody's.
LEMMA StaleStep ==
  ASSUME TypeOK, SnapInv, [Next]_vars, NEW r \in Run, snap'[r] < snap[r]
  PROVE  owner[r] = NoOwner
<1>1. snap[r] \in Nat /\ snap[r] <= attempt[r] /\ attempt[r] \in Nat
  BY StoreAssumption DEF TypeOK, SnapInv, Attempt
<1>2. PICK p \in Proc, t \in 0..now :
        /\ StillFenced(p, call[p], t)
        /\ snap' = [snap EXCEPT ![call[p].run] = call[p].snap]
  BY <1>1, SnapSteps
<1>3. r = call[p].run /\ snap'[r] = call[p].snap
  BY <1>1, <1>2 DEF TypeOK
<1>4. CASE call[p].fenced
  <2>1. attempt[r] = call[p].attempt /\ call[p].snap = call[p].attempt
    BY <1>2, <1>3, <1>4 DEF StillFenced, Fence, SnapInv
  <2>2. QED
    BY <1>1, <1>3, <2>1
<1>5. CASE ~ call[p].fenced
  BY <1>2, <1>3, <1>5 DEF StillFenced
<1>6. QED
  BY <1>4, <1>5

\* The fence of _require_fence and _fence_where keeps every write of a worker
\* whose token is stale out of the row.
THEOREM Fencing == Spec => StaleWriterNeverWins
<1>1. TypeOK /\ SnapInv /\ [Next]_vars
        => [\A r \in Run : snap'[r] < snap[r] => owner[r] = NoOwner]_vars
  BY StaleStep
<1>2. TypeOK /\ TokenInv /\ SnapInv /\ [Next]_vars => SnapInv'
  BY SnapNext
<1>3. QED
  BY <1>1, <1>2, InitType, NextType, TokenInit, TokenNext, SnapInit, PTL
     DEF Spec, StaleWriterNeverWins
-----------------------------------------------------------------------------
(* Refinement.  The UPDATE of a transition does not look at the status its *)
(* SELECT saw.  When operators use one process only, that status is        *)
(* nevertheless still the one in the row whenever the fence passes: a      *)
(* worker's because its token is still the row's, an operator's because    *)
(* nobody but an operator writes a row that is parked.                     *)

OneOperator == \A p, q \in OperatorProc : p = q

\* The status the open write of p saw, once its fence passes, is the row's.
SeenIsCurrent(p, c) ==
  c.kind # "idle" =>
    /\ Legal(c.seen, c.to)
    /\ c.fenced =>
         (owner[c.run] = p /\ attempt[c.run] = c.attempt
            => status[c.run] = c.seen)
    /\ ~ c.fenced => /\ p \in OperatorProc
                     /\ c.seen \notin ActiveStatuses
                     /\ status[c.run] = c.seen

SeenInv == \A p \in Proc : SeenIsCurrent(p, call[p])

LEMMA IdleIsIdle == Idle.kind = "idle"
BY DEF Idle

LEMMA SeenInit == Init => SeenInv
BY IdleIsIdle DEF Init, SeenInv, SeenIsCurrent

\* A write that stays open across a step that does not touch its row.
LEMMA SeenKept ==
  ASSUME SeenInv, NEW p \in Proc,
         call'[p] = call[p], UNCHANGED <<status, owner, attempt>>
  PROVE  SeenIsCurrent(p, call[p])'
BY DEF SeenInv, SeenIsCurrent

\* A write that opens saw the row as it is.
LEMMA SeenOpened ==
  ASSUME TypeOK, NEW p \in Proc, NEW q \in Proc, NEW r \in Run, SeenInv,
         \/ \E a \in Attempt : \/ TransitionSelect(q, r, a)
                              \/ SnapshotSelect(q, r, a)
                              \/ MarkSelect(q, r, a)
                              \/ ResolveSelect(q, r, a)
         \/ PatchSelect(q, r)
         \/ ApproveSelect(q, r)
  PROVE  SeenIsCurrent(p, call[p])'
<1>1. ASSUME NEW a, NEW k, NEW to, WorkerSelect(q, r, a, k, to)
      PROVE  SeenIsCurrent(p, call[p])'
  <2>1. /\ UNCHANGED <<status, owner, attempt>>
        /\ Legal(status[r], to)
        /\ call' = [call EXCEPT ![q] =
                      [kind |-> k, run |-> r, fenced |-> TRUE, attempt |-> a,
                       seen |-> status[r], to |-> to, snap |-> a]]
    BY <1>1 DEF WorkerSelect, rowVars
  <2>2. CASE p = q
    BY <2>1, <2>2 DEF TypeOK, SeenIsCurrent
  <2>3. CASE p # q
    BY <2>1, <2>3, SeenKept DEF TypeOK
  <2>4. QED
    BY <2>2, <2>3
<1>2. ASSUME NEW a, NEW k, NEW to, status[r] \notin ActiveStatuses,
             OperatorSelect(q, r, k, to, a)
      PROVE  SeenIsCurrent(p, call[p])'
  <2>1. /\ UNCHANGED <<status, owner, attempt>>
        /\ Legal(status[r], to)
        /\ q \in OperatorProc
        /\ call' = [call EXCEPT ![q] =
                      [kind |-> k, run |-> r, fenced |-> FALSE, attempt |-> 0,
                       seen |-> status[r], to |-> to, snap |-> a]]
    BY <1>2 DEF OperatorSelect, rowVars
  <2>2. CASE p = q
    BY <1>2, <2>1, <2>2 DEF TypeOK, SeenIsCurrent
  <2>3. CASE p # q
    BY <2>1, <2>3, SeenKept DEF TypeOK
  <2>4. QED
    BY <2>2, <2>3
<1>3. QED
  BY <1>1, <1>2, ActiveAreStatuses
     DEF TransitionSelect, SnapshotSelect, MarkSelect, ResolveSelect,
         PatchSelect, ApproveSelect

\* No other process writes the row behind a write that will pass its fence.
LEMMA SeenUpdate ==
  ASSUME TypeOK, OneOperator, OnlyActiveRunsAreOwned, SeenInv,
         NEW p \in Proc, NEW q \in Proc, NEW t \in 0..now, Update(q, t)
  PROVE  SeenIsCurrent(p, call[p])'
<1>1. CASE p = q
  BY <1>1, IdleIsIdle DEF Update, TypeOK, SeenIsCurrent
<1>2. CASE p # q /\ call[p].kind = "idle"
  BY <1>2 DEF Update, TypeOK, SeenIsCurrent
<1>3. CASE p # q /\ call[p].kind # "idle"
  <2> DEFINE c == call[p]
             d == call[q]
  <2>1. call'[p] = c
    BY <1>3 DEF Update, TypeOK
  <2>2. CASE WriteSnapshot(d) \/ WriteMark(d)
    BY <2>1, <2>2, SeenKept DEF WriteSnapshot, WriteMark, rowVars
  <2>3. CASE WriteTransition(d)
    <3>1. /\ status' = [status EXCEPT ![d.run] = d.to]
          /\ owner' = [owner EXCEPT ![d.run] =
                         IF ReleasesOwner(d.to) THEN NoOwner ELSE @]
          /\ attempt' = attempt
      BY <2>3 DEF WriteTransition
    <3>2. CASE c.run # d.run
      <4>1. status'[c.run] = status[c.run] /\ owner'[c.run] = owner[c.run]
        BY <3>1, <3>2 DEF TypeOK, Call
      <4>2. QED
        BY <2>1, <3>1, <4>1 DEF SeenInv, SeenIsCurrent
    <3>3. CASE c.run = d.run
      <4>1. owner[d.run] # p
        <5>1. d.fenced => owner[d.run] = q
          BY DEF Update, StillFenced, Fence
        <5>2. ~ d.fenced => owner[d.run] = NoOwner
          BY DEF Update, StillFenced
        <5>3. QED
          BY <1>3, <5>1, <5>2, StoreAssumption
      <4>2. owner'[d.run] # p
        BY <3>1, <4>1, StoreAssumption DEF TypeOK, Call
      <4>3. c.fenced
        <5> SUFFICES ASSUME ~ c.fenced PROVE FALSE
          OBVIOUS
        <5>1. /\ p \in OperatorProc
              /\ c.seen \notin ActiveStatuses
              /\ status[d.run] = c.seen
          BY <1>3, <3>3 DEF SeenInv, SeenIsCurrent
        <5>2. d.run \in Run
          BY DEF TypeOK, Call
        <5>3. owner[d.run] = NoOwner
          BY <5>1, <5>2 DEF OnlyActiveRunsAreOwned
        <5>4. ~ d.fenced
          BY <5>3, StoreAssumption DEF Update, StillFenced, Fence
        <5>5. q \in OperatorProc
          BY <5>4 DEF Update, LockFree, SeenInv, SeenIsCurrent
        <5>6. QED
          BY <1>3, <5>1, <5>5 DEF OneOperator
      <4>4. QED
        BY <1>3, <2>1, <3>3, <4>2, <4>3 DEF SeenInv, SeenIsCurrent
    <3>4. QED
      BY <3>2, <3>3
  <2>4. QED
    BY <2>2, <2>3 DEF Update
<1>4. QED
  BY <1>1, <1>2, <1>3

LEMMA SeenNext ==
  ASSUME TypeOK, OneOperator, OnlyActiveRunsAreOwned, SeenInv, [Next]_vars
  PROVE  SeenInv'
<1> SUFFICES ASSUME NEW p \in Proc PROVE SeenIsCurrent(p, call[p])'
  BY DEF SeenInv
<1>1. ASSUME NEW q \in Proc, NEW r \in Run, Create(q, r)
      PROVE  SeenIsCurrent(p, call[p])'
  <2>1. /\ call' = call
        /\ owner' = owner
        /\ attempt' = attempt
        /\ status[r] = Absent
        /\ \A s \in Run : s # r => status'[s] = status[s]
    BY <1>1 DEF Create, TypeOK
  <2>2. owner[r] = NoOwner
    <3>1. Absent \notin ActiveStatuses
      BY DEF Absent, ActiveStatuses
    <3>2. QED
      BY <2>1, <3>1 DEF OnlyActiveRunsAreOwned
  <2>3. call[p].run \in Run /\ call[p].seen # Absent
    BY ActiveAreStatuses DEF TypeOK, Call
  <2>4. QED
    BY <2>1, <2>2, <2>3, StoreAssumption DEF SeenInv, SeenIsCurrent
<1>2. ASSUME NEW q \in Proc, NEW r \in Run, NEW t \in 0..now, Claim(q, r, t)
      PROVE  SeenIsCurrent(p, call[p])'
  <2>1. /\ call' = call
        /\ status' = status
        /\ owner' = [owner EXCEPT ![r] = q]
        /\ \A s \in Run : s # r => attempt'[s] = attempt[s]
        /\ call[q].kind = "idle"
    BY <1>2 DEF Claim, LockFree, TypeOK
  <2>2. CASE p = q
    BY <2>1, <2>2 DEF SeenIsCurrent
  <2>3. CASE p # q
    BY <2>1, <2>3 DEF SeenInv, SeenIsCurrent, TypeOK, Call
  <2>4. QED
    BY <2>2, <2>3
<1>3. ASSUME NEW q \in Proc, NEW r \in Run, NEW a \in Attempt, Release(q, r, a)
      PROVE  SeenIsCurrent(p, call[p])'
  <2>1. /\ UNCHANGED <<call, status, attempt>>
        /\ owner' = [owner EXCEPT ![r] = NoOwner]
    BY <1>3 DEF Release
  <2>2. QED
    BY <2>1, StoreAssumption DEF SeenInv, SeenIsCurrent, TypeOK, Call
<1>4. ASSUME NEW q \in Proc, NEW r \in Run,
             \/ \E a \in Attempt, t \in 0..now : Renew(q, r, a, t)
             \/ ResolveRead(q, r)
      PROVE  SeenIsCurrent(p, call[p])'
  BY <1>4, SeenKept DEF Renew, ResolveRead, rowVars
<1>5. ASSUME NEW q \in Proc,
             \/ \E t \in 0..now : UpdateRefused(q, t)
             \/ Crash(q)
      PROVE  SeenIsCurrent(p, call[p])'
  <2>1. /\ call' = [call EXCEPT ![q] = Idle]
        /\ UNCHANGED <<status, owner, attempt>>
    BY <1>5 DEF UpdateRefused, Crash, rowVars
  <2>2. QED
    BY <2>1, SeenKept, IdleIsIdle DEF TypeOK, SeenIsCurrent
<1>6. CASE Tick \/ UNCHANGED vars
  BY <1>6, SeenKept DEF Tick, vars, rowVars
<1>7. QED
  BY <1>1, <1>2, <1>3, <1>4, <1>5, <1>6, SeenOpened, SeenUpdate DEF Next

\* An UPDATE that passes the fence is a legal move from the status it saw.
LEMMA UpdateIsMove ==
  ASSUME TypeOK, SeenInv, NEW p \in Proc, NEW t \in 0..now, Update(p, t)
  PROVE  /\ call[p].run \in Run
         /\ status[call[p].run] = call[p].seen
         /\ Legal(call[p].seen, call[p].to)
         /\ call[p].seen \in Status
         /\ call[p].to \in Status
<1>1. /\ call[p].run \in Run
      /\ call[p].seen \in Status
      /\ call[p].to \in Status
  BY DEF TypeOK, Call
<1>2. call[p].kind # "idle" /\ StillFenced(p, call[p], t)
  BY DEF Update, LockFree
<1>3. QED
  BY <1>1, <1>2 DEF StillFenced, Fence, SeenInv, SeenIsCurrent

LEMMA StepRefines ==
  ASSUME TypeOK, SeenInv, [Next]_vars
  PROVE  [Lifecycle!Next]_(Lifecycle!vars)
<1> USE DEF Lifecycle!Next, Lifecycle!vars
<1>1. ASSUME NEW p \in Proc, NEW r \in Run, Create(p, r)
      PROVE  Lifecycle!Create(r)
  BY <1>1 DEF Create, Lifecycle!Create, Absent, Lifecycle!Absent,
              InitialStatuses, Lifecycle!InitialStatuses
<1>2. ASSUME NEW p \in Proc, NEW r \in Run, NEW t \in 0..now, Claim(p, r, t)
      PROVE  Lifecycle!Claim(r)
  BY <1>2 DEF Claim, NextAttempt, Lifecycle!Claim, ActiveStatuses,
              Lifecycle!ActiveStatuses
<1>3. ASSUME NEW p \in Proc, NEW r \in Run, NEW a \in Attempt, Release(p, r, a)
      PROVE  UNCHANGED Lifecycle!vars
  BY <1>3 DEF Release
<1>4. ASSUME NEW p \in Proc, NEW t \in 0..now, Update(p, t)
      PROVE  \/ UNCHANGED Lifecycle!vars
             \/ \E r \in Run : Lifecycle!Move(r)
  <2>1. CASE WriteTransition(call[p])
    <3> DEFINE r == call[p].run
               to == call[p].to
    <3>1. /\ status' = [status EXCEPT ![r] = to]
          /\ attempt' = attempt
      BY <2>1 DEF WriteTransition
    <3>2. /\ r \in Run
          /\ to \in Status
          /\ status[r] \in Status
          /\ Legal(status[r], to)
      BY <1>4, UpdateIsMove
    <3>3. status[r] # Lifecycle!Absent
      BY <3>2, ActiveAreStatuses DEF Absent, Lifecycle!Absent
    <3>4. Lifecycle!Legal(status[r], to) /\ to \in Lifecycle!Status
      <4>1. /\ Lifecycle!AllowedTransitions = AllowedTransitions
            /\ Lifecycle!Status = Status
        BY DEF AllowedTransitions, Lifecycle!AllowedTransitions, Status,
               Lifecycle!Status, ActiveStatuses, Lifecycle!ActiveStatuses,
               FinalStatuses, Lifecycle!FinalStatuses, ParkedStatuses,
               Lifecycle!ParkedStatuses
      <4>2. QED
        BY <3>2, <4>1 DEF Legal, Lifecycle!Legal
    <3>5. Lifecycle!Move(r)
      BY <3>1, <3>3, <3>4 DEF Lifecycle!Move
    <3>6. QED
      BY <3>2, <3>5
  <2>2. CASE WriteSnapshot(call[p]) \/ WriteMark(call[p])
    BY <2>2 DEF WriteSnapshot, WriteMark, rowVars
  <2>3. QED
    BY <1>4, <2>1, <2>2 DEF Update
<1>5. QED
  BY <1>1, <1>2, <1>3, <1>4, QuietSteps

\* With one process serving operators, the store, whose writes are two statements
\* each, implements the lifecycle in which every change is one legal step.
THEOREM Refinement == ASSUME OneOperator PROVE Spec => RefinesLifecycle
<1>1. Init => Lifecycle!Init
  BY DEF Init, Lifecycle!Init, Absent, Lifecycle!Absent
<1>2. Init => OnlyActiveRunsAreOwned
  BY DEF Init, OnlyActiveRunsAreOwned
<1>3. /\ TypeOK /\ OnlyActiveRunsAreOwned /\ SeenInv /\ [Next]_vars
      => SeenInv'
  BY SeenNext
<1>4. TypeOK /\ SeenInv /\ [Next]_vars => [Lifecycle!Next]_(Lifecycle!vars)
  BY StepRefines
<1>5. QED
  BY <1>1, <1>2, <1>3, <1>4, InitType, NextType, OwnedNext, SeenInit, PTL
     DEF Spec, RefinesLifecycle, Lifecycle!Spec

LEMMA AuditStep ==
  ASSUME TypeOK, SeenInv, [Next]_vars, NEW r \in Run,
         trail'[r] # trail[r] \/ status'[r] # status[r]
  PROVE  trail'[r] = <<status[r], status'[r]>>
<1>1. ASSUME NEW p \in Proc, NEW s \in Run, Create(p, s)
      PROVE  trail'[r] = <<status[r], status'[r]>>
  BY <1>1 DEF Create, TypeOK
<1>2. ASSUME NEW p \in Proc, NEW s \in Run,
             \/ \E t \in 0..now : Claim(p, s, t)
             \/ \E a \in Attempt : Release(p, s, a)
      PROVE  UNCHANGED <<status, trail>>
  BY <1>2 DEF Claim, Release
<1>3. ASSUME NEW p \in Proc, NEW t \in 0..now, Update(p, t)
      PROVE  trail'[r] = <<status[r], status'[r]>>
  <2> DEFINE c == call[p]
  <2>1. c.run \in Run /\ status[c.run] = c.seen
    BY <1>3, UpdateIsMove
  <2>2. CASE WriteTransition(c)
    BY <2>1, <2>2 DEF WriteTransition, TypeOK
  <2>3. CASE WriteMark(c)
    BY <2>1, <2>3 DEF WriteMark, TypeOK, rowVars
  <2>4. CASE WriteSnapshot(c)
    BY <2>4 DEF WriteSnapshot
  <2>5. QED
    BY <1>3, <2>2, <2>3, <2>4 DEF Update
<1>4. QED
  BY <1>1, <1>2, <1>3, QuietSteps

\* With one process serving operators, run_transitions never lies about the status
\* a run left or reached.
THEOREM TrueAudit == ASSUME OneOperator PROVE Spec => AuditTrailIsTrue
<1>1. Init => OnlyActiveRunsAreOwned
  BY DEF Init, OnlyActiveRunsAreOwned
<1>2. /\ TypeOK /\ OnlyActiveRunsAreOwned /\ SeenInv /\ [Next]_vars
      => SeenInv'
  BY SeenNext
<1>3. TypeOK /\ SeenInv /\ [Next]_vars
        => [\A r \in Run :
              trail'[r] # trail[r] \/ status'[r] # status[r]
                => trail'[r] = <<status[r], status'[r]>>]_vars
  BY AuditStep
<1>4. QED
  BY <1>1, <1>2, <1>3, InitType, NextType, OwnedNext, SeenInit, PTL
     DEF Spec, AuditTrailIsTrue
=============================================================================
