------------------------- MODULE ProjectJobsProofs -------------------------
(***************************************************************************)
(* Proofs about ProjectJobs, for every number of rows, processes, keys and *)
(* attempts.                                                               *)
(*                                                                         *)
(* Most operations only move rows along: they leave the claims alone and   *)
(* change rows no other process's unit has locked.  Such a step is Calm,   *)
(* and one lemma shows that Calm steps preserve JobsInv.  What is left is  *)
(* the enqueue, which needs a free key, and the claim, which hands out a   *)
(* new fence.                                                              *)
(***************************************************************************)
EXTENDS ProjectJobs, TLAPS

\* What JobsInv says of a single row.
RowOK(r) ==
  /\ r.attempts = r.fence
  /\ r.attempts <= MaxAttempts
  /\ r.status = "retry-wait" => r.attempts < MaxAttempts
  /\ r.status = "running" <=> r.lease # "none"
  /\ r.cancel => r.status \notin Waiting \cup {"blocked-review"}
  /\ r.status = "absent" => r.fence = 0

\* How a row may change when it is neither enqueued nor claimed.
Moves(r, s) ==
  /\ s \in JobRow
  /\ RowOK(s)
  /\ s.key = r.key
  /\ s.fence = r.fence
  /\ s.status \in Active => r.status \in Active
  /\ r.status \in Settled => s.status = r.status
  /\ r.status = "running" /\ r.cancel =>
       /\ s.status \in {"running", "cancelled", "failed", "dead-letter"}
       /\ s.status = "running" => s.cancel

Calm ==
  /\ job' \in [Jobs -> JobRow]
  /\ \A j \in Jobs : Moves(job[j], job'[j])
  /\ held' \in [Workers -> Claims]
  /\ \A w \in Workers : held'[w] \in {held[w], NoClaim}
  /\ unit' \in [Workers -> BOOLEAN]
  /\ \A w \in Workers :
       unit'[w] => /\ unit[w] \/ OwnsRow(w)
                   /\ held'[w] = held[w]
                   /\ job'[held[w].job].status = "running"
  /\ wrote' \in [Jobs -> Nat]
  /\ \A j \in Jobs :
       wrote'[j] # wrote[j] => /\ wrote'[j] = job[j].fence
                               /\ job[j].lease \in LiveLease

-----------------------------------------------------------------------------
(* Rows.                                                                    *)

LEMMA RowsOK ==
  ASSUME JobsInv, NEW j \in Jobs
  PROVE  job[j] \in JobRow /\ RowOK(job[j])
  BY DEF JobsInv, TypeOK, RetryBudget, LeaseOnlyWhileRunning, AbsentIsBlank, RowOK

LEMMA SameRowMoves ==
  ASSUME NEW r \in JobRow, RowOK(r)
  PROVE  Moves(r, r)
  BY DEF Moves

LEMMA RecoveredMoves ==
  ASSUME NEW r \in JobRow, RowOK(r), r.status = "running"
  PROVE  Moves(r, Recovered(r))
  <1> DEFINE s == Recovered(r)
             late == r.cancel \/ r.attempts >= MaxAttempts
  <1>1. late \in BOOLEAN
    OBVIOUS
  <1>2. /\ s = [r EXCEPT !.status = s.status, !.ready = late, !.lease = "none", !.cancel = FALSE]
        /\ s.status \in {"cancelled", "dead-letter", "retry-wait"}
        /\ s.status = "retry-wait" => r.attempts < MaxAttempts
        /\ r.cancel => s.status = "cancelled"
    BY JobsAssumption DEF Recovered, JobRow
  <1> HIDE DEF s, late
  <1>3. s \in JobRow
    BY <1>1, <1>2 DEF JobRow, Statuses, Settled, Active, Waiting, Leases
  <1>4. /\ s.attempts = r.attempts /\ s.fence = r.fence /\ s.key = r.key
        /\ s.lease = "none" /\ s.cancel = FALSE
    BY <1>2 DEF JobRow
  <1>5. Moves(r, s)
    BY <1>2, <1>3, <1>4 DEF Moves, RowOK, JobRow, Waiting, Active, Settled
  <1> QED
    BY <1>5 DEF s

LEMMA FailedMoves ==
  ASSUME NEW r \in JobRow, RowOK(r), r.status = "running", NEW retryable \in BOOLEAN
  PROVE  Moves(r, Failed(r, retryable))
  <1> DEFINE s == Failed(r, retryable)
             late == r.cancel \/ r.attempts >= MaxAttempts \/ ~retryable
  <1>1. late \in BOOLEAN
    OBVIOUS
  <1>2. /\ s = [r EXCEPT !.status = s.status, !.ready = late, !.lease = "none", !.cancel = FALSE]
        /\ s.status \in {"cancelled", "dead-letter", "retry-wait"}
        /\ s.status = "retry-wait" => r.attempts < MaxAttempts
        /\ r.cancel => s.status = "cancelled"
    BY JobsAssumption DEF Failed, JobRow
  <1> HIDE DEF s, late
  <1>3. s \in JobRow
    BY <1>1, <1>2 DEF JobRow, Statuses, Settled, Active, Waiting, Leases
  <1>4. /\ s.attempts = r.attempts /\ s.fence = r.fence /\ s.key = r.key
        /\ s.lease = "none" /\ s.cancel = FALSE
    BY <1>2 DEF JobRow
  <1>5. Moves(r, s)
    BY <1>2, <1>3, <1>4 DEF Moves, RowOK, JobRow, Waiting, Active, Settled
  <1> QED
    BY <1>5 DEF s

-----------------------------------------------------------------------------
(* The three ways a step changes the table leave it calm.                   *)

LEMMA StillIsCalm ==
  ASSUME JobsInv, UNCHANGED jobVars
  PROVE  Calm
  <1>1. \A j \in Jobs : Moves(job[j], job[j])
    BY RowsOK, SameRowMoves
  <1> QED
    BY <1>1 DEF JobsInv, TypeOK, Calm, jobVars, UnitsAreOwned

\* One row no unit has locked.
LEMMA UnlockedChangeIsCalm ==
  ASSUME JobsInv, NEW j \in Jobs, NEW r, Moves(job[j], r), Unlocked(j), Put(j, r),
         UNCHANGED <<held, unit, wrote>>
  PROVE  Calm
  <1>1. \A i \in Jobs : Moves(job[i], job[i])
    BY RowsOK, SameRowMoves
  <1>2. /\ job' \in [Jobs -> JobRow]
        /\ \A i \in Jobs : job'[i] = IF i = j THEN r ELSE job[i]
    BY DEF JobsInv, TypeOK, Put, Moves
  <1>3. \A i \in Jobs : Moves(job[i], job'[i])
    BY <1>1, <1>2
  <1>4. ASSUME NEW w \in Workers, unit'[w]
        PROVE  unit[w] /\ job'[held[w].job].status = "running"
    <2>1. unit[w] /\ held[w].job \in Jobs /\ held[w].job # j
      BY <1>4 DEF JobsInv, TypeOK, UnitsAreOwned, Unlocked, Claims
    <2> QED
      BY <2>1, <1>2 DEF JobsInv, UnitsAreOwned
  <1> QED
    BY <1>2, <1>3, <1>4 DEF JobsInv, TypeOK, Calm

LEMMA OwnChangeIsCalm ==
  ASSUME JobsInv, NEW w \in Workers, NEW r, UpdateOwn(w, r),
         job[held[w].job].status = "running" => Moves(job[held[w].job], r)
  PROVE  Calm
  <1>1. held[w].job \in Jobs /\ job[held[w].job].status = "running"
    BY DEF JobsInv, TypeOK, Claims, UpdateOwn, OwnsRow
  <1> QED
    BY <1>1, UnlockedChangeIsCalm DEF UpdateOwn

\* The row of an open unit, as the unit commits.
LEMMA CloseUnitIsCalm ==
  ASSUME JobsInv, NEW w \in Workers, NEW r, CloseUnit(w, r),
         job[held[w].job].status = "running" => Moves(job[held[w].job], r)
  PROVE  Calm
  <1> DEFINE h == held[w].job
  <1>1. h \in Jobs /\ job[h].status = "running" /\ job[h].fence = held[w].fence
    BY DEF JobsInv, TypeOK, Claims, CloseUnit, OwnsRow
  <1>2. \A i \in Jobs : Moves(job[i], job[i])
    BY RowsOK, SameRowMoves
  <1>3. /\ job' \in [Jobs -> JobRow]
        /\ \A i \in Jobs : job'[i] = IF i = h THEN r ELSE job[i]
    BY <1>1 DEF JobsInv, TypeOK, Put, Moves, CloseUnit
  <1>4. \A i \in Jobs : Moves(job[i], job'[i])
    BY <1>1, <1>2, <1>3
  <1>5. ASSUME NEW v \in Workers, unit'[v]
        PROVE  unit[v] /\ job'[held[v].job].status = "running"
    <2>1. unit[v] /\ v # w
      BY <1>5 DEF JobsInv, TypeOK, CloseUnit
    <2>2. held[v].job \in Jobs /\ held[v].job # h
      BY <2>1, <1>1 DEF JobsInv, TypeOK, UnitsAreOwned, ClaimsAreDistinct, CloseUnit, Claims
    <2> QED
      BY <2>1, <2>2, <1>3 DEF JobsInv, UnitsAreOwned
  <1>6. /\ wrote' \in [Jobs -> Nat]
        /\ \A i \in Jobs :
             wrote'[i] # wrote[i] => wrote'[i] = job[i].fence /\ job[i].lease \in LiveLease
    BY <1>1 DEF JobsInv, TypeOK, CloseUnit, OwnsRow, Claims
  <1>7. held' = held /\ unit' \in [Workers -> BOOLEAN]
    BY DEF JobsInv, TypeOK, CloseUnit
  <1> QED
    BY <1>3, <1>4, <1>5, <1>6, <1>7 DEF JobsInv, TypeOK, Calm

-----------------------------------------------------------------------------
(* Every step but the enqueue and the claim is calm.                        *)

LEMMA HolderIsCalm ==
  ASSUME JobsInv, NEW w \in Workers, HolderStep(w),
         ~ \E j \in Jobs : ClaimOldest(w, j) \/ ClaimById(w, j)
  PROVE  Calm
  <1> DEFINE h == held[w].job
             r == job[h]
  <1>1. OwnsRow(w) => h \in Jobs /\ r \in JobRow /\ RowOK(r) /\ r.status = "running"
    BY RowsOK DEF JobsInv, TypeOK, Claims, OwnsRow
  <1>2. OwnsRow(w) => Moves(r, r)
    BY <1>1, SameRowMoves
  <1>3. CASE Renew(w)
    <2>1. OwnsRow(w)
      BY <1>3 DEF Renew, UpdateOwn
    <2>2. Moves(r, [r EXCEPT !.lease = "fresh"])
      BY <1>1, <2>1
      DEF Moves, RowOK, JobRow, Leases, LiveLease, Waiting, Active, Settled, Statuses
    <2> QED
      BY <1>3, <2>2, OwnChangeIsCalm DEF Renew
  <1>4. CASE \E s \in Snapshots : BindIdentity(w, s)
    <2>1. PICK s \in Snapshots : BindIdentity(w, s)
      BY <1>4
    <2>2. OwnsRow(w)
      BY <2>1 DEF BindIdentity, UpdateOwn
    <2>3. Moves(r, [r EXCEPT !.snapshot = s])
      BY <1>1, <2>2 DEF Moves, RowOK, JobRow
    <2> QED
      BY <2>1, <2>3, OwnChangeIsCalm DEF BindIdentity
  <1>5. CASE BlockForReview(w)
    <2>1. OwnsRow(w) /\ ~r.cancel
      BY <1>5 DEF BlockForReview, OwnsUncancelled
    <2>2. Moves(r, [r EXCEPT !.status = "blocked-review", !.lease = "none"])
      BY <1>1, <2>1
      DEF Moves, RowOK, JobRow, Leases, LiveLease, Waiting, Active, Settled, Statuses
    <2> QED
      BY <1>5, <2>2, OwnChangeIsCalm DEF BlockForReview
  <1>6. CASE CancelOwn(w)
    <2>1. OwnsRow(w)
      BY <1>6 DEF CancelOwn, UpdateOwn
    <2>2. Moves(r, [r EXCEPT !.status = "cancelled", !.lease = "none", !.cancel = FALSE])
      BY <1>1, <2>1
      DEF Moves, RowOK, JobRow, Leases, LiveLease, Waiting, Active, Settled, Statuses
    <2> QED
      BY <1>6, <2>2, OwnChangeIsCalm DEF CancelOwn
  <1>7. CASE \E status \in {"succeeded", "failed"} : Finish(w, status)
    <2>1. PICK status \in {"succeeded", "failed"} : Finish(w, status)
      BY <1>7
    <2>2. OwnsRow(w) /\ ~r.cancel
      BY <2>1 DEF Finish, OwnsUncancelled
    <2>3. Moves(r, [r EXCEPT !.status = status, !.lease = "none"])
      BY <1>1, <2>2
      DEF Moves, RowOK, JobRow, Leases, LiveLease, Waiting, Active, Settled, Statuses
    <2> QED
      BY <2>1, <2>3, OwnChangeIsCalm DEF Finish
  <1>8. CASE \E retryable \in BOOLEAN : Fail(w, retryable)
    <2>1. PICK retryable \in BOOLEAN : Fail(w, retryable)
      BY <1>8
    <2>2. OwnsRow(w)
      BY <2>1 DEF Fail, UpdateOwn
    <2>3. Moves(r, Failed(r, retryable))
      BY <1>1, <2>2, FailedMoves
    <2> QED
      BY <2>1, <2>3, OwnChangeIsCalm DEF Fail
  <1>9. CASE DeadLetterOwn(w)
    <2>1. OwnsRow(w)
      BY <1>9 DEF DeadLetterOwn, UpdateOwn
    <2>2. Moves(r, [r EXCEPT !.status = "dead-letter", !.lease = "none"])
      BY <1>1, <2>1
      DEF Moves, RowOK, JobRow, Leases, LiveLease, Waiting, Active, Settled, Statuses
    <2> QED
      BY <1>9, <2>2, OwnChangeIsCalm DEF DeadLetterOwn
  <1>10. CASE OpenUnit(w)
    <2>1. \A j \in Jobs : Moves(job[j], job[j])
      BY RowsOK, SameRowMoves
    <2> QED
      BY <1>10, <2>1 DEF OpenUnit, OwnsRow, JobsInv, TypeOK, Calm, UnitsAreOwned
  <1>11. CASE CommitUnit(w)
    BY <1>2, <1>11, CloseUnitIsCalm DEF CommitUnit, CloseUnit
  <1>12. CASE SucceedUnit(w)
    <2>1. OwnsRow(w) /\ ~r.cancel
      BY <1>12 DEF SucceedUnit, OwnsUncancelled
    <2>2. Moves(r, [r EXCEPT !.status = "succeeded", !.lease = "none"])
      BY <1>1, <2>1
      DEF Moves, RowOK, JobRow, Leases, LiveLease, Waiting, Active, Settled, Statuses
    <2> QED
      BY <1>12, <2>2, CloseUnitIsCalm DEF SucceedUnit
  <1>13. CASE FailUnit(w)
    <2>1. OwnsRow(w)
      BY <1>13 DEF FailUnit
    <2>2. Moves(r, [r EXCEPT !.status = "failed", !.lease = "none"])
      BY <1>1, <2>1
      DEF Moves, RowOK, JobRow, Leases, LiveLease, Waiting, Active, Settled, Statuses
    <2> QED
      BY <1>13, <2>2, CloseUnitIsCalm DEF FailUnit
  <1>14. CASE RollBackUnit(w) \/ Forget(w)
    <2>1. \A j \in Jobs : Moves(job[j], job[j])
      BY RowsOK, SameRowMoves
    <2>2. NoClaim \in Claims
      BY DEF NoClaim, Claims
    <2> QED
      BY <1>14, <2>1, <2>2 DEF RollBackUnit, Forget, JobsInv, TypeOK, Calm, UnitsAreOwned
  <1> QED
    BY <1>3, <1>4, <1>5, <1>6, <1>7, <1>8, <1>9, <1>10, <1>11, <1>12, <1>13, <1>14
    DEF HolderStep

LEMMA RowStepIsCalm ==
  ASSUME JobsInv, NEW j \in Jobs, OperatorStep(j) \/ ClockStep(j),
         ~ \E k \in Keys, ready \in BOOLEAN : Enqueue(j, k, ready)
  PROVE  Calm
  <1> DEFINE r == job[j]
  <1>1. r \in JobRow /\ RowOK(r)
    BY RowsOK
  <1>2. CASE RequestCancel(j)
    <2>1. Moves(r, [r EXCEPT !.cancel = TRUE])
      BY <1>1, <1>2
      DEF RequestCancel, Moves, RowOK, JobRow, Leases, LiveLease, Waiting, Active, Settled, Statuses
    <2> QED
      BY <1>2, <2>1, UnlockedChangeIsCalm DEF RequestCancel, UpdateRow
  <1>3. CASE Cancel(j)
    <2>1. Moves(r, [r EXCEPT !.status = "cancelled", !.lease = "none", !.cancel = FALSE])
      BY <1>1, <1>3
      DEF Cancel, Moves, RowOK, JobRow, Leases, LiveLease, Waiting, Active, Settled, Statuses
    <2> QED
      BY <1>3, <2>1, UnlockedChangeIsCalm DEF Cancel, UpdateRow
  <1>4. CASE Resume(j)
    <2>1. Moves(r, [r EXCEPT !.status = "queued", !.ready = TRUE, !.cancel = FALSE])
      BY <1>1, <1>4
      DEF Resume, Moves, RowOK, JobRow, Leases, LiveLease, Waiting, Active, Settled, Statuses
    <2> QED
      BY <1>4, <2>1, UnlockedChangeIsCalm DEF Resume, UpdateRow
  <1>5. CASE DeadLetter(j)
    <2>1. Moves(r, [r EXCEPT !.status = "dead-letter", !.lease = "none"])
      BY <1>1, <1>5
      DEF DeadLetter, Moves, RowOK, JobRow, Leases, LiveLease, Waiting, Active, Settled, Statuses
    <2> QED
      BY <1>5, <2>1, UnlockedChangeIsCalm DEF DeadLetter, UpdateRow
  <1>6. CASE ClockStep(j)
    <2>1. \E r1 \in JobRow : Put(j, r1) /\ Moves(r, r1) /\ r1.status = r.status
      <3>1. CASE LeaseRuns(j)
        <4> DEFINE r1 == [r EXCEPT !.lease = IF @ = "fresh" THEN "due" ELSE "expired"]
        <4>1. r1 \in JobRow /\ r1.status = r.status
          BY <1>1 DEF JobRow, Leases, LiveLease
        <4>2. Moves(r, r1)
          BY <1>1, <3>1, <4>1 DEF LeaseRuns, Moves, RowOK, JobRow, Leases, LiveLease
        <4> QED
          BY <3>1, <4>1, <4>2 DEF LeaseRuns
      <3>2. CASE BecomesAvailable(j)
        <4> DEFINE r1 == [r EXCEPT !.ready = TRUE]
        <4>1. r1 \in JobRow /\ r1.status = r.status
          BY <1>1 DEF JobRow
        <4>2. Moves(r, r1)
          BY <1>1, <4>1 DEF Moves, RowOK, JobRow
        <4> QED
          BY <3>2, <4>1, <4>2 DEF BecomesAvailable
      <3> QED
        BY <1>6, <3>1, <3>2 DEF ClockStep
    <2>2. \A i \in Jobs : Moves(job[i], job[i])
      BY RowsOK, SameRowMoves
    <2>3. UNCHANGED <<held, unit, wrote>>
      BY <1>6 DEF ClockStep, LeaseRuns, BecomesAvailable
    <2> QED
      BY <2>1, <2>2, <2>3 DEF Put, JobsInv, TypeOK, Calm, UnitsAreOwned, Claims
  <1> QED
    BY <1>2, <1>3, <1>4, <1>5, <1>6 DEF OperatorStep

LEMMA RecoverIsCalm ==
  ASSUME JobsInv, RecoverStale
  PROVE  Calm
  <1>1. ASSUME NEW j \in Jobs
        PROVE  Moves(job[j], job'[j])
    <2>1. job[j] \in JobRow /\ RowOK(job[j])
      BY RowsOK
    <2>2. CASE Stale(j)
      BY <2>1, <2>2, RecoveredMoves DEF RecoverStale, Stale
    <2>3. CASE ~Stale(j)
      BY <2>1, <2>3, SameRowMoves DEF RecoverStale
    <2> QED
      BY <2>2, <2>3
  <1>2. job' \in [Jobs -> JobRow]
    BY <1>1 DEF RecoverStale, Moves
  <1>3. ASSUME NEW w \in Workers, unit[w]
        PROVE  job'[held[w].job] = job[held[w].job]
    BY <1>3 DEF JobsInv, TypeOK, UnitsAreOwned, Claims, RecoverStale, Stale, Unlocked
  <1> QED
    BY <1>1, <1>2, <1>3 DEF RecoverStale, JobsInv, TypeOK, Calm, UnitsAreOwned
-----------------------------------------------------------------------------
(* The invariant.                                                           *)

LEMMA CalmKeepsInv ==
  ASSUME JobsInv, Calm
  PROVE  JobsInv'
  <1>1. \A j \in Jobs : job'[j] \in JobRow /\ RowOK(job'[j]) /\ job'[j].fence = job[j].fence
    BY DEF Calm, Moves
  <1>2. TypeOK'
    BY DEF Calm, TypeOK
  <1>3. RetryBudget' /\ LeaseOnlyWhileRunning' /\ AbsentIsBlank'
    BY <1>1 DEF RowOK, RetryBudget, LeaseOnlyWhileRunning, AbsentIsBlank
  <1>4. OneActiveJobPerKey'
    BY DEF JobsInv, Calm, Moves, OneActiveJobPerKey
  <1>5. ClaimsAreDistinct' /\ ClaimsArePast'
    BY <1>1 DEF JobsInv, TypeOK, Calm, ClaimsAreDistinct, ClaimsArePast, Claims, NoClaim
  <1>6. UnitsAreOwned'
    <2> SUFFICES ASSUME NEW w \in Workers, unit'[w]
                 PROVE  /\ held'[w].job # NoJob
                        /\ job'[held'[w].job].status = "running"
                        /\ job'[held'[w].job].fence = held'[w].fence
      BY DEF UnitsAreOwned
    <2>1. /\ held[w].job \in Jobs
          /\ job[held[w].job].fence = held[w].fence
      BY DEF JobsInv, TypeOK, Calm, UnitsAreOwned, OwnsRow, Claims
    <2> QED
      BY <1>1, <2>1 DEF Calm, Jobs, NoJob
  <1>7. WritesArePast'
    BY <1>1 DEF JobsInv, TypeOK, Calm, WritesArePast, JobRow
  <1> QED
    BY <1>2, <1>3, <1>4, <1>5, <1>6, <1>7 DEF JobsInv

LEMMA EnqueueKeepsInv ==
  ASSUME JobsInv, NEW j \in Jobs, NEW k \in Keys, NEW ready \in BOOLEAN, Enqueue(j, k, ready)
  PROVE  JobsInv'
  <1> DEFINE r == QueuedRow(k, ready)
  <1>1. r \in JobRow /\ RowOK(r) /\ r.status = "queued" /\ r.key = k /\ r.fence = 0
    <2>1. r \in JobRow
      BY DEF QueuedRow, JobRow, Statuses, Active, Waiting, Leases
    <2> QED
      BY <2>1, JobsAssumption DEF QueuedRow, RowOK
  <1> HIDE DEF r
  <1>2. /\ job' \in [Jobs -> JobRow]
        /\ \A i \in Jobs : job'[i] = IF i = j THEN r ELSE job[i]
    BY <1>1 DEF r, Enqueue, Put, JobsInv, TypeOK
  <1>3. job[j].status = "absent" /\ job[j].fence = 0
    BY DEF Enqueue, JobsInv, AbsentIsBlank
  <1>4. \A i \in Jobs : RowOK(job'[i]) /\ job'[i].fence = job[i].fence
    BY <1>1, <1>2, <1>3, RowsOK
  <1>5. UNCHANGED <<held, unit, wrote>>
    BY DEF Enqueue
  <1>6. TypeOK'
    BY <1>2, <1>5 DEF JobsInv, TypeOK
  <1>7. RetryBudget' /\ LeaseOnlyWhileRunning' /\ AbsentIsBlank'
    BY <1>4 DEF RowOK, RetryBudget, LeaseOnlyWhileRunning, AbsentIsBlank
  <1>8. OneActiveJobPerKey'
    BY <1>1, <1>2 DEF Enqueue, KeyFree, JobsInv, OneActiveJobPerKey
  <1>9. ClaimsAreDistinct' /\ ClaimsArePast' /\ WritesArePast'
    BY <1>4, <1>5
    DEF JobsInv, TypeOK, ClaimsAreDistinct, ClaimsArePast, WritesArePast, Claims
  <1>10. UnitsAreOwned'
    <2>1. \A w \in Workers : unit[w] => held[w].job \in Jobs /\ held[w].job # j
      BY <1>3 DEF JobsInv, TypeOK, UnitsAreOwned, Claims
    <2> QED
      BY <1>2, <1>5, <2>1 DEF JobsInv, UnitsAreOwned
  <1> QED
    BY <1>6, <1>7, <1>8, <1>9, <1>10 DEF JobsInv

LEMMA TakeOverKeepsInv ==
  ASSUME JobsInv, NEW w \in Workers, NEW j \in Jobs, Claimable(j), TakeOver(w, j)
  PROVE  JobsInv'
  <1> DEFINE r == [job[j] EXCEPT !.status = "running", !.lease = "fresh", !.ready = TRUE,
                     !.cancel = FALSE, !.attempts = @ + 1, !.fence = @ + 1]
  <1>1. /\ job[j] \in JobRow /\ RowOK(job[j])
        /\ job[j].status \in Active
        /\ job[j].attempts < MaxAttempts
    BY RowsOK DEF Claimable, Active, Waiting
  <1>2. /\ r \in JobRow
        /\ r.status = "running" /\ r.key = job[j].key
        /\ r.fence = job[j].fence + 1
    <2>1. /\ r.status = "running" /\ r.key = job[j].key /\ r.lease = "fresh"
          /\ r.fence = job[j].fence + 1 /\ r.attempts = job[j].attempts + 1
      BY <1>1 DEF JobRow
    <2>2. "running" \in Statuses /\ "fresh" \in Leases
      BY DEF Statuses, Active, Leases, LiveLease
    <2>3. job[j].attempts + 1 \in Nat /\ job[j].fence + 1 \in Nat
      BY <1>1 DEF JobRow
    <2>4. r \in JobRow
      BY <1>1, <2>2, <2>3 DEF JobRow
    <2> QED
      BY <2>1, <2>4
  <1>3. RowOK(r)
    BY <1>1, JobsAssumption DEF RowOK, JobRow, Waiting
  <1> HIDE DEF r
  <1>4. /\ job' \in [Jobs -> JobRow]
        /\ \A i \in Jobs : job'[i] = IF i = j THEN r ELSE job[i]
    BY <1>2 DEF r, TakeOver, Put, JobsInv, TypeOK
  <1>5. /\ held' \in [Workers -> Claims]
        /\ \A v \in Workers :
             held'[v] = IF v = w THEN [job |-> j, fence |-> r.fence] ELSE held[v]
        /\ UNCHANGED <<unit, wrote>>
        /\ held[w].job = NoJob
    BY <1>1, <1>2 DEF TakeOver, JobsInv, TypeOK, Claims, JobRow, NoClaim
  <1>6. \A i \in Jobs : RowOK(job'[i]) /\ job'[i].fence \in Nat /\ job'[i].fence >= job[i].fence
    BY <1>1, <1>2, <1>3, <1>4, RowsOK DEF JobRow
  <1>7. TypeOK'
    BY <1>4, <1>5 DEF JobsInv, TypeOK
  <1>8. RetryBudget' /\ LeaseOnlyWhileRunning' /\ AbsentIsBlank'
    BY <1>6 DEF RowOK, RetryBudget, LeaseOnlyWhileRunning, AbsentIsBlank
  <1>9. OneActiveJobPerKey'
    BY <1>1, <1>2, <1>4 DEF JobsInv, OneActiveJobPerKey
  <1>10. ClaimsArePast'
    <2> SUFFICES ASSUME NEW v \in Workers, held'[v].job # NoJob
                 PROVE  held'[v].fence \in 1 .. job'[held'[v].job].fence
      BY DEF ClaimsArePast
    <2>1. CASE v = w
      BY <1>1, <1>2, <1>4, <1>5, <2>1 DEF JobRow
    <2>2. CASE v # w
      <3>1. held[v].job \in Jobs /\ held[v].fence \in 1 .. job[held[v].job].fence
        BY <1>5, <2>2 DEF JobsInv, TypeOK, ClaimsArePast, Claims
      <3> QED
        BY <1>1, <1>2, <1>4, <1>5, <2>2, <3>1, RowsOK DEF JobRow
    <2> QED
      BY <2>1, <2>2
  <1>11. ClaimsAreDistinct'
    <2>1. \A v \in Workers : held[v].job = j => held[v].fence < r.fence
      BY <1>1, <1>2 DEF JobsInv, TypeOK, ClaimsArePast, Claims, JobRow, Jobs, NoJob
    <2> QED
      BY <1>1, <1>2, <1>5, <2>1 DEF JobsInv, TypeOK, ClaimsAreDistinct, Claims, JobRow
  <1>12. UnitsAreOwned'
    <2>1. \A v \in Workers : unit[v] => v # w /\ held[v].job # j
      BY <1>5 DEF Claimable, Unlocked, JobsInv, UnitsAreOwned
    <2> QED
      BY <1>4, <1>5, <2>1 DEF JobsInv, TypeOK, UnitsAreOwned, Claims
  <1>13. WritesArePast'
    BY <1>5, <1>6, RowsOK DEF JobsInv, TypeOK, WritesArePast, JobRow
  <1> QED
    BY <1>7, <1>8, <1>9, <1>10, <1>11, <1>12, <1>13 DEF JobsInv

\* A step either enqueues a row, claims one, or is calm.
LEMMA StepCases ==
  ASSUME JobsInv, [Next]_jobVars
  PROVE  \/ \E j \in Jobs, k \in Keys, ready \in BOOLEAN : Enqueue(j, k, ready)
         \/ \E w \in Workers, j \in Jobs : Claimable(j) /\ TakeOver(w, j)
         \/ Calm
  <1>1. CASE \E w \in Workers : HolderStep(w)
    BY <1>1, HolderIsCalm DEF ClaimOldest, ClaimById
  <1>2. CASE \E j \in Jobs : OperatorStep(j) \/ ClockStep(j)
    BY <1>2, RowStepIsCalm
  <1>3. CASE RecoverStale
    BY <1>3, RecoverIsCalm
  <1>4. CASE UNCHANGED jobVars
    BY <1>4, StillIsCalm
  <1> QED
    BY <1>1, <1>2, <1>3, <1>4 DEF Next

\* The inductive invariant of the job table holds in every reachable state, for
\* any number of rows, processes, keys and attempts.
THEOREM JobsInvariant == Spec => []JobsInv
  <1>1. Init => JobsInv
    BY JobsAssumption
    DEF Init, JobsInv, TypeOK, RetryBudget, LeaseOnlyWhileRunning, AbsentIsBlank,
        OneActiveJobPerKey, ClaimsAreDistinct, ClaimsArePast, UnitsAreOwned, WritesArePast,
        AbsentRow, JobRow, NoClaim, Claims, Statuses, Active, Waiting, Settled, Leases, LiveLease
  <1>2. JobsInv /\ [Next]_jobVars => JobsInv'
    BY StepCases, CalmKeepsInv, EnqueueKeepsInv, TakeOverKeepsInv
  <1> QED
    BY <1>1, <1>2, PTL DEF Spec

\* Type correctness of the job table.
THEOREM TypeCorrect == Spec => []TypeOK
  <1>1. JobsInv => TypeOK
    BY DEF JobsInv
  <1> QED
    BY <1>1, JobsInvariant, PTL

\* Fencing: no two processes ever both pass the ownership check of one row.
THEOREM FencingExcludes == Spec => []OneOwnerPerJob
  <1>1. JobsInv => OneOwnerPerJob
    BY DEF JobsInv, OneOwnerPerJob, OwnsRow, ClaimsAreDistinct
  <1> QED
    BY <1>1, JobsInvariant, PTL

\* An open protected unit keeps its row to itself until it commits or rolls back.
THEOREM UnitsExclude == Spec => []UnitKeepsItsJob
  <1>1. JobsInv => UnitKeepsItsJob
    BY DEF JobsInv, UnitKeepsItsJob, UnitsAreOwned
  <1> QED
    BY <1>1, JobsInvariant, PTL

\* A dedupe key never has two active rows.
THEOREM KeysAreUnique == Spec => []OneActiveJobPerKey
  <1>1. JobsInv => OneActiveJobPerKey
    BY DEF JobsInv
  <1> QED
    BY <1>1, JobsInvariant, PTL

\* No row is ever claimed more than MaxAttempts times.
THEOREM BudgetHolds == Spec => []RetryBudget
  <1>1. JobsInv => RetryBudget
    BY DEF JobsInv
  <1> QED
    BY <1>1, JobsInvariant, PTL

\* Settled rows stay settled.
THEOREM SettledRowsAreFinal == Spec => SettledIsFinal
  <1> DEFINE A == \A j \in Jobs : job[j].status \in Settled =>
                    /\ job'[j].status = job[j].status
                    /\ job'[j].fence = job[j].fence
                    /\ wrote'[j] = wrote[j]
  <1>1. JobsInv /\ [Next]_jobVars => [A]_jobVars
    <2> SUFFICES ASSUME JobsInv, [Next]_jobVars, NEW j \in Jobs, job[j].status \in Settled
                 PROVE  /\ job'[j].status = job[j].status
                        /\ job'[j].fence = job[j].fence
                        /\ wrote'[j] = wrote[j]
      OBVIOUS
    <2>1. ASSUME NEW i \in Jobs, NEW k \in Keys, NEW ready \in BOOLEAN, Enqueue(i, k, ready)
          PROVE  job'[j] = job[j] /\ wrote'[j] = wrote[j]
      BY <2>1 DEF Enqueue, Put, Settled, JobsInv, TypeOK
    <2>2. ASSUME NEW w \in Workers, NEW i \in Jobs, Claimable(i), TakeOver(w, i)
          PROVE  job'[j] = job[j] /\ wrote'[j] = wrote[j]
      BY <2>2 DEF Claimable, TakeOver, Put, Settled, Waiting, JobsInv, TypeOK
    <2>3. CASE Calm
      <3>1. job[j].lease \notin LiveLease
        BY DEF JobsInv, LeaseOnlyWhileRunning, Settled, LiveLease
      <3> QED
        BY <2>3, <3>1 DEF Calm, Moves
    <2> QED
      BY <2>1, <2>2, <2>3, StepCases
  <1> QED
    BY <1>1, JobsInvariant, PTL DEF Spec, SettledIsFinal

\* A cancellation request outlives everything but the end of its row.
THEOREM CancellationSticks == Spec => CancelSticks
  <1> DEFINE A == \A j \in Jobs : job[j].status = "running" /\ job[j].cancel =>
                    /\ job'[j].fence = job[j].fence
                    /\ job'[j].status \in {"running", "cancelled", "failed", "dead-letter"}
                    /\ job'[j].status = "running" => job'[j].cancel
  <1>1. JobsInv /\ [Next]_jobVars => [A]_jobVars
    <2> SUFFICES ASSUME JobsInv, [Next]_jobVars, NEW j \in Jobs,
                        job[j].status = "running", job[j].cancel
                 PROVE  /\ job'[j].fence = job[j].fence
                        /\ job'[j].status \in {"running", "cancelled", "failed", "dead-letter"}
                        /\ job'[j].status = "running" => job'[j].cancel
      OBVIOUS
    <2>1. ASSUME NEW i \in Jobs, NEW k \in Keys, NEW ready \in BOOLEAN, Enqueue(i, k, ready)
          PROVE  job'[j] = job[j]
      BY <2>1 DEF Enqueue, Put, JobsInv, TypeOK
    <2>2. ASSUME NEW w \in Workers, NEW i \in Jobs, Claimable(i), TakeOver(w, i)
          PROVE  job'[j] = job[j]
      BY <2>2 DEF Claimable, TakeOver, Put, JobsInv, TypeOK
    <2>3. CASE Calm
      BY <2>3 DEF Calm, Moves
    <2> QED
      BY <2>1, <2>2, <2>3, StepCases
  <1> QED
    BY <1>1, JobsInvariant, PTL DEF Spec, CancelSticks

\* Protected writes arrive in the order of the claims, each from the live owner.
THEOREM WritesAreFenced == Spec => WritesFollowFence
  <1> DEFINE A == \A j \in Jobs : wrote'[j] # wrote[j] =>
                    /\ wrote'[j] > wrote[j]
                    /\ wrote'[j] = job[j].fence
                    /\ job[j].lease \in LiveLease
  <1>1. JobsInv /\ [Next]_jobVars => [A]_jobVars
    <2> SUFFICES ASSUME JobsInv, [Next]_jobVars, NEW j \in Jobs, wrote'[j] # wrote[j]
                 PROVE  /\ wrote'[j] > wrote[j]
                        /\ wrote'[j] = job[j].fence
                        /\ job[j].lease \in LiveLease
      OBVIOUS
    <2>1. Calm
      BY StepCases DEF Enqueue, TakeOver
    <2>2. wrote[j] \in Nat /\ job[j].fence \in Nat /\ wrote[j] <= job[j].fence
      BY RowsOK DEF JobsInv, TypeOK, WritesArePast, JobRow
    <2> QED
      BY <2>1, <2>2 DEF Calm
  <1> QED
    BY <1>1, JobsInvariant, PTL DEF Spec, WritesFollowFence

-----------------------------------------------------------------------------
(* The last attempt.  Claims ask for an attempt to spare, and holders and   *)
(* operators for a lease that runs or a row that waits, so that a row whose  *)
(* last claim runs out, with its process dead or late, is out of reach of    *)
(* every operation but the recovery of stale rows.                           *)

\* The row is on its last attempt and the lease of that claim ran out.
Spent(j) ==
  job[j].status = "running" /\ job[j].lease = "expired" /\ job[j].attempts >= MaxAttempts

LEMMA HolderSparesSpent ==
  ASSUME TypeOK, NEW w \in Workers, HolderStep(w), NEW j \in Jobs, Spent(j)
  PROVE  job'[j] = job[j]
<1>1. OwnsRow(w) => held[w].job # j BY DEF OwnsRow, LiveLease, Spent
<1>2. ASSUME NEW row, UpdateOwn(w, row) PROVE job'[j] = job[j]
  BY <1>1, <1>2 DEF UpdateOwn, Put, TypeOK
<1>3. ASSUME NEW row, CloseUnit(w, row) PROVE job'[j] = job[j]
  BY <1>1, <1>3 DEF CloseUnit, Put, TypeOK
<1>4. ASSUME NEW i \in Jobs, ClaimOldest(w, i) \/ ClaimById(w, i) PROVE job'[j] = job[j]
  <2>1. Claimable(i) /\ TakeOver(w, i) BY <1>4 DEF ClaimOldest, ClaimById
  <2>2. job[i].attempts < MaxAttempts BY <2>1 DEF Claimable
  <2>3. i # j BY <2>2, JobsAssumption DEF Spent, TypeOK, JobRow
  <2> QED BY <2>1, <2>3 DEF TakeOver, Put, TypeOK
<1>5. CASE \/ Renew(w) \/ \E s \in Snapshots : BindIdentity(w, s)
           \/ BlockForReview(w) \/ CancelOwn(w)
           \/ \E status \in {"succeeded", "failed"} : Finish(w, status)
           \/ \E retryable \in BOOLEAN : Fail(w, retryable)
           \/ DeadLetterOwn(w)
  BY <1>2, <1>5 DEF Renew, BindIdentity, BlockForReview, CancelOwn, Finish, Fail, DeadLetterOwn
<1>6. CASE CommitUnit(w) \/ SucceedUnit(w) \/ FailUnit(w)
  BY <1>3, <1>6 DEF CommitUnit, SucceedUnit, FailUnit
<1>7. CASE OpenUnit(w) \/ RollBackUnit(w) \/ Forget(w)
  BY <1>7 DEF OpenUnit, RollBackUnit, Forget
<1> QED BY <1>4, <1>5, <1>6, <1>7 DEF HolderStep

LEMMA OthersSpareSpent ==
  ASSUME TypeOK, NEW i \in Jobs, OperatorStep(i) \/ ClockStep(i), NEW j \in Jobs, Spent(j)
  PROVE  job'[j] = job[j]
BY DEF OperatorStep, ClockStep, Enqueue, RequestCancel, Cancel, Resume, DeadLetter, LeaseRuns,
       BecomesAvailable, UpdateRow, Put, Spent, Waiting, LiveLease, TypeOK

\* A row whose last claim ran out stays running as it is, and its key
\* stays taken, through every claim, unit, operator and restart, until stale rows
\* are recovered; no code outside the tests calls recoverStaleProjectRagJobs.
THEOREM SpentRowsAreStuck ==
  ASSUME NEW j \in Jobs
  PROVE  Spec /\ [][~RecoverStale]_jobVars =>
           [](Spent(j) => [](Spent(j) /\ ~KeyFree(job[j].key)))
<1>1. TypeOK /\ Spent(j) /\ [Next]_jobVars /\ [~RecoverStale]_jobVars => Spent(j)'
  <2> SUFFICES ASSUME TypeOK, Spent(j), [Next]_jobVars, [~RecoverStale]_jobVars PROVE Spent(j)'
    OBVIOUS
  <2>1. CASE UNCHANGED jobVars BY <2>1 DEF jobVars, Spent
  <2>2. CASE \E w \in Workers : HolderStep(w) BY <2>2, HolderSparesSpent DEF Spent
  <2>3. CASE \E i \in Jobs : OperatorStep(i) \/ ClockStep(i)
    BY <2>3, OthersSpareSpent DEF Spent
  <2> QED BY <2>1, <2>2, <2>3 DEF Next
<1>2. Spent(j) => ~KeyFree(job[j].key) BY DEF Spent, KeyFree, Active
<1> QED BY <1>1, <1>2, TypeCorrect, PTL DEF Spec

=============================================================================
