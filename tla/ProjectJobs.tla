---------------------------- MODULE ProjectJobs ----------------------------
(***************************************************************************)
(* The durable job table of Project RAG (project_jobs) and every operation *)
(* scripts/project-rag/store.ts offers on it, called in any order by any   *)
(* number of processes.                                                    *)
(*                                                                         *)
(* A claim gives its caller a fence: the row's fence_token after the claim *)
(* added one to it.  Every later operation of that caller names the fence, *)
(* and takes effect only while the row is running under that fence and its *)
(* lease has not run out.  held[w] is what the process w remembers of its  *)
(* claim; nothing tells w that the row has moved on.                       *)
(*                                                                         *)
(* A protected unit (beginProjectRagFencedWrite) is a transaction that     *)
(* locks the job row, checks the fence, writes, and checks the fence again *)
(* before it commits.  Until it ends, an UPDATE of the row waits and the   *)
(* claim and recovery queries (FOR UPDATE SKIP LOCKED) pass the row over.  *)
(*                                                                         *)
(* Time is reduced to what the guards read of it: a lease is fresh, due    *)
(* for its heartbeat, or expired; available_at is past (ready) or not.     *)
(* Abstracted: payloads, results, errors, timestamps no guard reads,       *)
(* worker_id (written, never tested) and jobs without a dedupe key.        *)
(***************************************************************************)
EXTENDS Naturals

CONSTANTS
  NumJobs,      \* bound: rows ever enqueued
  Workers,      \* processes that may hold a claim
  Keys,         \* dedupe keys
  Snapshots,    \* snapshot uuids a job can be bound to
  MaxAttempts   \* max_attempts of every row

ASSUME JobsAssumption == NumJobs \in Nat /\ MaxAttempts \in Nat \ {0}

Jobs == 1 .. NumJobs
NoJob == 0
NoKey == "no key"
NoSnapshot == "no snapshot"

ASSUME NullsAssumption == NoKey \notin Keys /\ NoSnapshot \notin Snapshots

VARIABLES
  job,     \* the table
  held,    \* [Workers -> claim]: the claim each process remembers
  unit,    \* [Workers -> BOOLEAN]: the process has a protected unit open
  wrote    \* history, [Jobs -> Nat]: fence of the row's last protected write

jobVars == <<job, held, unit, wrote>>

Waiting == {"queued", "retry-wait"}
Active == Waiting \cup {"running", "blocked-review"}
Settled == {"succeeded", "failed", "dead-letter", "cancelled"}
Statuses == {"absent"} \cup Active \cup Settled
LiveLease == {"fresh", "due"}
Leases == LiveLease \cup {"none", "expired"}

JobRow ==
  [status: Statuses, key: Keys \cup {NoKey}, attempts: Nat, fence: Nat,
   lease: Leases, ready: BOOLEAN, cancel: BOOLEAN,
   snapshot: Snapshots \cup {NoSnapshot}]
Claims == [job: Jobs \cup {NoJob}, fence: Nat]

AbsentRow ==
  [status |-> "absent", key |-> NoKey, attempts |-> 0, fence |-> 0,
   lease |-> "none", ready |-> FALSE, cancel |-> FALSE, snapshot |-> NoSnapshot]
QueuedRow(k, ready) ==
  [status |-> "queued", key |-> k, attempts |-> 0, fence |-> 0,
   lease |-> "none", ready |-> ready, cancel |-> FALSE, snapshot |-> NoSnapshot]
NoClaim == [job |-> NoJob, fence |-> 0]

-----------------------------------------------------------------------------
(* What the guards read.                                                    *)

\* No protected unit holds the row lock of j.
Unlocked(j) == \A w \in Workers : unit[w] => held[w].job # j

\* The row w claimed is running under w's fence with a live lease.
OwnsRow(w) ==
  /\ held[w].job # NoJob
  /\ job[held[w].job].status = "running"
  /\ job[held[w].job].fence = held[w].fence
  /\ job[held[w].job].lease \in LiveLease

\* ... and nobody has asked for its cancellation.
OwnsUncancelled(w) == OwnsRow(w) /\ ~job[held[w].job].cancel

\* Mutant: a row that waits for its retry is no candidate.
Claimable_QueuedOnly(j) ==
  /\ Unlocked(j)
  /\ \/ job[j].status = "queued" /\ job[j].ready
     \/ job[j].status = "running" /\ job[j].lease = "expired"
  /\ job[j].attempts < MaxAttempts
  /\ ~job[j].cancel

\* Mutant: a running row is no candidate, even when its lease is over.
Claimable_NoReclaim(j) ==
  /\ Unlocked(j)
  /\ job[j].status \in Waiting /\ job[j].ready
  /\ job[j].attempts < MaxAttempts
  /\ ~job[j].cancel

\* The candidate condition of both claim queries.
Claimable(j) ==
  /\ Unlocked(j)
  /\ \/ job[j].status \in Waiting /\ job[j].ready
     \/ job[j].status = "running" /\ job[j].lease = "expired"
  /\ job[j].attempts < MaxAttempts
  /\ ~job[j].cancel

\* Mutant: the index of migration 008, which knows no blocked-review or retry-wait.
KeyFree_Old(k) ==
  \A i \in Jobs : job[i].status \in {"queued", "running"} => job[i].key # k

\* The partial unique index project_jobs_active_dedupe_idx.
KeyFree(k) == \A i \in Jobs : job[i].status \in Active => job[i].key # k

Put(j, row) == job' = [job EXCEPT ![j] = row]

\* An update of w's own row outside a protected unit: it waits for the lock.
UpdateOwn(w, row) ==
  /\ OwnsRow(w)
  /\ Unlocked(held[w].job)
  /\ Put(held[w].job, row)
  /\ UNCHANGED <<held, unit, wrote>>

\* An update no fence protects: any process, by row id.
UpdateRow(j, row) ==
  /\ Unlocked(j)
  /\ Put(j, row)
  /\ UNCHANGED <<held, unit, wrote>>

-----------------------------------------------------------------------------
(* Producers, claims and leases.                                            *)

\* A key that is already active returns the extant row and changes nothing.
Enqueue(j, k, ready) ==
  /\ job[j].status = "absent"
  /\ \A i \in Jobs : i < j => job[i].status # "absent"
  /\ KeyFree(k)
  /\ Put(j, QueuedRow(k, ready))
  /\ UNCHANGED <<held, unit, wrote>>

\* Mutant: a reclaim leaves fence_token as it was.
TakeOver_SameFence(w, j) ==
  /\ held[w] = NoClaim
  /\ Put(j, [job[j] EXCEPT !.status = "running", !.lease = "fresh", !.ready = TRUE,
               !.cancel = FALSE, !.attempts = @ + 1])
  /\ held' = [held EXCEPT ![w] = [job |-> j, fence |-> job[j].fence]]
  /\ UNCHANGED <<unit, wrote>>

TakeOver(w, j) ==
  /\ held[w] = NoClaim
  /\ Put(j, [job[j] EXCEPT !.status = "running", !.lease = "fresh", !.ready = TRUE,
               !.cancel = FALSE, !.attempts = @ + 1, !.fence = @ + 1])
  /\ held' = [held EXCEPT ![w] = [job |-> j, fence |-> job[j].fence + 1]]
  /\ UNCHANGED <<unit, wrote>>

\* The worker's claim: the oldest candidate of the whole table.
ClaimOldest(w, j) ==
  /\ Claimable(j)
  /\ \A i \in Jobs : Claimable(i) => j <= i
  /\ TakeOver(w, j)

\* The preparation coordinator's claim: its own job, whatever else waits.
ClaimById(w, j) == Claimable(j) /\ TakeOver(w, j)

Renew(w) == UpdateOwn(w, [job[held[w].job] EXCEPT !.lease = "fresh"])

Recovered(row) ==
  [row EXCEPT
     !.status = IF row.cancel THEN "cancelled"
                ELSE IF row.attempts >= MaxAttempts THEN "dead-letter" ELSE "retry-wait",
     !.ready = row.cancel \/ row.attempts >= MaxAttempts,
     !.lease = "none", !.cancel = FALSE]

\* Mutant: recovery reads the rows without locking them.
Stale_Unlocked(j) == job[j].status = "running" /\ job[j].lease = "expired"

Stale(j) == job[j].status = "running" /\ job[j].lease = "expired" /\ Unlocked(j)

\* One statement recovers every stale row it can lock (limit 100 rows).
RecoverStale ==
  /\ \E j \in Jobs : Stale(j)
  /\ job' = [j \in Jobs |-> IF Stale(j) THEN Recovered(job[j]) ELSE job[j]]
  /\ UNCHANGED <<held, unit, wrote>>

-----------------------------------------------------------------------------
(* The holder of a claim.                                                   *)

BindIdentity(w, s) ==
  /\ OwnsUncancelled(w)
  /\ job[held[w].job].snapshot \in {NoSnapshot, s}
  /\ UpdateOwn(w, [job[held[w].job] EXCEPT !.snapshot = s])

\* Mutant: a status the check constraint does not know.
BlockForReview_Misspelt(w) ==
  /\ OwnsUncancelled(w)
  /\ UpdateOwn(w, [job[held[w].job] EXCEPT !.status = "blocked_review", !.lease = "none"])

BlockForReview(w) ==
  /\ OwnsUncancelled(w)
  /\ UpdateOwn(w, [job[held[w].job] EXCEPT !.status = "blocked-review", !.lease = "none"])

CancelOwn(w) ==
  UpdateOwn(w, [job[held[w].job] EXCEPT !.status = "cancelled", !.lease = "none",
                                        !.cancel = FALSE])

\* The workers finish a job as failed; the preparation coordinator finishes it
\* as succeeded when another process has already published what it wanted.
Finish(w, status) ==
  /\ OwnsUncancelled(w)
  /\ UpdateOwn(w, [job[held[w].job] EXCEPT !.status = status, !.lease = "none"])

\* Mutant: a failing worker does not look at cancel_requested_at.
Failed_IgnoresCancel(row, retryable) ==
  LET exhausted == row.attempts >= MaxAttempts \/ ~retryable
  IN  [row EXCEPT !.status = IF exhausted THEN "dead-letter" ELSE "retry-wait",
                  !.ready = exhausted, !.lease = "none", !.cancel = FALSE]

Failed(row, retryable) ==
  LET exhausted == row.attempts >= MaxAttempts \/ ~retryable
  IN  [row EXCEPT
         !.status = IF row.cancel THEN "cancelled"
                    ELSE IF exhausted THEN "dead-letter" ELSE "retry-wait",
         !.ready = row.cancel \/ exhausted,
         !.lease = "none", !.cancel = FALSE]

Fail(w, retryable) == UpdateOwn(w, Failed(job[held[w].job], retryable))

DeadLetterOwn(w) ==
  UpdateOwn(w, [job[held[w].job] EXCEPT !.status = "dead-letter", !.lease = "none"])

-----------------------------------------------------------------------------
(* Protected units: the claim's holder writes the index under the row lock. *)

OpenUnit(w) ==
  /\ OwnsRow(w)
  /\ Unlocked(held[w].job)
  /\ unit' = [unit EXCEPT ![w] = TRUE]
  /\ UNCHANGED <<job, held, wrote>>

\* Mutant: the lease is not looked at again after the operation.
CloseUnit_NoRecheck(w, row) ==
  /\ unit[w]
  /\ unit' = [unit EXCEPT ![w] = FALSE]
  /\ wrote' = [wrote EXCEPT ![held[w].job] = held[w].fence]
  /\ Put(held[w].job, row)
  /\ UNCHANGED held

\* The recheck after the operation; row is what beforeCommit leaves.
CloseUnit(w, row) ==
  /\ unit[w]
  /\ OwnsRow(w)
  /\ unit' = [unit EXCEPT ![w] = FALSE]
  /\ wrote' = [wrote EXCEPT ![held[w].job] = held[w].fence]
  /\ Put(held[w].job, row)
  /\ UNCHANGED held

CommitUnit(w) == CloseUnit(w, job[held[w].job])

\* beforeCommit of completeProjectRagPostgresIngest.
SucceedUnit(w) ==
  /\ OwnsUncancelled(w)
  /\ job[held[w].job].snapshot # NoSnapshot
  /\ CloseUnit(w, [job[held[w].job] EXCEPT !.status = "succeeded", !.lease = "none"])

\* beforeCommit of failProjectRagPostgresIngestPartial.
FailUnit(w) ==
  /\ OwnsRow(w)
  /\ job[held[w].job].snapshot # NoSnapshot
  /\ CloseUnit(w, [job[held[w].job] EXCEPT !.status = "failed", !.lease = "none"])

\* A check, the operation or the connection failed: nothing was written.
RollBackUnit(w) ==
  /\ unit[w]
  /\ unit' = [unit EXCEPT ![w] = FALSE]
  /\ UNCHANGED <<job, held, wrote>>

\* The process returns to its loop or dies; an open transaction rolls back.
Forget(w) ==
  /\ held[w] # NoClaim
  /\ held' = [held EXCEPT ![w] = NoClaim]
  /\ unit' = [unit EXCEPT ![w] = FALSE]
  /\ UNCHANGED <<job, wrote>>

-----------------------------------------------------------------------------
(* Operators.                                                               *)

RequestCancel(j) ==
  /\ job[j].status = "running"
  /\ job[j].lease \in LiveLease
  /\ UpdateRow(j, [job[j] EXCEPT !.cancel = TRUE])

Cancel(j) ==
  /\ job[j].status \in Waiting \cup {"blocked-review"}
  /\ UpdateRow(j, [job[j] EXCEPT !.status = "cancelled", !.lease = "none", !.cancel = FALSE])

\* Mutant: dead-lettered rows can be resumed too.
Resume_DeadLetter(j) ==
  /\ job[j].status \in {"blocked-review", "retry-wait", "dead-letter"}
  /\ UpdateRow(j, [job[j] EXCEPT !.status = "queued", !.ready = TRUE, !.cancel = FALSE])

Resume(j) ==
  /\ job[j].status \in {"blocked-review", "retry-wait"}
  /\ UpdateRow(j, [job[j] EXCEPT !.status = "queued", !.ready = TRUE, !.cancel = FALSE])

DeadLetter(j) ==
  /\ job[j].status \in Waiting \cup {"blocked-review"}
  /\ UpdateRow(j, [job[j] EXCEPT !.status = "dead-letter", !.lease = "none"])

-----------------------------------------------------------------------------
(* Time.                                                                    *)

\* The clock reaches the next point a guard can see; row locks do not stop it.
LeaseRuns(j) ==
  /\ job[j].lease \in LiveLease
  /\ Put(j, [job[j] EXCEPT !.lease = IF @ = "fresh" THEN "due" ELSE "expired"])
  /\ UNCHANGED <<held, unit, wrote>>

BecomesAvailable(j) ==
  /\ job[j].status \in Waiting
  /\ ~job[j].ready
  /\ Put(j, [job[j] EXCEPT !.ready = TRUE])
  /\ UNCHANGED <<held, unit, wrote>>

-----------------------------------------------------------------------------
Init ==
  /\ job = [j \in Jobs |-> AbsentRow]
  /\ held = [w \in Workers |-> NoClaim]
  /\ unit = [w \in Workers |-> FALSE]
  /\ wrote = [j \in Jobs |-> 0]

HolderStep(w) ==
  \/ \E j \in Jobs : ClaimOldest(w, j) \/ ClaimById(w, j)
  \/ Renew(w)
  \/ \E s \in Snapshots : BindIdentity(w, s)
  \/ BlockForReview(w)
  \/ CancelOwn(w)
  \/ \E status \in {"succeeded", "failed"} : Finish(w, status)
  \/ \E retryable \in BOOLEAN : Fail(w, retryable)
  \/ DeadLetterOwn(w)
  \/ OpenUnit(w)
  \/ CommitUnit(w)
  \/ SucceedUnit(w)
  \/ FailUnit(w)
  \/ RollBackUnit(w)
  \/ Forget(w)

OperatorStep(j) ==
  \/ \E k \in Keys, ready \in BOOLEAN : Enqueue(j, k, ready)
  \/ RequestCancel(j)
  \/ Cancel(j)
  \/ Resume(j)
  \/ DeadLetter(j)

ClockStep(j) == LeaseRuns(j) \/ BecomesAvailable(j)

Next ==
  \/ \E w \in Workers : HolderStep(w)
  \/ \E j \in Jobs : OperatorStep(j) \/ ClockStep(j)
  \/ RecoverStale

Spec == Init /\ [][Next]_jobVars

-----------------------------------------------------------------------------
(* Safety.                                                                  *)

\* The type invariant: the shape of the table and of what the processes hold.
TypeOK ==
  /\ job \in [Jobs -> JobRow]
  /\ held \in [Workers -> Claims]
  /\ unit \in [Workers -> BOOLEAN]
  /\ wrote \in [Jobs -> Nat]

\* Two processes never both pass the ownership check of one row, however often
\* it was reclaimed, recovered and resumed while they held on to old claims.
OneOwnerPerJob ==
  \A v, w \in Workers :
    OwnsRow(v) /\ OwnsRow(w) /\ held[v].job = held[w].job => v = w

\* While a protected unit is open, its process stays the one the row names: no
\* claim, recovery, cancellation or resumption slips between its check and its
\* commit, even when the lease runs out in between.
UnitKeepsItsJob ==
  \A w \in Workers :
    unit[w] => /\ job[held[w].job].status = "running"
               /\ job[held[w].job].fence = held[w].fence

\* A dedupe key names at most one active row: a row that left the active set
\* (and let the key be enqueued again) never comes back to it.
OneActiveJobPerKey ==
  \A i, j \in Jobs :
    job[i].status \in Active /\ job[j].status \in Active /\ job[i].key = job[j].key => i = j

\* The retry budget bounds what really ran: every claim, through any path, costs
\* one attempt and one fence, and a row parked for a retry has one left.
RetryBudget ==
  \A j \in Jobs :
    /\ job[j].attempts = job[j].fence
    /\ job[j].attempts <= MaxAttempts
    /\ job[j].status = "retry-wait" => job[j].attempts < MaxAttempts

\* Only a running row carries a lease or a pending cancellation: a row handed to
\* the queue or to review leaves nothing of its former holder behind.
LeaseOnlyWhileRunning ==
  \A j \in Jobs :
    /\ job[j].status = "running" <=> job[j].lease # "none"
    /\ job[j].cancel => job[j].status \notin Waiting \cup {"blocked-review"}

\* The strengthening of the invariants above that every step preserves.  Claims of
\* one row carry different fences, none from the future; an open unit belongs to
\* the claim its row names; no write is ahead of its row's fence.
ClaimsAreDistinct ==
  \A v, w \in Workers :
    held[v].job # NoJob /\ held[v].job = held[w].job /\ v # w => held[v].fence # held[w].fence

ClaimsArePast ==
  \A w \in Workers :
    held[w].job # NoJob => held[w].fence \in 1 .. job[held[w].job].fence

UnitsAreOwned ==
  \A w \in Workers :
    unit[w] => /\ held[w].job # NoJob
               /\ job[held[w].job].status = "running"
               /\ job[held[w].job].fence = held[w].fence

WritesArePast == \A j \in Jobs : wrote[j] <= job[j].fence

AbsentIsBlank == \A j \in Jobs : job[j].status = "absent" => job[j].fence = 0

JobsInv ==
  /\ TypeOK
  /\ RetryBudget
  /\ LeaseOnlyWhileRunning
  /\ AbsentIsBlank
  /\ OneActiveJobPerKey
  /\ ClaimsAreDistinct
  /\ ClaimsArePast
  /\ UnitsAreOwned
  /\ WritesArePast

\* A settled row is final: its status, its attempts and its index writes stay.
SettledIsFinal ==
  [][\A j \in Jobs : job[j].status \in Settled =>
       /\ job'[j].status = job[j].status
       /\ job'[j].fence = job[j].fence
       /\ wrote'[j] = wrote[j]]_jobVars

\* Once cancellation of a running row is requested, the row is never claimed
\* again, never waits for a retry or a review and never succeeds.
CancelSticks ==
  [][\A j \in Jobs : job[j].status = "running" /\ job[j].cancel =>
       /\ job'[j].fence = job[j].fence
       /\ job'[j].status \in {"running", "cancelled", "failed", "dead-letter"}
       /\ job'[j].status = "running" => job'[j].cancel]_jobVars

\* Protected writes reach a row in the order of its claims, and none arrives
\* from a claim that a later one has replaced.
WritesFollowFence ==
  [][\A j \in Jobs : wrote'[j] # wrote[j] =>
       /\ wrote'[j] > wrote[j]
       /\ wrote'[j] = job[j].fence
       /\ job[j].lease \in LiveLease]_jobVars
=============================================================================
