----------------------------- MODULE JobWorker -----------------------------
(***************************************************************************)
(* The processes that run durable jobs against the table of ProjectJobs:   *)
(*                                                                         *)
(*   - the job worker (scripts/project-rag/job-worker.ts): claims the      *)
(*     oldest candidate, renews its lease from a timer, runs the ingest    *)
(*     and settles the row;                                                *)
(*   - the preparation coordinator (scripts/project-rag/prepare.ts):       *)
(*     enqueues or joins one row, claims that row and no other, renews     *)
(*     only inside the ingest, and gives up at its deadline.               *)
(*                                                                         *)
(* An ingest is what the row sees of it: it binds the snapshot it claimed, *)
(* commits MaxWrites protected units, asserting its ownership in between,  *)
(* and closes with one finalizing unit; before its first write it may      *)
(* return without finalizing (the snapshot gate refused), and anywhere it  *)
(* may throw.  A process may crash while it holds a claim, and any of the  *)
(* statements that settle a row may fail: the code ignores that failure.   *)
(*                                                                         *)
(* Operators are free to act and never obliged to: no code under src/      *)
(* outside the tests calls the recovery, cancellation, resumption and      *)
(* dead-letter operations of the store.                                    *)
(***************************************************************************)
EXTENDS ProjectJobs

CONSTANTS
  Coordinators,  \* the processes that are preparation coordinators
  MaxWrites      \* bound: protected units one ingest commits before it finalizes

ASSUME WorkerAssumption == Coordinators \subseteq Workers /\ MaxWrites \in Nat

VARIABLES
  stage,   \* [Workers -> Stages]: where each process is
  lost,    \* [Workers -> BOOLEAN]: leaseLost
  todo,    \* [Workers -> 0..MaxWrites]: protected units still to commit
  target   \* [Coordinators -> row the coordinator enqueued or joined]

procVars == <<stage, lost, todo, target>>
workerVars == <<job, held, unit, wrote, stage, lost, todo, target>>

Stages ==
  {"idle", "waiting", "claimed", "asserted", "binding", "ingesting", "ready",
   "writing", "review", "refused", "cancelling", "threw", "leaving"}

Working == Stages \ {"idle", "waiting", "cancelling", "threw", "leaving"}

Row(w) == job[held[w].job]
Goto(w, s) == stage' = [stage EXCEPT ![w] = s]
Move(w, from, to) == stage[w] = from /\ Goto(w, to)

\* leaseLost, the ingest's progress and the joined row are locals of one round.
Clear(w) ==
  /\ lost' = [lost EXCEPT ![w] = FALSE]
  /\ todo' = [todo EXCEPT ![w] = 0]
  /\ target' = [c \in Coordinators |-> IF c = w THEN NoJob ELSE target[c]]

-----------------------------------------------------------------------------
(* Claiming.                                                                *)

Begin(w) ==
  /\ Goto(w, "claimed")
  /\ lost' = [lost EXCEPT ![w] = FALSE]
  /\ todo' = [todo EXCEPT ![w] = MaxWrites]
  /\ UNCHANGED target

ClaimNext(w) ==
  /\ w \notin Coordinators
  /\ stage[w] = "idle"
  /\ \E j \in Jobs : ClaimOldest(w, j)
  /\ Begin(w)

\* enqueueProjectRagJob returns a new row or the active one with the same key.
Prepare(w, k) ==
  /\ w \in Coordinators
  /\ Move(w, "idle", "waiting")
  /\ \E j \in Jobs :
       /\ target' = [target EXCEPT ![w] = j]
       /\ \/ Enqueue(j, k, TRUE)
          \/ job[j].status \in Active /\ job[j].key = k /\ UNCHANGED jobVars
  /\ UNCHANGED <<lost, todo>>

ClaimTarget(w) ==
  /\ stage[w] = "waiting"
  /\ ClaimById(w, target[w])
  /\ Begin(w)

\* The poll finds the row settled by another process, or the deadline passes.
StopWaiting(w) ==
  /\ Move(w, "waiting", "idle")
  /\ Clear(w)
  /\ UNCHANGED jobVars

-----------------------------------------------------------------------------
(* Ownership.                                                               *)

\* A process finds its claim gone; the statement waits for the row lock.
LosesClaim(w) == Unlocked(held[w].job) /\ ~OwnsRow(w) /\ UNCHANGED jobVars

\* assertOwnership renews the lease, and throws when the claim is gone or the
\* row's cancellation was requested.
Assert(w, from, to) ==
  /\ stage[w] = from
  /\ \/ /\ ~lost[w]
        /\ Renew(w)
        /\ Goto(w, IF ~Row(w).cancel THEN to
                   ELSE IF w \in Coordinators THEN "threw" ELSE "cancelling")
        /\ UNCHANGED lost
     \/ /\ (lost[w] /\ UNCHANGED jobVars) \/ LosesClaim(w)
        /\ Goto(w, "threw")
        /\ lost' = [lost EXCEPT ![w] = TRUE]
  /\ UNCHANGED <<todo, target>>

\* The worker's timer runs from the claim until the round is left, while the row
\* is being settled and after it too; a renewal that finds no row or fails marks
\* the lease lost.
Heartbeat(w) ==
  /\ w \notin Coordinators
  /\ held[w] # NoClaim
  /\ ~lost[w]
  /\ \/ Renew(w) /\ UNCHANGED lost
     \/ LosesClaim(w) /\ lost' = [lost EXCEPT ![w] = TRUE]
     \/ UNCHANGED jobVars /\ lost' = [lost EXCEPT ![w] = TRUE]
  /\ UNCHANGED <<stage, todo, target>>

-----------------------------------------------------------------------------
(* The run of a claimed job.                                                *)

\* The worker's checkpoint 'claimed'; a coordinator has none.
StartIngest(w) ==
  /\ stage[w] = "asserted"
  /\ Goto(w, IF w \in Coordinators \/ OwnsUncancelled(w) THEN "binding" ELSE "threw")
  /\ lost' = [lost EXCEPT ![w] = @ \/ (w \notin Coordinators /\ ~OwnsUncancelled(w))]
  /\ UNCHANGED <<jobVars, todo, target>>

\* Verification shows another process already published what was asked for.
AlreadyReady(w) ==
  /\ w \in Coordinators
  /\ stage[w] = "asserted"
  /\ \/ Finish(w, "succeeded") /\ Goto(w, "leaving")
     \/ Unlocked(held[w].job) /\ ~OwnsUncancelled(w) /\ UNCHANGED jobVars /\ Goto(w, "threw")
  /\ UNCHANGED <<lost, todo, target>>

\* The ingest prepared and claimed s for this attempt alone.
Bind(w, s) ==
  /\ stage[w] = "binding"
  /\ \A j \in Jobs : job[j].snapshot # s
  /\ \/ BindIdentity(w, s) /\ Goto(w, "ingesting")
     \/ /\ ~OwnsUncancelled(w) \/ Row(w).snapshot # NoSnapshot
        /\ Unlocked(held[w].job)
        /\ UNCHANGED jobVars
        /\ Goto(w, "threw")
  /\ UNCHANGED <<lost, todo, target>>

\* The gate asks for a review before the claim, or refuses the plan.
Refuse(w) ==
  /\ \/ Move(w, "binding", "review")
     \/ Move(w, "binding", "refused")
     \/ Move(w, "ingesting", "refused") /\ todo[w] = MaxWrites
  /\ UNCHANGED <<jobVars, lost, todo, target>>

\* The ingest asserts its ownership before its long steps, not before each write.
StartWrite(w) ==
  /\ stage[w] \in {"ingesting", "ready"}
  /\ Goto(w, "writing")
  /\ OpenUnit(w)
  /\ UNCHANGED <<lost, todo, target>>

CommitWrite(w) ==
  /\ todo[w] > 0
  /\ Move(w, "writing", "ingesting")
  /\ CommitUnit(w)
  /\ todo' = [todo EXCEPT ![w] = @ - 1]
  /\ UNCHANGED <<lost, target>>

\* The finalizer: publication and job outcome in one unit.  When the answer to its
\* commit is lost the ingest throws, although the row is settled.
Finalize(w) ==
  /\ todo[w] = 0
  /\ Move(w, "writing", "leaving") \/ Move(w, "writing", "threw")
  /\ SucceedUnit(w) \/ FailUnit(w)
  /\ UNCHANGED <<lost, todo, target>>

\* A provider, the database, a deadline or a failed check; an open unit rolls back.
Throw(w) ==
  /\ stage[w] \in Working
  /\ IF unit[w] THEN RollBackUnit(w) ELSE UNCHANGED jobVars
  /\ Goto(w, "threw")
  /\ UNCHANGED <<lost, todo, target>>

-----------------------------------------------------------------------------
(* Settling the row.                                                        *)

\* Block and finish tell the worker that the row was gone; the coordinator
\* does not look.
SettleRefused(w) ==
  /\ \/ stage[w] = "review" /\ BlockForReview(w) /\ Goto(w, "leaving")
     \/ stage[w] = "refused" /\ Finish(w, "failed") /\ Goto(w, "leaving")
     \/ /\ stage[w] \in {"review", "refused"}
        /\ Unlocked(held[w].job)
        /\ ~OwnsUncancelled(w)
        /\ UNCHANGED jobVars
        /\ Goto(w, IF w \in Coordinators THEN "leaving" ELSE "threw")
  /\ UNCHANGED <<lost, todo, target>>

\* Mutant: the catch block updates the row by id, without the fence.
SettleThrown_NoFence(w) ==
  /\ \/ Move(w, "threw", "leaving") /\ UpdateRow(held[w].job, Failed(Row(w), TRUE))
     \/ Move(w, "cancelling", "leaving") /\ CancelOwn(w)
     \/ /\ stage[w] \in {"threw", "cancelling"}
        /\ Goto(w, "leaving")
        /\ UNCHANGED jobVars
  /\ UNCHANGED <<lost, todo, target>>

\* The catch block: without effect when the claim is gone or the statement fails.
SettleThrown(w) ==
  /\ \/ Move(w, "threw", "leaving") /\ Fail(w, TRUE)
     \/ Move(w, "cancelling", "leaving") /\ CancelOwn(w)
     \/ /\ stage[w] \in {"threw", "cancelling"}
        /\ Goto(w, "leaving")
        /\ UNCHANGED jobVars
  /\ UNCHANGED <<lost, todo, target>>

\* Mutant: the process starts its next round with the old claim in hand.
Leave_KeepsClaim(w) ==
  /\ Move(w, "leaving", "idle")
  /\ Clear(w)
  /\ UNCHANGED jobVars

Leave(w) ==
  /\ Move(w, "leaving", "idle")
  /\ Forget(w)
  /\ Clear(w)

\* The process dies and is started again; it remembers nothing.
Crash(w) ==
  /\ Forget(w)
  /\ Goto(w, "idle")
  /\ Clear(w)

-----------------------------------------------------------------------------
WorkerInit ==
  /\ Init
  /\ stage = [w \in Workers |-> "idle"]
  /\ lost = [w \in Workers |-> FALSE]
  /\ todo = [w \in Workers |-> 0]
  /\ target = [w \in Coordinators |-> NoJob]

\* What the code of a process goes on to do by itself.
ProcessStep(w) ==
  \/ ClaimNext(w)
  \/ ClaimTarget(w)
  \/ StopWaiting(w)
  \/ Assert(w, "claimed", "asserted")
  \/ StartIngest(w)
  \/ AlreadyReady(w)
  \/ \E s \in Snapshots : Bind(w, s)
  \/ Refuse(w)
  \/ Assert(w, "ingesting", "ready")
  \/ StartWrite(w)
  \/ CommitWrite(w)
  \/ Finalize(w)
  \/ Throw(w)
  \/ SettleRefused(w)
  \/ SettleThrown(w)
  \/ Leave(w)

\* Nobody holds the current claim of j any more.
Abandoned(j) == \A w \in Workers : held[w].job = j => held[w].fence # job[j].fence

Clock(j) == ClockStep(j) /\ UNCHANGED procVars
AbandonedLeaseRuns(j) == Abandoned(j) /\ LeaseRuns(j) /\ UNCHANGED procVars
DelayPasses(j) == BecomesAvailable(j) /\ UNCHANGED procVars
Operator(j) == OperatorStep(j) /\ UNCHANGED procVars
Recover == RecoverStale /\ UNCHANGED procVars

WorkerNext ==
  \/ \E w \in Workers :
       \/ ProcessStep(w)
       \/ \E k \in Keys : Prepare(w, k)
       \/ Heartbeat(w)
       \/ Crash(w)
  \/ \E j \in Jobs : Operator(j) \/ Clock(j)
  \/ Recover

\* Processes run, workers poll, and time passes for rows nobody renews.
Fairness ==
  /\ \A w \in Workers : WF_workerVars(ProcessStep(w))
  /\ \A j \in Jobs : WF_workerVars(AbandonedLeaseRuns(j)) /\ WF_workerVars(DelayPasses(j))

WorkerSpec == WorkerInit /\ [][WorkerNext]_workerVars /\ Fairness

-----------------------------------------------------------------------------
\* The type invariant: the shape of the process state, and what holding a claim,
\* having a unit open and being at a stage mean for one another.
WorkerTypeOK ==
  /\ TypeOK
  /\ stage \in [Workers -> Stages]
  /\ lost \in [Workers -> BOOLEAN]
  /\ todo \in [Workers -> 0 .. MaxWrites]
  /\ target \in [Coordinators -> Jobs \cup {NoJob}]
  /\ \A w \in Workers :
       /\ stage[w] \in {"idle", "waiting"} <=> held[w] = NoClaim
       /\ unit[w] <=> stage[w] = "writing"
       /\ stage[w] = "waiting" => w \in Coordinators /\ target[w] # NoJob

\* The processes use the table only through the operations of ProjectJobs, so
\* what holds of every client of the table holds of them: a stale process that
\* still settles, renews or writes changes nothing.
RefinesJobTable == Spec

\* A row that waits with attempts left does not wait for ever: some worker comes
\* round to it, whatever crashes or throws in the meantime.
WaitingRowsMove ==
  \A j \in Jobs :
    (job[j].status \in Waiting /\ job[j].attempts < MaxAttempts)
      ~> ~(job[j].status \in Waiting /\ job[j].attempts < MaxAttempts)

\* A claim with an attempt to spare ends even when its holder crashed or could
\* not settle the row: the row is settled, blocked, or claimed under a new fence,
\* unless somebody asked for its cancellation first.
ClaimsEnd ==
  \A j \in Jobs : \A n \in 1 .. MaxAttempts - 1 :
    (job[j].status = "running" /\ job[j].attempts = n)
      ~> ~(job[j].status = "running" /\ job[j].attempts = n /\ ~job[j].cancel)
=============================================================================
