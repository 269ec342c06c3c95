-------------------------- MODULE JobWorkerProofs --------------------------
(***************************************************************************)
(* The workers and the preparation coordinators are clients of the job     *)
(* table: every step of JobWorker is a step of ProjectJobs or leaves the   *)
(* table alone.  What ProjectJobsProofs proves of the table therefore      *)
(* holds of the processes of the code, however many there are.             *)
(* WorkersTyped adds what the table does not see: that the stage of a      *)
(* process and its claim never come apart (Matched).                       *)
(***************************************************************************)
EXTENDS JobWorker, ProjectJobsProofs

\* A waiting process is a coordinator and has a row to wait for: all that the
\* refinement needs to know of the stages.
WaitersOK ==
  /\ stage \in [Workers -> Stages]
  /\ target \in [Coordinators -> Jobs \cup {NoJob}]
  /\ \A w \in Workers : stage[w] = "waiting" => w \in Coordinators /\ target[w] \in Jobs

LEMMA WaitersInit == WorkerInit => WaitersOK
  BY DEF WorkerInit, WaitersOK, Stages

\* Where each action can leave its process.
LEMMA StagesMove ==
  ASSUME NEW w \in Workers, ProcessStep(w)
  PROVE  /\ UNCHANGED target \/ Clear(w)
         /\ \E s \in Stages \ {"waiting"} : stage' = [stage EXCEPT ![w] = s]
<1> USE DEF Goto, Move, Begin, Stages
<1>1. CASE ClaimNext(w) \/ ClaimTarget(w) \/ StopWaiting(w)
  BY <1>1 DEF ClaimNext, ClaimTarget, StopWaiting
<1>2. CASE Assert(w, "claimed", "asserted") \/ Assert(w, "ingesting", "ready")
  BY <1>2 DEF Assert
<1>3. CASE StartIngest(w) \/ AlreadyReady(w) \/ \E s \in Snapshots : Bind(w, s)
  BY <1>3 DEF StartIngest, AlreadyReady, Bind
<1>4. CASE Refuse(w) \/ StartWrite(w) \/ CommitWrite(w) \/ Finalize(w) \/ Throw(w)
  BY <1>4 DEF Refuse, StartWrite, CommitWrite, Finalize, Throw
<1>5. CASE SettleRefused(w) \/ SettleThrown(w) \/ Leave(w)
  BY <1>5 DEF SettleRefused, SettleThrown, Leave
<1> QED
  BY <1>1, <1>2, <1>3, <1>4, <1>5 DEF ProcessStep

LEMMA WaitersStep == WaitersOK /\ [WorkerNext]_workerVars => WaitersOK'
<1> SUFFICES ASSUME WaitersOK, [WorkerNext]_workerVars PROVE WaitersOK'
  OBVIOUS
<1> USE DEF WaitersOK
<1>1. CASE UNCHANGED <<stage, target>>
  BY <1>1
<1>2. ASSUME NEW w \in Workers, ProcessStep(w) PROVE WaitersOK'
  BY <1>2, StagesMove DEF Clear
<1>3. ASSUME NEW w \in Workers, NEW k \in Keys, Prepare(w, k) PROVE WaitersOK'
  BY <1>3 DEF Prepare, Move, Goto, Stages
<1>4. ASSUME NEW w \in Workers, Crash(w) PROVE WaitersOK'
  BY <1>4 DEF Crash, Clear, Goto, Stages
<1>5. ASSUME NEW w \in Workers, Heartbeat(w) PROVE UNCHANGED <<stage, target>>
  BY <1>5 DEF Heartbeat
<1>6. ASSUME NEW j \in Jobs, Operator(j) \/ Clock(j) PROVE UNCHANGED <<stage, target>>
  BY <1>6 DEF Operator, Clock, procVars
<1>7. ASSUME Recover PROVE UNCHANGED <<stage, target>>
  BY <1>7 DEF Recover, procVars
<1>8. CASE UNCHANGED workerVars
  BY <1>1, <1>8 DEF workerVars
<1> QED
  BY <1>1, <1>2, <1>3, <1>4, <1>5, <1>6, <1>7, <1>8 DEF WorkerNext

-----------------------------------------------------------------------------
\* What a process does by itself is an operation of the table by its own hand.
LEMMA ProcessStepsAreTableSteps ==
  ASSUME WaitersOK, NEW w \in Workers, ProcessStep(w)
  PROVE  HolderStep(w) \/ UNCHANGED jobVars
<1>1. CASE ClaimNext(w)
  BY <1>1 DEF ClaimNext, HolderStep
<1>2. CASE ClaimTarget(w)
  BY <1>2 DEF ClaimTarget, WaitersOK, HolderStep
<1>3. CASE StopWaiting(w) \/ StartIngest(w) \/ Refuse(w)
  BY <1>3 DEF StopWaiting, StartIngest, Refuse
<1>4. CASE Assert(w, "claimed", "asserted") \/ Assert(w, "ingesting", "ready")
  BY <1>4 DEF Assert, LosesClaim, HolderStep
<1>5. CASE AlreadyReady(w)
  BY <1>5 DEF AlreadyReady, HolderStep
<1>6. CASE \E s \in Snapshots : Bind(w, s)
  BY <1>6 DEF Bind, HolderStep
<1>7. CASE StartWrite(w)
  BY <1>7 DEF StartWrite, HolderStep
<1>8. CASE CommitWrite(w)
  BY <1>8 DEF CommitWrite, HolderStep
<1>9. CASE Finalize(w)
  BY <1>9 DEF Finalize, HolderStep
<1>10. CASE Throw(w)
  BY <1>10 DEF Throw, HolderStep
<1>11. CASE SettleRefused(w)
  BY <1>11 DEF SettleRefused, HolderStep
<1>12. CASE SettleThrown(w)
  BY <1>12 DEF SettleThrown, HolderStep
<1>13. CASE Leave(w)
  BY <1>13 DEF Leave, HolderStep
<1> QED
  BY <1>1, <1>2, <1>3, <1>4, <1>5, <1>6, <1>7, <1>8, <1>9, <1>10, <1>11, <1>12, <1>13
  DEF ProcessStep

LEMMA WorkerStepsAreTableSteps == WaitersOK /\ [WorkerNext]_workerVars => [Next]_jobVars
<1> SUFFICES ASSUME WaitersOK, [WorkerNext]_workerVars PROVE Next \/ UNCHANGED jobVars
  OBVIOUS
<1>1. ASSUME NEW w \in Workers, ProcessStep(w) PROVE Next \/ UNCHANGED jobVars
  BY <1>1, ProcessStepsAreTableSteps DEF Next
<1>2. ASSUME NEW w \in Workers, NEW k \in Keys, Prepare(w, k) PROVE Next \/ UNCHANGED jobVars
  BY <1>2 DEF Prepare, Next, OperatorStep
<1>3. ASSUME NEW w \in Workers, Heartbeat(w) PROVE Next \/ UNCHANGED jobVars
  BY <1>3 DEF Heartbeat, LosesClaim, Next, HolderStep
<1>4. ASSUME NEW w \in Workers, Crash(w) PROVE Next
  BY <1>4 DEF Crash, Next, HolderStep
<1>5. ASSUME NEW j \in Jobs, Operator(j) \/ Clock(j) PROVE Next
  BY <1>5 DEF Operator, Clock, Next
<1>6. ASSUME Recover PROVE Next
  BY <1>6 DEF Recover, Next
<1>7. CASE UNCHANGED workerVars
  BY <1>7 DEF workerVars, jobVars
<1> QED
  BY <1>1, <1>2, <1>3, <1>4, <1>5, <1>6, <1>7 DEF WorkerNext

\* The workers implement the job table.
THEOREM WorkersRefineJobTable == WorkerSpec => RefinesJobTable
<1>1. WorkerInit => Init
  BY DEF WorkerInit
<1> QED
  BY <1>1, WaitersInit, WaitersStep, WorkerStepsAreTableSteps, PTL
  DEF WorkerSpec, RefinesJobTable, Spec

\* Hence no two processes of the code, workers or coordinators, live or stale,
\* both pass the ownership check of one row.
THEOREM WorkersExclude == WorkerSpec => []OneOwnerPerJob
  BY WorkersRefineJobTable, FencingExcludes DEF RefinesJobTable

\* And whatever they retry, the attempts of every row stay within its budget.
THEOREM WorkersKeepBudget == WorkerSpec => []RetryBudget
  BY WorkersRefineJobTable, BudgetHolds DEF RefinesJobTable

-----------------------------------------------------------------------------
(* Where a process is tells what it holds.  A process between two rounds    *)
(* holds no claim, and one anywhere else holds one; a unit is open exactly  *)
(* while the process writes.  The claim and the stage change in different   *)
(* modules, so this is what could come apart: a crash, a thrown error or a  *)
(* settled row that left one of the two behind.                             *)

\* Where a process is agrees with what it holds.
Matched(w) ==
  /\ stage[w] \in {"idle", "waiting"} <=> held[w] = NoClaim
  /\ unit[w] <=> stage[w] = "writing"

\* What a step of the process w leaves: the others as they were, w consistent.
WorkerMoves(w) ==
  /\ lost' \in [Workers -> BOOLEAN]
  /\ todo' \in [Workers -> 0 .. MaxWrites]
  /\ \A v \in Workers \ {w} : stage'[v] = stage[v] /\ held'[v] = held[v] /\ unit'[v] = unit[v]
  /\ Matched(w)'

\* Inside a claim the stage moves and neither the claim nor the unit does.
LEMMA StaysInside ==
  ASSUME WorkerTypeOK, NEW w \in Workers, NEW to \in Stages \ {"idle", "waiting", "writing"},
         stage[w] \notin {"idle", "waiting", "writing"}, Goto(w, to), UNCHANGED <<held, unit>>
  PROVE  /\ Matched(w)'
         /\ \A v \in Workers \ {w} : stage'[v] = stage[v] /\ held'[v] = held[v] /\ unit'[v] = unit[v]
BY DEF WorkerTypeOK, Goto, Matched

LEMMA ClaimMoves ==
  ASSUME WorkerTypeOK, NEW w \in Workers, ClaimNext(w) \/ ClaimTarget(w)
  PROVE  WorkerMoves(w)
<1>1. stage[w] \in {"idle", "waiting"} /\ Begin(w) /\ \E j \in Jobs : TakeOver(w, j)
  BY DEF ClaimNext, ClaimTarget, ClaimOldest, ClaimById, WorkerTypeOK
<1>2. PICK j \in Jobs : TakeOver(w, j) BY <1>1
<1>3. j # NoJob BY DEF Jobs, NoJob
<1>4. /\ held' = [held EXCEPT ![w] = [job |-> j, fence |-> job[j].fence + 1]]
      /\ UNCHANGED unit
  BY <1>2 DEF TakeOver
<1>5. MaxWrites \in 0 .. MaxWrites BY WorkerAssumption
<1> QED BY <1>1, <1>3, <1>4, <1>5 DEF WorkerTypeOK, TypeOK, Begin, Goto, WorkerMoves, Matched, NoClaim

LEMMA WaitMoves ==
  ASSUME WorkerTypeOK, NEW w \in Workers, StopWaiting(w) \/ \E k \in Keys : Prepare(w, k)
  PROVE  WorkerMoves(w)
<1>0. 0 \in 0 .. MaxWrites BY WorkerAssumption
<1>1. UNCHANGED <<held, unit>> /\ (UNCHANGED <<lost, todo>> \/ Clear(w))
  BY DEF StopWaiting, Prepare, jobVars, Enqueue
<1>2. /\ stage[w] \in {"idle", "waiting"}
      /\ \E to \in {"idle", "waiting"} : stage' = [stage EXCEPT ![w] = to]
  BY DEF StopWaiting, Prepare, Move, Goto
<1>3. lost' \in [Workers -> BOOLEAN] /\ todo' \in [Workers -> 0 .. MaxWrites]
  BY <1>0, <1>1 DEF WorkerTypeOK, Clear
<1> QED BY <1>1, <1>2, <1>3 DEF WorkerTypeOK, WorkerMoves, Matched

LEMMA AssertMoves ==
  ASSUME WorkerTypeOK, NEW w \in Workers,
         Assert(w, "claimed", "asserted") \/ Assert(w, "ingesting", "ready")
  PROVE  WorkerMoves(w)
<1>1. UNCHANGED <<held, unit, todo>>
  BY DEF Assert, Renew, UpdateOwn, LosesClaim, jobVars
<1>2. /\ stage[w] \in {"claimed", "ingesting"}
      /\ \E to \in {"asserted", "ready", "threw", "cancelling"} : Goto(w, to)
  BY DEF Assert
<1>3. UNCHANGED lost \/ lost' = [lost EXCEPT ![w] = TRUE] BY DEF Assert
<1>4. lost' \in [Workers -> BOOLEAN] BY <1>3 DEF WorkerTypeOK
<1>5. todo' \in [Workers -> 0 .. MaxWrites] BY <1>1 DEF WorkerTypeOK
<1> QED BY <1>1, <1>2, <1>4, <1>5, StaysInside DEF WorkerMoves, Stages

\* The steps of a claimed job that open and close nothing.
LEMMA RunMoves ==
  ASSUME WorkerTypeOK, NEW w \in Workers,
         \/ StartIngest(w) \/ AlreadyReady(w) \/ Refuse(w)
         \/ \E s \in Snapshots : Bind(w, s)
         \/ SettleRefused(w) \/ SettleThrown(w)
  PROVE  WorkerMoves(w)
<1>1. UNCHANGED <<held, unit, todo>>
  BY DEF StartIngest, AlreadyReady, Refuse, Bind, SettleRefused, SettleThrown, jobVars,
         Finish, BindIdentity, BlockForReview, Fail, CancelOwn, UpdateOwn
<1>2. /\ stage[w] \in {"asserted", "binding", "ingesting", "review", "refused", "threw", "cancelling"}
      /\ \E to \in {"binding", "threw", "leaving", "ingesting", "review", "refused"} : Goto(w, to)
  BY DEF StartIngest, AlreadyReady, Refuse, Bind, SettleRefused, SettleThrown, Move, Goto
<1>3. lost' \in [Workers -> BOOLEAN]
  <2>1. CASE StartIngest(w)
    <3> DEFINE b == lost[w] \/ (w \notin Coordinators /\ ~OwnsUncancelled(w))
    <3>1. lost' = [lost EXCEPT ![w] = b] BY <2>1 DEF StartIngest
    <3>2. b \in BOOLEAN OBVIOUS
    <3> HIDE DEF b
    <3> QED BY <3>1, <3>2 DEF WorkerTypeOK
  <2>2. CASE ~StartIngest(w)
    BY <2>2 DEF AlreadyReady, Refuse, Bind, SettleRefused, SettleThrown, WorkerTypeOK
  <2> QED BY <2>1, <2>2
<1>4. todo' \in [Workers -> 0 .. MaxWrites] BY <1>1 DEF WorkerTypeOK
<1> QED BY <1>1, <1>2, <1>3, <1>4, StaysInside DEF WorkerMoves, Stages

\* The steps that open or close a unit.
LEMMA UnitMoves ==
  ASSUME WorkerTypeOK, NEW w \in Workers,
         StartWrite(w) \/ CommitWrite(w) \/ Finalize(w) \/ Throw(w)
  PROVE  WorkerMoves(w)
<1>1. UNCHANGED <<held, lost>>
  BY DEF StartWrite, CommitWrite, Finalize, Throw, OpenUnit, CommitUnit, SucceedUnit, FailUnit,
         CloseUnit, RollBackUnit, jobVars
<1>2. lost' \in [Workers -> BOOLEAN] BY <1>1 DEF WorkerTypeOK
<1>3. todo' \in [Workers -> 0 .. MaxWrites]
  <2>1. CASE CommitWrite(w)
    <3>1. todo[w] \in 0 .. MaxWrites /\ todo[w] > 0 BY <2>1 DEF WorkerTypeOK, CommitWrite
    <3>2. todo[w] - 1 \in 0 .. MaxWrites BY <3>1, WorkerAssumption
    <3> QED BY <2>1, <3>2 DEF WorkerTypeOK, CommitWrite
  <2>2. CASE ~CommitWrite(w)
    BY <2>2 DEF StartWrite, Finalize, Throw, WorkerTypeOK
  <2> QED BY <2>1, <2>2
<1>4. stage[w] \notin {"idle", "waiting"}
  BY DEF StartWrite, CommitWrite, Finalize, Throw, Move, Working
<1>5. \/ /\ stage' = [stage EXCEPT ![w] = "writing"]
         /\ unit' = [unit EXCEPT ![w] = TRUE]
      \/ /\ \E to \in {"ingesting", "leaving", "threw"} : stage' = [stage EXCEPT ![w] = to]
         /\ unit' = [unit EXCEPT ![w] = FALSE]
      \/ /\ stage' = [stage EXCEPT ![w] = "threw"]
         /\ ~unit[w] /\ UNCHANGED unit
  BY DEF StartWrite, CommitWrite, Finalize, Throw, OpenUnit, CommitUnit, SucceedUnit, FailUnit,
         CloseUnit, RollBackUnit, jobVars, Move, Goto
<1> QED BY <1>1, <1>2, <1>3, <1>4, <1>5 DEF WorkerTypeOK, TypeOK, WorkerMoves, Matched

\* The process forgets its claim where it returns to its loop and where it dies.
LEMMA LeaveMoves ==
  ASSUME WorkerTypeOK, NEW w \in Workers, Leave(w) \/ Crash(w)
  PROVE  WorkerMoves(w)
<1>1. /\ held' = [held EXCEPT ![w] = NoClaim]
      /\ unit' = [unit EXCEPT ![w] = FALSE]
      /\ stage' = [stage EXCEPT ![w] = "idle"]
      /\ Clear(w)
  BY DEF Leave, Crash, Forget, Move, Goto
<1>2. 0 \in 0 .. MaxWrites BY WorkerAssumption
<1>3. lost' \in [Workers -> BOOLEAN] /\ todo' \in [Workers -> 0 .. MaxWrites]
  BY <1>1, <1>2 DEF WorkerTypeOK, Clear
<1> QED BY <1>1, <1>3 DEF WorkerTypeOK, TypeOK, WorkerMoves, Matched

LEMMA HeartbeatMoves ==
  ASSUME WorkerTypeOK, NEW w \in Workers, Heartbeat(w)
  PROVE  WorkerMoves(w)
<1>1. UNCHANGED <<held, unit, stage, todo>>
  BY DEF Heartbeat, Renew, UpdateOwn, LosesClaim, jobVars
<1>2. UNCHANGED lost \/ lost' = [lost EXCEPT ![w] = TRUE] BY DEF Heartbeat
<1> QED BY <1>1, <1>2 DEF WorkerTypeOK, WorkerMoves, Matched

LEMMA EveryMove ==
  ASSUME WorkerTypeOK, NEW w \in Workers,
         ProcessStep(w) \/ (\E k \in Keys : Prepare(w, k)) \/ Heartbeat(w) \/ Crash(w)
  PROVE  WorkerMoves(w)
BY ClaimMoves, WaitMoves, AssertMoves, RunMoves, UnitMoves, LeaveMoves, HeartbeatMoves
   DEF ProcessStep

LEMMA WorkerTypeInit == WorkerInit /\ TypeOK => WorkerTypeOK
<1>2. 0 \in 0 .. MaxWrites BY WorkerAssumption
<1> QED BY <1>2 DEF WorkerInit, Init, WorkerTypeOK, Stages

LEMMA WorkerTypeStep ==
  WorkerTypeOK /\ WaitersOK' /\ TypeOK' /\ [WorkerNext]_workerVars => WorkerTypeOK'
<1> SUFFICES ASSUME WorkerTypeOK, WaitersOK', TypeOK', [WorkerNext]_workerVars
             PROVE  WorkerTypeOK'
  OBVIOUS
<1>1. ASSUME NEW w \in Workers, WorkerMoves(w) PROVE WorkerTypeOK'
  <2>1. \A v \in Workers : Matched(v)' BY <1>1 DEF WorkerTypeOK, WorkerMoves, Matched
  <2>2. \A v \in Workers : target'[v] \in Jobs => target'[v] # NoJob BY DEF Jobs, NoJob
  <2> QED BY <1>1, <2>1, <2>2 DEF WorkerTypeOK, WorkerMoves, Matched, WaitersOK
<1>2. ASSUME UNCHANGED <<held, unit, stage, lost, todo, target>> PROVE WorkerTypeOK'
  BY <1>2 DEF WorkerTypeOK
<1>3. ASSUME NEW j \in Jobs, Operator(j) \/ Clock(j)
      PROVE  UNCHANGED <<held, unit, stage, lost, todo, target>>
  BY <1>3 DEF Operator, Clock, procVars, OperatorStep, ClockStep, Enqueue, RequestCancel, Cancel,
     Resume, DeadLetter, UpdateRow, LeaseRuns, BecomesAvailable
<1>4. ASSUME Recover PROVE UNCHANGED <<held, unit, stage, lost, todo, target>>
  BY <1>4 DEF Recover, RecoverStale, procVars
<1>5. CASE UNCHANGED workerVars BY <1>2, <1>5 DEF workerVars
<1> QED BY <1>1, <1>2, <1>3, <1>4, <1>5, EveryMove DEF WorkerNext

\* Whatever crashes, throws or loses its claim, a process's stage tells what it
\* holds: no claim between two rounds, an open unit only while it writes.
THEOREM WorkersTyped == WorkerSpec => []WorkerTypeOK
<1>1. WorkerSpec => []TypeOK BY WorkersRefineJobTable, TypeCorrect DEF RefinesJobTable
<1>2. WorkerSpec => []WaitersOK BY WaitersInit, WaitersStep, PTL DEF WorkerSpec
<1> QED BY <1>1, <1>2, WorkerTypeInit, WorkerTypeStep, PTL DEF WorkerSpec
=============================================================================
