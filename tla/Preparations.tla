---------------------------- MODULE Preparations ----------------------------
(***************************************************************************)
(* Preparing a project (scripts/project-rag/prepare.ts): a preparation per *)
(* server process, shared by the calls that process serves meanwhile; its  *)
(* batches of ingest work, coordinated through a durable job row; and the  *)
(* verification that decides the answer.  The project is registered, and   *)
(* every preparation has the same dedupe key.                              *)
(*                                                                         *)
(* The job row, the snapshot gate and the ingest are here what this loop   *)
(* sees of them; ProjectJobs, GatedIngest and IndexVersions have their     *)
(* detail.  A lease outlives the deadline of the call that took it, so it  *)
(* runs out only under a holder that has gone.                             *)
(***************************************************************************)
EXTENDS Naturals, FiniteSets

CONSTANTS
    Processes,
    NoProcess,
    Files,
    MaxFiles,      \* operations of one batch
    MaxBatches,    \* batches of one preparation
    MaxAttempts,   \* claims of one job row
    Reviewed,      \* the trees whose plan deletes without evidence
    MaxTree,       \* bound: the tree is edited MaxTree - 1 times
    MaxFailures    \* bound: crashes, errors, exceeded deadlines, failing files

ASSUME PreparationsAssumption ==
    /\ NoProcess \notin Processes
    /\ IsFiniteSet(Files)
    /\ MaxFiles \in Nat \ {0} /\ MaxBatches \in Nat \ {0} /\ MaxAttempts \in Nat \ {0}
    /\ MaxTree \in Nat \ {0} /\ MaxFailures \in Nat

VARIABLES
    tree,      \* the identity of the work tree: no identity comes back
    text,      \* for each file, the tree that brought its present text
    stale,     \* the files whose present text the index does not have
    served,    \* the identity the serving build was published with, 0 for none
    gate,      \* the process whose ingest has claimed the project's snapshot
    job,       \* the row that has the project's dedupe key
    prep,      \* activePreparations: the preparation of each process
    seen,      \* history: the index has had the whole tree during the preparation
    failures   \* what has failed so far

world == <<tree, text>>
index == <<stale, served, gate>>
vars == <<tree, text, stale, served, gate, job, prep, seen, failures>>

Trees == 1 .. MaxTree

\* due: the row is available, or the lease of its running attempt has run out.
\* bound: it names the snapshot of an attempt.
JobRows == [status : {"none", "queued", "retry-wait", "running", "blocked-review"},
            attempts : 0 .. MaxAttempts, due : BOOLEAN, bound : BOOLEAN]

Stages == {"idle", "verifying", "comparing", "batch", "asking", "polling",
           "rechecking", "recomparing", "scanning", "claimed", "writing", "finishing"}

\* read is the served identity a verification has read, or the one an ingest resolved
\* for its publication; scanned the tree of its first scan; result what the last batch
\* brought, left the operations it left over and last those left before it, ended
\* how the row waited for ended.
Preps ==
    [stage : Stages, batch : 0 .. MaxBatches, read : Trees \cup {0},
     result : {"none", "completed", "partial", "gate", "review"},
     ended : {"no", "succeeded", "failed"},
     scanned : Trees \cup {0}, todo : SUBSET Files, errors : BOOLEAN, gained : BOOLEAN,
     left : 0 .. Cardinality(Files), last : 0 .. Cardinality(Files) + 1]

NoJob == [status |-> "none", attempts |-> 0, due |-> FALSE, bound |-> FALSE]
Fresh == [status |-> "queued", attempts |-> 0, due |-> TRUE, bound |-> FALSE]
ForReview == [status |-> "blocked-review", attempts |-> 0, due |-> FALSE, bound |-> FALSE]

Idle == [stage |-> "idle", batch |-> 0, read |-> 0, result |-> "none", ended |-> "no",
         scanned |-> 0, todo |-> {}, errors |-> FALSE, gained |-> FALSE, left |-> 0,
         last |-> Cardinality(Files) + 1]

At(p, s) == prep[p].stage = s
Goes(p, s) == prep' = [prep EXCEPT ![p].stage = s]

Ingesting(p) == prep[p].stage \in {"claimed", "writing", "finishing"}
\* The process runs the claimed attempt of the row.
Holding(p) == prep[p].stage \in {"rechecking", "recomparing", "scanning"} \/ Ingesting(p)

\* What a verification promises: the serving build has the text of every file.
Covered == served = tree /\ stale = {}

Init ==
    /\ tree = 1 /\ text = [f \in Files |-> 1]
    /\ stale = Files /\ served = 0 /\ gate = NoProcess
    /\ job = NoJob
    /\ prep = [p \in Processes |-> Idle]
    /\ seen = [p \in Processes |-> FALSE]
    /\ failures = 0

-----------------------------------------------------------------------------
(* The preparation of a process, its verification and its answer.          *)

Begin(p) ==
    /\ At(p, "idle")
    /\ Goes(p, "verifying")
    /\ seen' = [seen EXCEPT ![p] = Covered]
    /\ UNCHANGED <<world, index, job, failures>>

\* The promise settles: the entry is removed and everyone who waited is answered.
Answer(p) ==
    /\ prep' = [prep EXCEPT ![p] = Idle]
    /\ seen' = [seen EXCEPT ![p] = FALSE]

\* First what is served, then what the tree is.
ReadServing(p) ==
    /\ At(p, "verifying") \/ At(p, "rechecking")
    /\ prep' = [prep EXCEPT ![p].stage = IF @ = "verifying" THEN "comparing" ELSE "recomparing",
                            ![p].read = served]
    /\ UNCHANGED <<world, index, job, seen, failures>>

\* Mutant: an ingest that completed is taken for a covered tree.
Verified_ByIngest(p) == prep[p].result = "completed" \/ prep[p].read = tree

Verified(p) == prep[p].read = tree

AnswerReady(p) ==
    /\ At(p, "comparing") /\ Verified(p)
    /\ Answer(p)
    /\ UNCHANGED <<world, index, job, failures>>

NoProgress(p) == prep[p].left >= prep[p].last /\ ~prep[p].gained

\* What the next batch must leave less of; once something was gained it need not.
Remaining(p) == IF prep[p].result = "none" THEN prep[p].last
                ELSE IF prep[p].gained THEN 0 ELSE prep[p].left

NextBatch(p) ==
    /\ At(p, "comparing") /\ ~Verified(p)
    /\ \/ prep[p].result = "none"
       \/ prep[p].result = "partial" /\ ~NoProgress(p) /\ prep[p].batch < MaxBatches
    /\ prep' = [prep EXCEPT ![p] = [@ EXCEPT
                    !.stage = "batch", !.batch = prep[p].batch + 1, !.read = 0, !.result = "none",
                    !.left = 0, !.last = Remaining(p)]]
    /\ UNCHANGED <<world, index, job, seen, failures>>

\* Blocked: the gate refused, the ingest was complete and the tree is still not
\* covered, or a review is due; or nothing was gained; or the batches are used up.
AnswerUnready(p) ==
    /\ At(p, "comparing") /\ ~Verified(p)
    /\ \/ prep[p].result \in {"gate", "completed", "review"}
       \/ prep[p].result = "partial" /\ (NoProgress(p) \/ prep[p].batch = MaxBatches)
    /\ Answer(p)
    /\ UNCHANGED <<world, index, job, failures>>

-----------------------------------------------------------------------------
(* The job row of a batch.                                                 *)

\* The row that has the dedupe key is joined, whatever it waits for.
Enqueue(p) ==
    /\ At(p, "batch")
    /\ job' = IF job = NoJob THEN Fresh ELSE job
    /\ Goes(p, "asking")
    /\ UNCHANGED <<world, index, seen, failures>>

Claimable ==
    /\ job.status \in {"queued", "retry-wait", "running"} /\ job.due
    /\ job.attempts < MaxAttempts

Claim(p) ==
    /\ At(p, "asking") \/ At(p, "polling")
    /\ prep[p].ended = "no" /\ Claimable
    /\ job' = [job EXCEPT !.status = "running", !.due = FALSE, !.attempts = @ + 1]
    /\ Goes(p, "rechecking")
    /\ UNCHANGED <<world, index, seen, failures>>

Wait(p) ==
    /\ At(p, "asking")
    /\ prep[p].ended # "no" \/ ~Claimable
    /\ Goes(p, "polling")
    /\ UNCHANGED <<world, index, job, seen, failures>>

\* The poll finds the row succeeded, or blocked.
Learn(p) ==
    /\ At(p, "polling")
    /\ \/ prep[p].ended = "succeeded"
       \/ prep[p].ended = "no" /\ job = ForReview
    /\ prep' = [prep EXCEPT ![p] = [@ EXCEPT
                    !.stage = "verifying", !.ended = "no",
                    !.result = IF prep[p].ended = "succeeded" THEN "completed" ELSE "review"]]
    /\ UNCHANGED <<world, index, job, seen, failures>>

\* It finds the row failed, or the deadline passes.
GiveUp(p) ==
    /\ At(p, "polling")
    /\ prep[p].ended = "failed" \/ (prep[p].ended = "no" /\ job # ForReview)
    /\ Answer(p)
    /\ UNCHANGED <<world, index, job, failures>>

-----------------------------------------------------------------------------
(* The claimed attempt.  A row that settles gives its dedupe key back, and *)
(* those who poll it find how it ended.                                    *)

Told(d, how) == IF d.stage \in {"asking", "polling"} /\ d.ended = "no"
                THEN [d EXCEPT !.ended = how] ELSE d

\* The attempt of p is over: its row settles and p goes on with d.
Settles(p, how, d) ==
    /\ job' = NoJob
    /\ prep' = [q \in Processes |-> IF q = p THEN d ELSE Told(prep[q], how)]

\* What a batch with this result and so much left over leaves of the preparation.
Returned(p, result, left) ==
    [prep[p] EXCEPT !.stage = "verifying", !.read = 0, !.result = result, !.left = left,
                    !.scanned = 0, !.todo = {}, !.errors = FALSE]

\* The work was done meanwhile: the row succeeds without an ingest.
AlreadyReady(p) ==
    /\ At(p, "recomparing") /\ Verified(p)
    /\ Settles(p, "succeeded", Returned(p, "completed", 0))
    /\ UNCHANGED <<world, index, seen, failures>>

\* It was not, or the verification failed: the ingest will tell.  It begins by resolving
\* the identity under which it will publish (ingest-postgres.ts:1000), before any scan.
GoOn(p) ==
    /\ At(p, "recomparing")
    /\ prep' = [prep EXCEPT ![p].stage = "scanning", ![p].read = tree]
    /\ UNCHANGED <<world, index, job, seen, failures>>

Review(p) ==
    /\ At(p, "scanning") /\ tree \in Reviewed
    /\ job' = ForReview
    /\ prep' = [prep EXCEPT ![p] = Returned(p, "review", 0)]
    /\ UNCHANGED <<world, index, seen, failures>>

\* An ingest that died still has the project's snapshot.
Refuse(p) ==
    /\ At(p, "scanning") /\ tree \notin Reviewed /\ gate # NoProcess
    /\ Settles(p, "failed", Returned(p, "gate", 0))
    /\ UNCHANGED <<world, index, seen, failures>>

\* The snapshot is claimed and the row bound to it.
ClaimSnapshot(p) ==
    /\ At(p, "scanning") /\ tree \notin Reviewed /\ gate = NoProcess
    /\ ~job.bound
    /\ gate' = p
    /\ job' = [job EXCEPT !.bound = TRUE]
    /\ prep' = [prep EXCEPT ![p].stage = "claimed", ![p].scanned = tree]
    /\ UNCHANGED <<world, stale, served, seen, failures>>

\* The second scan: the tree is still the planned one, and the batch gets MaxFiles
\* of what there is to do.
Rescan(p, S) ==
    /\ At(p, "claimed") /\ tree = prep[p].scanned
    /\ S \subseteq stale
    /\ Cardinality(S) = MaxFiles \/ (S = stale /\ Cardinality(S) < MaxFiles)
    /\ prep' = [prep EXCEPT ![p].stage = "writing", ![p].todo = S,
                            ![p].left = Cardinality(stale \ S)]
    /\ UNCHANGED <<world, index, job, seen, failures>>

Drifted(p) ==
    /\ At(p, "claimed") /\ tree # prep[p].scanned
    /\ gate' = NoProcess
    /\ Settles(p, "failed", Returned(p, "gate", 0))
    /\ UNCHANGED <<world, stale, served, seen, failures>>

\* The texts of the second scan are written and promoted, but those of the files
\* that fail; a file edited since then is still stale.
Write(p, failing) ==
    /\ At(p, "writing") /\ failing \subseteq prep[p].todo
    /\ failing # {} => failures < MaxFailures
    /\ LET done == prep[p].todo \ failing
       IN /\ stale' = stale \ {f \in done : text[f] <= prep[p].scanned}
          /\ prep' = [prep EXCEPT ![p].stage = "finishing", ![p].todo = {},
                                  ![p].errors = failing # {}, ![p].gained = @ \/ done # {}]
    /\ failures' = IF failing = {} THEN failures ELSE failures + 1
    /\ UNCHANGED <<world, served, gate, job, seen>>

Complete(p) == ~prep[p].errors /\ prep[p].left = 0

\* Publication, consumption and the end of the row are one unit.
Publish(p) ==
    /\ At(p, "finishing") /\ Complete(p)
    /\ served' = prep[p].read
    /\ gate' = NoProcess
    /\ Settles(p, "succeeded", Returned(p, "completed", 0))
    /\ UNCHANGED <<world, stale, failures>>
    /\ seen' = [q \in Processes |-> seen[q] \/ (~At(q, "idle") /\ Covered')]

\* A partial batch fails its snapshot and its row.  Only one that left operations
\* over may be continued.
EndPartial(p) ==
    /\ At(p, "finishing") /\ ~Complete(p)
    /\ gate' = NoProcess
    /\ LET left == prep[p].left
       IN Settles(p, "failed", Returned(p, IF left > 0 THEN "partial" ELSE "gate", left))
    /\ UNCHANGED <<world, stale, served, seen, failures>>

-----------------------------------------------------------------------------
(* What fails.                                                             *)

\* Mutant: the budget is not compared when the attempt throws, only at the claim.
Throws_NoBudget(p, closes) ==
    /\ closes \in BOOLEAN
    /\ job' = IF closes THEN [job EXCEPT !.status = "retry-wait"] ELSE job
    /\ prep' = [prep EXCEPT ![p] = Idle]

\* The attempt throws: its row waits for a retry or, at the last attempt, for nobody.
\* The report itself may fail, and nobody looks.
Throws(p, closes) ==
    IF ~closes
    THEN job' = job /\ prep' = [prep EXCEPT ![p] = Idle]
    ELSE IF job.attempts < MaxAttempts
    THEN job' = [job EXCEPT !.status = "retry-wait"] /\ prep' = [prep EXCEPT ![p] = Idle]
    ELSE Settles(p, "failed", Idle)

\* A row that an earlier attempt bound cannot be bound to this attempt's snapshot;
\* the error leaves the snapshot claimed.
BindThrows(p) ==
    /\ At(p, "scanning") /\ tree \notin Reviewed /\ gate = NoProcess
    /\ job.bound
    /\ gate' = p
    /\ Throws(p, TRUE)
    /\ seen' = [seen EXCEPT ![p] = FALSE]
    /\ UNCHANGED <<world, stale, served, failures>>

\* The runtime, a provider, the database or a drifted file throws, the client goes,
\* the deadline passes over the work itself, or the process dies.  The snapshot is failed by a unit of
\* its own, as the row is.
Abort(p, fails, closes) ==
    /\ failures < MaxFailures
    /\ ~At(p, "idle")
    /\ fails => Ingesting(p)
    /\ closes => Holding(p)
    /\ gate' = IF fails THEN NoProcess ELSE gate
    /\ Throws(p, closes)
    /\ seen' = [seen EXCEPT ![p] = FALSE]
    /\ failures' = failures + 1
    /\ UNCHANGED <<world, stale, served>>

-----------------------------------------------------------------------------
(* The world goes on.                                                      *)

Edit(f) ==
    /\ tree < MaxTree
    /\ tree' = tree + 1
    /\ text' = [text EXCEPT ![f] = tree + 1]
    /\ stale' = stale \cup {f}
    /\ UNCHANGED <<served, gate, job, prep, seen, failures>>

\* Mutant: the lease is shorter than the deadline of the call that took it.
BecomesDue_Short ==
    /\ ~job.due
    /\ job.status \in {"retry-wait", "running"}
    /\ job' = [job EXCEPT !.due = TRUE]
    /\ UNCHANGED <<world, index, prep, seen, failures>>

\* The delay of a retry passes, or the lease of an attempt nobody runs any more.
BecomesDue ==
    /\ ~job.due
    /\ \/ job.status = "retry-wait"
       \/ job.status = "running" /\ \A p \in Processes : ~Holding(p)
    /\ job' = [job EXCEPT !.due = TRUE]
    /\ UNCHANGED <<world, index, prep, seen, failures>>

\* A snapshot whose ingest has gone lapses, and the next claim sweeps it.
GateLapses ==
    /\ gate # NoProcess /\ ~Ingesting(gate)
    /\ gate' = NoProcess
    /\ UNCHANGED <<world, stale, served, job, prep, seen, failures>>

Step(p) ==
    \/ Begin(p) \/ ReadServing(p)
    \/ AnswerReady(p) \/ NextBatch(p) \/ AnswerUnready(p)
    \/ Enqueue(p) \/ Claim(p) \/ Wait(p) \/ Learn(p) \/ GiveUp(p)
    \/ AlreadyReady(p) \/ GoOn(p)
    \/ Review(p) \/ Refuse(p) \/ ClaimSnapshot(p) \/ BindThrows(p)
    \/ \E S \in SUBSET Files : Rescan(p, S) \/ Write(p, S)
    \/ Drifted(p) \/ Publish(p) \/ EndPartial(p)

Next ==
    \/ \E p \in Processes :
         Step(p) \/ \E fails, closes \in BOOLEAN : Abort(p, fails, closes)
    \/ \E f \in Files : Edit(f)
    \/ BecomesDue
    \/ GateLapses

\* Code that can go on does, clients that were answered ask again, and time passes.
Fairness ==
    /\ \A p \in Processes : WF_vars(Step(p))
    /\ WF_vars(BecomesDue)
    /\ WF_vars(GateLapses)

Spec == Init /\ [][Next]_vars /\ Fairness

-----------------------------------------------------------------------------
\* The type invariant, and what the stages of a preparation mean for the row and for
\* the snapshot: one process holds the row, and an ingest has its snapshot.
PrepTypeOK ==
    /\ tree \in Trees /\ text \in [Files -> Trees] /\ stale \subseteq Files
    /\ served \in Trees \cup {0} /\ gate \in Processes \cup {NoProcess}
    /\ job \in JobRows
    /\ prep \in [Processes -> Preps]
    /\ seen \in [Processes -> BOOLEAN]
    /\ failures \in 0 .. MaxFailures
    /\ \A p \in Processes :
         /\ Holding(p) => job.status = "running" /\ ~job.due
         /\ Ingesting(p) => gate = p /\ job.bound
         /\ \A q \in Processes \ {p} : ~(Holding(p) /\ Holding(q))

\* "Ready" is said only when the serving index has had the present text of every file
\* at some moment of the preparation: an ingest that succeeded is no proof of it, nor a
\* build that left a file over, nor one that was served before the tree was edited.
ReadyWasTrue == [][\A p \in Processes : AnswerReady(p) => seen[p]]_vars

\* An attempt has died that was the last one: no claim takes the row again.
Dead ==
    /\ job.status = "running" /\ job.attempts = MaxAttempts
    /\ \A p \in Processes : ~Holding(p)

\* Clients that keep asking get the tree indexed, through failing attempts, leaked
\* snapshots, rows that can no longer be bound and each other's batches: a row that
\* waits for a review and a row whose last attempt died are all that can stop it.
PreparationsConverge == []<>(Covered \/ job = ForReview \/ Dead)

=============================================================================
