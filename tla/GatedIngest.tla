----------------------------- MODULE GatedIngest -----------------------------
(***************************************************************************)
(* Ingests of one project (scripts/project-rag/ingest-postgres.ts), run by *)
(* any number of processes against the tree on disk, the index tables and  *)
(* the snapshot gate.                                                      *)
(*                                                                         *)
(* An ingest scans the tree (Preflight), records the plan in a snapshot    *)
(* (Prepare) or takes up an approved one (Resume), sweeps, claims, scans   *)
(* again and compares (Refuse, Throws, Proceed), applies the plan file by  *)
(* file in units fenced by the snapshot, promotes what it wrote, and       *)
(* publishes it in the transaction that consumes the snapshot.  Between    *)
(* any two steps files change, leases lapse, other ingests step, and a     *)
(* process may die.                                                        *)
(*                                                                         *)
(* A plan is what the hashes of the snapshot row bind: the tree, the       *)
(* tracked baseline, the scope and the scan's evidence; two hashes are     *)
(* equal when what they hash is.  Abstracted: redaction, chunks, symbols,  *)
(* edges and embeddings (a version owns them), blocked files, the project  *)
(* configuration, maxFiles (it ends like a run with a file error) and the  *)
(* job fence of a durable run, which module JobWorker has.                 *)
(***************************************************************************)
EXTENDS SnapshotGate

CONSTANTS
  Files,      \* source paths
  Scopes,     \* what an ingest may be asked for: Full, or one file of Files
  Full,       \* the whole project
  Procs,      \* processes that run ingests
  Versions,   \* bound: contents a file can have
  MaxEdits    \* bound: changes of the tree or of what a scan can see

ASSUME IngestAssumption ==
  /\ Versions \in Nat \ {0} /\ MaxEdits \in Nat
  /\ Full \notin Files /\ Scopes \subseteq Files \cup {Full}

VARIABLES
  disk,        \* [Files -> content], Absent when there is no such file
  scan,        \* what a scan of the tree would establish now
  edits,       \* counts the changes, for the bound
  index,       \* project_files with its latest and active versions
  published,   \* the published build: what searches read
  plan,        \* [Snaps -> Plan]: the binding columns of each snapshot row
  sync,        \* [Snaps -> status]: the sync run of each snapshot
  at           \* [Procs -> Ingest]: where each process is

treeVars == <<disk, scan, edits>>
ingestVars == <<treeVars, index, published, plan, sync, at>>
vars == <<gateVars, ingestVars>>

Absent == 0
Contents == 0 .. Versions
ScanVerdicts == {"complete", "incomplete", "blocked"}

Plan == [scope: Files \cup {Full}, disk: [Files -> Contents], base: [Files -> Contents],
         scan: ScanVerdicts]
NoPlan == [scope |-> Full, disk |-> [f \in Files |-> Absent],
           base |-> [f \in Files |-> Absent], scan |-> "blocked"]
FileRow == [hash: Contents, latest: {"none", "pending", "ready", "failed"}, active: Contents]
Stages == {"idle", "planned", "prepared", "swept", "claimed", "writing", "stray"}
Ingest == [stage: Stages, snap: Snaps \cup {NoSnap}, plan: Plan, drop: SUBSET Files,
           todo: SUBSET Files, done: SUBSET Files, errors: BOOLEAN]
Start(stage, s) == [stage |-> stage, snap |-> s, plan |-> NoPlan, drop |-> {},
                    todo |-> {}, done |-> {}, errors |-> FALSE]
Out == Start("idle", NoSnap)

\* Either nothing was ever indexed, or an earlier ingest left all in step.
IngestInit ==
  /\ GateInit
  /\ disk = [f \in Files |-> 1] /\ scan = "complete" /\ edits = 0
  /\ \/ /\ index = [f \in Files |-> [hash |-> Absent, latest |-> "none", active |-> Absent]]
        /\ published = [f \in Files |-> Absent]
     \/ /\ index = [f \in Files |-> [hash |-> 1, latest |-> "ready", active |-> 1]]
        /\ published = [f \in Files |-> 1]
  /\ plan = [s \in Snaps |-> NoPlan]
  /\ sync = [s \in Snaps |-> "none"]
  /\ at = [p \in Procs |-> Out]

-----------------------------------------------------------------------------
(* Plans.                                                                   *)

\* buildPreflightPlan: a scan of the whole tree and the tracked rows.
Scan(scope) ==
  [scope |-> scope, disk |-> disk, base |-> [f \in Files |-> index[f].hash], scan |-> scan]

Deletes(q) ==
  IF q.scope = Full THEN {f \in Files : q.base[f] # Absent /\ q.disk[f] = Absent} ELSE {}

\* Mutant: additions, updates and deletions are all taken for safe.
NeedsReview_Never(q) == FALSE

\* refreshRequiresReview: only deletions need evidence, and only a complete scan is evidence.
NeedsReview(q) == Deletes(q) # {} /\ q.scan # "complete"

Verdict(q) ==
  IF q.scan = "blocked" THEN "FAILED"
  ELSE IF NeedsReview(q) THEN "REVIEW_REQUIRED"
  ELSE "PREPARED"

\* The files of the scope whose row is not the ready version of what was scanned.
Stale(q) ==
  {f \in (IF q.scope = Full THEN Files ELSE {q.scope}) :
     q.disk[f] # Absent /\ (index[f].hash # q.disk[f] \/ index[f].latest # "ready")}

\* ... of which those that only wait for their promotion are not written again.
Recoverable(q) == {f \in Stale(q) : index[f].hash = q.disk[f] /\ index[f].latest = "pending"}

-----------------------------------------------------------------------------
(* Up to the claim.                                                         *)

Stage(p, stage) == at[p].stage = stage
Snap(p) == at[p].snap
Quits(p) == at' = [at EXCEPT ![p] = Out]
Moves(p, stage) == at' = [at EXCEPT ![p].stage = stage]

Preflight(p, scope) ==
  /\ Stage(p, "idle")
  /\ scope # Full => disk[scope] # Absent
  /\ at' = [at EXCEPT ![p].stage = "planned", ![p].plan = Scan(scope)]
  /\ Sweep
  /\ UNCHANGED <<treeVars, index, published, plan, sync>>

Prepare(p) ==
  /\ Stage(p, "planned")
  /\ \E s \in Snaps :
       /\ Insert(s, Verdict(at[p].plan))
       /\ plan' = [plan EXCEPT ![s] = at[p].plan]
       /\ at' = [at EXCEPT ![p] =
            IF Verdict(at[p].plan) = "PREPARED" THEN Start("prepared", s) ELSE Out]
  /\ UNCHANGED <<treeVars, index, published, sync>>

\* With --approved-snapshot the plan must be the one that was approved.
Resume(p, s) ==
  /\ Stage(p, "planned")
  /\ snap[s].status = "REVIEW_REQUIRED" /\ Reviewed(s)
  /\ plan[s] = at[p].plan
  /\ at' = [at EXCEPT ![p] = Start("prepared", s)]
  /\ UNCHANGED <<gateVars, treeVars, index, published, plan, sync>>

SweepAgain(p) ==
  /\ Stage(p, "prepared")
  /\ Moves(p, "swept")
  /\ Sweep
  /\ UNCHANGED <<treeVars, index, published, plan, sync>>

ClaimSnapshot(p) ==
  /\ Stage(p, "swept")
  /\ Claim(Snap(p), NeedsReview(plan[Snap(p)]))
  /\ Moves(p, "claimed")
  /\ UNCHANGED <<treeVars, index, published, plan, sync>>

ClaimRefused(p) ==
  /\ Stage(p, "swept")
  /\ ~MayClaim(Snap(p), NeedsReview(plan[Snap(p)]))
  /\ Quits(p)
  /\ UNCHANGED <<gateVars, treeVars, index, published, plan, sync>>

-----------------------------------------------------------------------------
(* Under the claim.                                                         *)

\* Mutant: a unit is not checked against the snapshot.
Fence_None(p) == TRUE

\* The fence of every unit after the claim: before it writes and before it
\* commits, the snapshot row is locked and found claimed with a live lease.
Fence(p) == LiveClaim(Snap(p))

\* The second scan allows no plan, another plan, or one that needs a review.
Refuse(p) ==
  LET again == Scan(plan[Snap(p)].scope) IN
  /\ Stage(p, "claimed") /\ Fence(p)
  /\ again.scan = "blocked" \/ NeedsReview(again) \/ again # plan[Snap(p)]
  /\ Fail(Snap(p))
  /\ Quits(p)
  /\ UNCHANGED <<treeVars, index, published, plan, sync>>

\* The second scan finds the plan of the snapshot, and nothing against it.
Confirmed(q) == Scan(q.scope) = q /\ ~NeedsReview(q) /\ q.scan # "blocked"

\* A read, the second scan or the start of the sync run throws.
ThrowAtScan(p) ==
  /\ Stage(p, "claimed") /\ Fence(p)
  /\ Fail(Snap(p))
  /\ Quits(p)
  /\ UNCHANGED <<treeVars, index, published, plan, sync>>

\* A file goes between the start of the sync run and the list of what to write:
\* the snapshot is failed, and the sync run stays as it is.
ThrowAtStart(p) ==
  /\ Stage(p, "claimed") /\ Fence(p)
  /\ Confirmed(plan[Snap(p)])
  /\ Fail(Snap(p))
  /\ sync' = [sync EXCEPT ![Snap(p)] = "running"]
  /\ Quits(p)
  /\ UNCHANGED <<treeVars, index, published, plan>>

Throws(p) == ThrowAtScan(p) \/ ThrowAtStart(p)

\* The plan is confirmed; the sync run starts.
Proceed(p) ==
  LET q == plan[Snap(p)] IN
  /\ Stage(p, "claimed") /\ Fence(p)
  /\ Confirmed(q)
  /\ at' = [at EXCEPT ![p].stage = "writing", ![p].drop = Deletes(q),
       ![p].todo = Stale(q) \ Recoverable(q), ![p].done = Recoverable(q)]
  /\ sync' = [sync EXCEPT ![Snap(p)] = "running"]
  /\ UNCHANGED <<gateVars, treeVars, index, published, plan>>

\* Files leave one by one, before any file is written.
Delete(p, f) ==
  /\ Stage(p, "writing") /\ f \in at[p].drop
  /\ Fence(p) /\ ~NeedsReview(plan[Snap(p)])
  /\ index' = [index EXCEPT ![f].hash = Absent]
  /\ at' = [at EXCEPT ![p].drop = @ \ {f}]
  /\ UNCHANGED <<gateVars, treeVars, published, plan, sync>>

\* A file is written by a task of its own.  When one task throws, the others
\* run on behind the back of the ingest that has already aborted (stray).
MayWrite(p, f) ==
  /\ at[p].stage \in {"writing", "stray"} /\ at[p].drop = {} /\ f \in at[p].todo
  /\ Fence(p)

\* The content the second scan saw becomes the file's pending version.
Upsert(p, f) ==
  /\ MayWrite(p, f)
  /\ index' = [index EXCEPT ![f].hash = plan[Snap(p)].disk[f], ![f].latest = "pending"]
  /\ at' = [at EXCEPT ![p].todo = @ \ {f}, ![p].done = @ \cup {f}]
  /\ UNCHANGED <<gateVars, treeVars, published, plan, sync>>

\* The file cannot be parsed: its version is kept, as failed.
UpsertFails(p, f) ==
  /\ MayWrite(p, f)
  /\ index' = [index EXCEPT ![f].hash = plan[Snap(p)].disk[f], ![f].latest = "failed"]
  /\ at' = [at EXCEPT ![p].todo = @ \ {f}, ![p].errors = TRUE]
  /\ UNCHANGED <<gateVars, treeVars, published, plan, sync>>

\* Any other error of one file is recorded, and the run goes on without it.
FileError(p, f) ==
  /\ Stage(p, "writing") /\ at[p].drop = {} /\ f \in at[p].todo
  /\ at' = [at EXCEPT ![p].todo = @ \ {f}, ![p].errors = TRUE]
  /\ UNCHANGED <<gateVars, treeVars, index, published, plan, sync>>

\* One unit promotes the pending versions whose embeddings are all there.
Promote(p, embedded) ==
  /\ Stage(p, "writing") /\ at[p].drop = {} /\ at[p].todo = {} /\ at[p].done # {}
  /\ embedded \subseteq at[p].done
  /\ Fence(p)
  /\ index' = [f \in Files |->
       IF f \in embedded /\ index[f].latest = "pending"
         THEN [hash |-> index[f].hash, latest |-> "ready", active |-> index[f].hash]
         ELSE index[f]]
  /\ at' = [at EXCEPT ![p].done = {}, ![p].errors = @ \/ embedded # at[p].done]
  /\ UNCHANGED <<gateVars, treeVars, published, plan, sync>>

Applied(p) == Stage(p, "writing") /\ at[p].drop = {} /\ at[p].todo = {} /\ at[p].done = {}

Build == [f \in Files |-> IF index[f].hash # Absent THEN index[f].active ELSE Absent]

\* An empty build is published only on the evidence of a complete scan.
MayPublish(q) ==
  \/ \E f \in Files : Build[f] # Absent
  \/ q.scan = "complete" /\ \A f \in Files : q.disk[f] = Absent

\* Mutant: a run with file errors completes.
Complete_Anyway(p) ==
  /\ Applied(p)
  /\ MayPublish(plan[Snap(p)])
  /\ Consume(Snap(p))
  /\ published' = Build
  /\ sync' = [sync EXCEPT ![Snap(p)] = "completed"]
  /\ Quits(p)
  /\ UNCHANGED <<treeVars, index, plan>>

\* Mutant: the snapshot is consumed whether or not its lease is live.
Complete_Late(p) ==
  /\ Applied(p) /\ ~at[p].errors
  /\ MayPublish(plan[Snap(p)])
  /\ snap' = [snap EXCEPT ![Snap(p)].status = "CONSUMED"]
  /\ published' = Build
  /\ sync' = [sync EXCEPT ![Snap(p)] = "completed"]
  /\ Quits(p)
  /\ UNCHANGED <<treeVars, index, plan, review, decision, stmt>>

Complete(p) ==
  /\ Applied(p) /\ ~at[p].errors
  /\ MayPublish(plan[Snap(p)])
  /\ Consume(Snap(p))
  /\ published' = Build
  /\ sync' = [sync EXCEPT ![Snap(p)] = "completed"]
  /\ Quits(p)
  /\ UNCHANGED <<treeVars, index, plan>>

\* Mutant: the sync run gets a status the table's CHECK does not know.
Partial_Unknown(p) ==
  /\ Applied(p) /\ at[p].errors
  /\ Fence(p) /\ Fail(Snap(p))
  /\ sync' = [sync EXCEPT ![Snap(p)] = "incomplete"]
  /\ Quits(p)
  /\ UNCHANGED <<treeVars, index, published, plan>>

Partial(p) ==
  /\ Applied(p) /\ at[p].errors
  /\ Fence(p) /\ Fail(Snap(p))
  /\ sync' = [sync EXCEPT ![Snap(p)] = "partial"]
  /\ Quits(p)
  /\ UNCHANGED <<treeVars, index, published, plan>>

\* Mutant: an aborted run closes its sync run, whoever has the snapshot now.
Abort_Unfenced(p) ==
  /\ Stage(p, "writing")
  /\ sync' = [sync EXCEPT ![Snap(p)] = "failed"]
  /\ Moves(p, "stray")
  /\ UNCHANGED <<gateVars, treeVars, index, published, plan>>

\* Something threw: a changed file, a lost lease, a failed statement.  The
\* closing unit is fenced too, and what it cannot close it leaves.
Abort(p) ==
  /\ Stage(p, "writing")
  /\ \/ /\ Fence(p) /\ Fail(Snap(p))
        /\ sync' = [sync EXCEPT ![Snap(p)] = "failed"]
     \/ /\ ~Fence(p)
        /\ UNCHANGED <<gateVars, sync>>
  /\ Moves(p, "stray")
  /\ UNCHANGED <<treeVars, index, published, plan>>

\* The process dies, or throws where nothing is closed.
Leave(p) ==
  /\ ~Stage(p, "idle")
  /\ Quits(p)
  /\ UNCHANGED <<gateVars, treeVars, index, published, plan, sync>>

-----------------------------------------------------------------------------
(* The rest of the world.                                                   *)

Edit(f, content) ==
  /\ edits < MaxEdits /\ content # disk[f]
  /\ disk' = [disk EXCEPT ![f] = content]
  /\ edits' = edits + 1
  /\ UNCHANGED <<gateVars, scan, index, published, plan, sync, at>>

ScanChanges(verdict) ==
  /\ edits < MaxEdits /\ verdict # scan
  /\ scan' = verdict
  /\ edits' = edits + 1
  /\ UNCHANGED <<gateVars, disk, index, published, plan, sync, at>>

World ==
  \/ \E f \in Files, content \in Contents : Edit(f, content)
  \/ \E verdict \in ScanVerdicts : ScanChanges(verdict)
  \/ (Ages \/ \E o \in Operators : Operates(o)) /\ UNCHANGED ingestVars

UpToClaim(p) ==
  \/ \E scope \in Scopes : Preflight(p, scope)
  \/ Prepare(p) \/ \E s \in Snaps : Resume(p, s)
  \/ SweepAgain(p) \/ ClaimSnapshot(p) \/ ClaimRefused(p)

UnderClaim(p) ==
  \/ Refuse(p) \/ Throws(p) \/ Proceed(p)
  \/ \E f \in Files : Delete(p, f) \/ Upsert(p, f) \/ UpsertFails(p, f) \/ FileError(p, f)
  \/ \E embedded \in SUBSET Files : Promote(p, embedded)
  \/ Complete(p) \/ Partial(p) \/ Abort(p)

IngestNext == World \/ \E p \in Procs : UpToClaim(p) \/ UnderClaim(p) \/ Leave(p)

IngestSpec == IngestInit /\ [][IngestNext]_vars

-----------------------------------------------------------------------------
(* Properties.                                                              *)

\* Every variable has its type.
IngestTypeOK ==
  /\ GateTypeOK
  /\ disk \in [Files -> Contents] /\ scan \in ScanVerdicts /\ edits \in 0 .. MaxEdits
  /\ index \in [Files -> FileRow]
  /\ published \in [Files -> Contents]
  /\ plan \in [Snaps -> Plan]
  /\ sync \in [Snaps -> {"none", "running", "completed", "partial", "failed"}]
  /\ at \in [Procs -> Ingest]

\* Whatever the ingests do to the snapshots, the gate offers it: the gate's
\* own properties hold of the running program.
RefinesGate == GateSpec

\* While an ingest with a live claim writes, the index is what its second scan
\* saw, up to its own writes: no stale, aborted or reclaimed ingest wrote since.
WriterAlone ==
  \A p \in Procs :
    Stage(p, "writing") /\ LiveClaim(Snap(p)) =>
      LET q == plan[Snap(p)] IN
      \A f \in Files :
        /\ f \in at[p].drop \cup at[p].todo => index[f].hash = q.base[f]
        /\ f \in at[p].done => index[f].hash = q.disk[f] /\ index[f].latest = "pending"
        /\ index[f].hash \in {q.base[f], q.disk[f]}

\* A consumed full snapshot publishes exactly the tree it was prepared from,
\* and a consumed file snapshot that file: no mix of two scans is searched.
PublishesThePlan ==
  [][\A s \in Snaps :
       snap[s].status # "CONSUMED" /\ snap'[s].status = "CONSUMED" =>
         IF plan[s].scope = Full THEN published' = plan[s].disk
         ELSE published'[plan[s].scope] = plan[s].disk[plan[s].scope]]_vars

\* No file leaves the published build on the word of incomplete scans alone.  An
\* ingest may publish a removal it did not make (an earlier one deleted the row
\* and failed), but some ingest that wrote had a complete scan without the file.
RemovalIsEvidenced ==
  [][\A f \in Files :
       published[f] # Absent /\ published'[f] = Absent =>
         \E s \in Snaps : /\ sync[s] # "none"
                          /\ plan[s].scan = "complete" /\ plan[s].disk[f] = Absent]_vars

\* A sync run and its snapshot never tell two outcomes.
OutcomesAgree ==
  \A s \in Snaps :
    /\ sync[s] = "completed" <=> snap[s].status = "CONSUMED"
    /\ sync[s] \in {"partial", "failed"} => snap[s].status = "FAILED"

\* An ingest whose second scan finds the plan it prepared, or the plan that was
\* approved, is not refused by the comparison.
RefusalMeansDrift ==
  [][\A p \in Procs : Refuse(p) => Scan(plan[Snap(p)].scope) # plan[Snap(p)]]_vars

=============================================================================
