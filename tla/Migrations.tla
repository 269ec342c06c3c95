----------------------------- MODULE Migrations -----------------------------
(***************************************************************************)
(* The database migrations of src/scripts/db-migrations: the ledger and    *)
(* the runner of one lane (runner.ts), the official two-lane operation     *)
(* with its plan, receipts, durable maintenance marker and recovery        *)
(* (official.ts, cli.ts), and the fence every write transaction passes     *)
(* (write-fence.ts).                                                       *)
(*                                                                         *)
(* One database.  `disposable' says which of the two routes it admits: the *)
(* isolated commands refuse the official databases, the official ones      *)
(* refuse all others.  An operation is a process with one connection; a    *)
(* check that fails, an error of the server and a death all end the same   *)
(* way for the database, the connection closes (Close), so an action       *)
(* states only the outcome in which the code goes on.                      *)
(***************************************************************************)
EXTENDS Naturals, FiniteSets

CONSTANTS
    Lanes,          \* "project" and "docs": one ledger table, one manifest each
    NumScripts,     \* the length of a lane's manifest
    Rerunnable,     \* the scripts that run again over their own result
    Ops,            \* operation ids: one official plan or isolated command each
    NoOp,           \* no operation
    NoLane,         \* no lane
    LaneChoices,    \* the sets of lanes an official plan is asked for
    Writers,        \* sessions of the application that write
    MaxEdits        \* bound: how often somebody edits a script of the repository

ASSUME MigrationsAssumption ==
    /\ NumScripts \in Nat \ {0}
    /\ MaxEdits \in Nat
    /\ Rerunnable \subseteq 1 .. NumScripts
    /\ NoOp \notin Ops
    /\ NoLane \notin Lanes
    /\ LaneChoices \subseteq SUBSET Lanes \ {{}}

VARIABLES
    disposable,     \* the database is a disposable one
    files,          \* the revision of each script in the working tree
    db,             \* per lane: the scripts whose changes are there, and the ledger
    lock,           \* the session holding the exclusive advisory lock
    marker,         \* the operation in the durable maintenance marker
    plan,           \* the official plan of an operation, NoPlan before it is made
    receipts,       \* the receipts an operation holds: "backup", "drain"
    audit,          \* the records appended for an operation
    run,            \* the process of an operation
    writer          \* where a writer is

migVars == <<disposable, files, db, lock, marker, plan, receipts, audit, run, writer>>

Ordinals == 1 .. NumScripts
Revisions == 1 .. MaxEdits + 1
Manifests == [Ordinals -> Revisions]
NoRow == 0

\* A lane: the scripts whose changes are in the schema, and for each ordinal
\* the revision its ledger row was written for (NoRow without a row).
Lane == [done : SUBSET Ordinals, ledger : [Ordinals -> Revisions \cup {NoRow}]]

NoPlan == [lanes |-> {}]
States == {"fresh", "adoption_required", "invalid_ledger", "up_to_date", "upgrade_pending"}
Status == [state : States, ledger : [Ordinals -> Revisions \cup {NoRow}],
           prefix : 0 .. NumScripts]
Plans == {NoPlan} \cup
    UNION {[lanes : {L}, manifest : Manifests, status : [L -> Status]] :
             L \in LaneChoices}

Modes == {"apply", "recover", "isolated_apply", "isolated_adopt"}
Stages == {"idle", "started", "locked", "taking", "marked", "checked", "adopted",
           "scripts", "recording", "audited", "unmarked"}
\* The stages in which the process owns the exclusive lock.
Locked == Stages \ {"idle", "started"}
Run == [stage : Stages, mode : Modes, prior : Ops \cup {NoOp},
        manifest : Manifests, challenge : [Lanes -> 0 .. NumScripts],
        todo : SUBSET Lanes, lane : Lanes \cup {NoLane}, next : 1 .. NumScripts + 1]
Idle == [stage |-> "idle", mode |-> "apply", prior |-> NoOp,
         manifest |-> [k \in Ordinals |-> 1], challenge |-> [l \in Lanes |-> 0],
         todo |-> {}, lane |-> NoLane, next |-> 1]

-----------------------------------------------------------------------------
(* What the runner reads off a lane.                                       *)

Recorded(d) == {k \in Ordinals : d.ledger[k] # NoRow}

\* detectFootprint: the anchor relation is made by the first script.
Footprint(d) == 1 \in d.done

\* validateLedger and the footprint check of classifyLane.
ValidLedger(d, m) ==
    /\ \A k \in Recorded(d) : d.ledger[k] = m[k]
    /\ \A k \in Recorded(d) : 1 .. k \subseteq Recorded(d)
    /\ Footprint(d)

Classify(d, m) ==
    CASE Recorded(d) = {} /\ ~Footprint(d) -> "fresh"
      [] Recorded(d) = {} /\ Footprint(d) -> "adoption_required"
      [] Recorded(d) # {} /\ ~ValidLedger(d, m) -> "invalid_ledger"
      [] Recorded(d) = Ordinals /\ ValidLedger(d, m) -> "up_to_date"
      [] OTHER -> "upgrade_pending"

\* Mutant: the anchor relation alone proves the whole manifest.
Adoptable_Anchored(d) == IF Footprint(d) THEN NumScripts ELSE 0

\* probeLane reports of a script whether all it leaves in the catalog is there.  The
\* queries of the probes are outside the model: they are taken to tell it exactly.
Proven(d, k) == k \in d.done

\* buildAdoptionChallenge: the length of the proven contiguous prefix, 0 when
\* no prefix can be adopted.
Adoptable(d) ==
    LET prefixes == {p \in Ordinals : \A k \in Ordinals : Proven(d, k) <=> k <= p}
    IN  IF prefixes = {} THEN 0 ELSE CHOOSE p \in prefixes : TRUE

\* The challenge of a status report: only a lane to adopt has one.
ChallengePrefix(d, m) ==
    IF Classify(d, m) = "adoption_required" THEN Adoptable(d) ELSE 0

\* What stateForReport digests of a lane.
StatusOf(d, m) ==
    [state |-> Classify(d, m), ledger |-> d.ledger, prefix |-> ChallengePrefix(d, m)]

\* The first script runApplyLocked runs: all of them when the lane is fresh,
\* what follows the last row otherwise.
FirstPending(d) == Cardinality(Recorded(d)) + 1

\* The databases an isolated command accepts, and the ones an official accepts.
DisposableTarget == disposable
OfficialTarget == ~disposable

Official(o) == run[o].mode \in {"apply", "recover"}
At(o, s) == run[o].stage = s
Goes(o, s) == run' = [run EXCEPT ![o].stage = s]

-----------------------------------------------------------------------------
(* Before the lock: the plan, its receipts, the start.                     *)

\* A database whose scripts were applied by hand, or none, and no ledger.
MigInit ==
    /\ disposable \in BOOLEAN
    /\ files = [k \in Ordinals |-> 1]
    /\ db \in [Lanes -> {d \in Lane : Recorded(d) = {} /\ (d.done = {} \/ Footprint(d))}]
    /\ lock = NoOp
    /\ marker = NoOp
    /\ plan = [o \in Ops |-> NoPlan]
    /\ receipts = [o \in Ops |-> {}]
    /\ audit = [o \in Ops |-> {}]
    /\ run = [o \in Ops |-> Idle]
    /\ writer = [w \in Writers |-> "away"]

\* Somebody edits a script: its file gets a checksum it did not have before.
EditScript(k) ==
    \E r \in Revisions :
        /\ \A j \in Ordinals : files[j] < r
        /\ files' = [files EXCEPT ![k] = r]
        /\ UNCHANGED <<disposable, db, lock, marker, plan, receipts, audit, run, writer>>

\* createOfficialPlan: the status of each lane and the manifest, sealed.
Plan(o, L) ==
    /\ OfficialTarget
    /\ plan[o] = NoPlan
    /\ plan' = [plan EXCEPT ![o] =
         [lanes |-> L, manifest |-> files,
          status |-> [l \in L |-> StatusOf(db[l], files)]]]
    /\ UNCHANGED <<disposable, files, db, lock, marker, receipts, audit, run, writer>>

\* Mutant: comparePlan is never asked for.
AsPlanned_Unread(o) == TRUE

\* What readOfficialLaneStates compares.
AsPlanned(o) ==
    \A l \in plan[o].lanes : StatusOf(db[l], plan[o].manifest) = plan[o].status[l]

\* verifyRestoredDatabase: the restored dump has the planned lanes in the
\* planned state, what is to be adopted can be, and there is something in it.
RestoredAsPlanned(o) ==
    /\ AsPlanned(o)
    /\ \A l \in plan[o].lanes : plan[o].status[l].state = "adoption_required"
                                => plan[o].status[l].prefix # 0
    /\ \E l \in plan[o].lanes : Footprint(db[l])

\* The dump is taken, restored beside the database and verified.
Backup(o) ==
    /\ plan[o] # NoPlan
    /\ RestoredAsPlanned(o)
    /\ receipts' = [receipts EXCEPT ![o] = @ \cup {"backup"}]
    /\ UNCHANGED <<disposable, files, db, lock, marker, plan, audit, run, writer>>

\* readDrainObservation: no session but the one that looks.
Drained(o) ==
    /\ \A w \in Writers : writer[w] = "away"
    /\ \A p \in Ops \ {o} : At(p, "idle")

Drain(o) ==
    /\ plan[o] # NoPlan
    /\ Drained(o)
    /\ receipts' = [receipts EXCEPT ![o] = @ \cup {"drain"}]
    /\ UNCHANGED <<disposable, files, db, lock, marker, plan, audit, run, writer>>

\* appendOfficialAudit: on disk before it returns.
Append(o, record) == audit' = [audit EXCEPT ![o] = @ \cup {record}]

\* Both receipts are there and bound to the plan.
Receipted(o) == receipts[o] = {"backup", "drain"}

\* assertManifestBinding: the scripts are still the ones that were planned.
ManifestBound(o) == plan[o].manifest = files

\* runOfficialApplyInternal up to its first call of the database: both
\* receipts, and the manifest still the planned one.
Start(o, mode, prior) ==
    /\ At(o, "idle")
    /\ plan[o] # NoPlan
    /\ Receipted(o)
    /\ ManifestBound(o)
    /\ (mode = "recover") <=> (prior # NoOp)
    /\ run' = [run EXCEPT ![o] =
         [Idle EXCEPT !.stage = "started", !.mode = mode, !.prior = prior,
                      !.manifest = files, !.todo = plan[o].lanes,
                      !.challenge = [l \in Lanes |-> IF l \in plan[o].lanes
                                       THEN plan[o].status[l].prefix ELSE 0]]]
    /\ UNCHANGED <<disposable, files, db, lock, marker, plan, receipts, audit, writer>>

\* runApply and runAdopt read the lane first and refuse the states they are
\* not for.
MayApply(l) == Classify(db[l], files) \notin {"invalid_ledger", "adoption_required"}
MayAdopt(l) == ChallengePrefix(db[l], files) # 0

\* An isolated command, up to the lock.
StartIsolated(o, l, mode) ==
    /\ DisposableTarget
    /\ At(o, "idle")
    /\ mode = "isolated_apply" => MayApply(l)
    /\ mode = "isolated_adopt" => MayAdopt(l)
    /\ run' = [run EXCEPT ![o] =
         [Idle EXCEPT !.stage = "started", !.mode = mode, !.manifest = files,
                      !.challenge[l] = ChallengePrefix(db[l], files), !.todo = {l}]]
    /\ UNCHANGED <<disposable, files, db, lock, marker, plan, receipts, audit, writer>>

-----------------------------------------------------------------------------
(* Under the exclusive lock.                                               *)

\* pg_try_advisory_lock: refused while anybody holds it, shared or not.
AcquireLock(o) ==
    /\ At(o, "started")
    /\ lock = NoOp
    /\ \A w \in Writers : writer[w] \notin {"fenced", "writing"}
    /\ lock' = o
    /\ Goes(o, IF Official(o) THEN "locked" ELSE "checked")
    /\ UNCHANGED <<disposable, files, db, marker, plan, receipts, audit, writer>>

\* Mutant: the insert overwrites the marker it finds.
Establish_Upsert(o) ==
    /\ At(o, "locked")
    /\ run[o].mode = "apply"
    /\ marker' = o
    /\ Goes(o, "marked")
    /\ UNCHANGED <<disposable, files, db, lock, plan, receipts, audit, writer>>

\* establishOfficialMaintenanceMarker: insert unless there is one, read back.
Establish(o) ==
    /\ At(o, "locked")
    /\ run[o].mode = "apply"
    /\ marker \in {NoOp, o}
    /\ marker' = o
    /\ Goes(o, "marked")
    /\ UNCHANGED <<disposable, files, db, lock, plan, receipts, audit, writer>>

\* Recovery: the declared prior operation owns the marker; on the record first.
DeclareTakeover(o) ==
    /\ At(o, "locked")
    /\ run[o].mode = "recover"
    /\ marker = run[o].prior
    /\ Append(o, "takeover")
    /\ Goes(o, "taking")
    /\ UNCHANGED <<disposable, files, db, lock, marker, plan, receipts, writer>>

\* takeOverOfficialMaintenanceMarker
TakeOver(o) ==
    /\ At(o, "taking")
    /\ marker = run[o].prior
    /\ marker' = o
    /\ Goes(o, "marked")
    /\ UNCHANGED <<disposable, files, db, lock, plan, receipts, audit, writer>>

\* The lanes are still as planned and the writers still away.
Check(o) ==
    /\ At(o, "marked")
    /\ AsPlanned(o)
    /\ Drained(o)
    /\ Goes(o, "checked")
    /\ UNCHANGED <<disposable, files, db, lock, marker, plan, receipts, audit, writer>>

\* runAdoptLocked: the probes give the challenged prefix again, and its rows
\* are inserted in one transaction; a row that is there already aborts it.
Adopt(o, l) ==
    LET p == run[o].challenge[l]
    IN  /\ At(o, "checked")
        /\ l \in run[o].todo
        /\ p # 0
        /\ Adoptable(db[l]) = p
        /\ \A k \in 1 .. p : db[l].ledger[k] = NoRow
        /\ db' = [db EXCEPT ![l].ledger =
             [k \in Ordinals |-> IF k <= p THEN run[o].manifest[k] ELSE @[k]]]
        /\ run' = [run EXCEPT
             ![o].todo = @ \ {l},
             ![o].stage = IF Official(o) THEN "adopted" ELSE "checked",
             ![o].lane = IF Official(o) THEN l ELSE NoLane]
        /\ UNCHANGED <<disposable, files, lock, marker, plan, receipts, audit, writer>>

\* runApplyLocked classifies the lane again and finds what to run: a lane to
\* adopt is adopted first.
BeginLane(o, l) ==
    LET state == Classify(db[l], run[o].manifest)
    IN  /\ \/ At(o, "checked") /\ l \in run[o].todo /\ run[o].challenge[l] = 0
           \/ At(o, "adopted") /\ l = run[o].lane
        /\ state \in {"fresh", "upgrade_pending", "up_to_date"}
        /\ run' = [run EXCEPT ![o].stage = "scripts", ![o].lane = l,
                              ![o].todo = @ \ {l}, ![o].next = FirstPending(db[l])]
        /\ UNCHANGED <<disposable, files, db, lock, marker, plan, receipts, audit, writer>>

\* Mutant: the loop does not stop at the end of the manifest.
RunScript_Endless(o) ==
    LET l == run[o].lane
        k == run[o].next
    IN  /\ At(o, "scripts")
        /\ db' = [db EXCEPT ![l].done = @ \cup {k}]
        /\ Goes(o, "recording")
        /\ UNCHANGED <<disposable, files, lock, marker, plan, receipts, audit, writer>>

\* The script runs as one transaction of its own: over its own result it fails,
\* unless it is written to run again.
RunScript(o) ==
    LET l == run[o].lane
        k == run[o].next
    IN  /\ At(o, "scripts")
        /\ k \in Ordinals
        /\ k \in db[l].done => k \in Rerunnable
        /\ db' = [db EXCEPT ![l].done = @ \cup {k}]
        /\ Goes(o, "recording")
        /\ UNCHANGED <<disposable, files, lock, marker, plan, receipts, audit, writer>>

\* Only then, in a statement of its own, is its ledger row inserted.
RecordScript(o) ==
    LET l == run[o].lane
        k == run[o].next
    IN  /\ At(o, "recording")
        /\ db[l].ledger[k] = NoRow
        /\ db' = [db EXCEPT ![l].ledger[k] = run[o].manifest[k]]
        /\ run' = [run EXCEPT ![o].stage = "scripts", ![o].next = k + 1]
        /\ UNCHANGED <<disposable, files, lock, marker, plan, receipts, audit, writer>>

\* runApplyLocked verifies the lane it leaves.
FinishLane(o) ==
    /\ At(o, "scripts")
    /\ run[o].next = NumScripts + 1
    /\ Classify(db[run[o].lane], run[o].manifest) = "up_to_date"
    /\ run' = [run EXCEPT ![o].stage = "checked", ![o].lane = NoLane, ![o].next = 1]
    /\ UNCHANGED <<disposable, files, db, lock, marker, plan, receipts, audit, writer>>

\* All lanes are read again; then the success record is synced to disk.
Succeed(o) ==
    /\ At(o, "checked")
    /\ Official(o)
    /\ run[o].todo = {}
    /\ \A l \in plan[o].lanes : Classify(db[l], plan[o].manifest) = "up_to_date"
    /\ Append(o, "success")
    /\ Goes(o, "audited")
    /\ UNCHANGED <<disposable, files, db, lock, marker, plan, receipts, writer>>

\* releaseOfficialMaintenanceMarker
Unmark(o) ==
    /\ At(o, "audited")
    /\ marker = o
    /\ marker' = NoOp
    /\ Goes(o, "unmarked")
    /\ UNCHANGED <<disposable, files, db, lock, plan, receipts, audit, writer>>

\* Mutant: the marker is removed in a finally, with the lock.
Close_Tidy(o) ==
    /\ ~At(o, "idle")
    /\ lock' = IF lock = o THEN NoOp ELSE lock
    /\ marker' = IF lock = o /\ marker = o THEN NoOp ELSE marker
    /\ run' = [run EXCEPT ![o] = Idle]
    /\ UNCHANGED <<disposable, files, db, plan, receipts, audit, writer>>

\* The process ends and its connection with it, which releases the lock: the
\* end of a command that succeeded, failed or died, wherever it was.
Close(o) ==
    /\ ~At(o, "idle")
    /\ lock' = IF lock = o THEN NoOp ELSE lock
    /\ run' = [run EXCEPT ![o] = Idle]
    /\ UNCHANGED <<disposable, files, db, marker, plan, receipts, audit, writer>>

-----------------------------------------------------------------------------
(* The writers of the application.                                         *)

Moves(w, from, to) ==
    /\ writer[w] = from
    /\ writer' = [writer EXCEPT ![w] = to]
    /\ UNCHANGED <<disposable, files, db, lock, marker, plan, receipts, audit, run>>

Connect(w) == Moves(w, "away", "idle")

\* acquireProjectRagWriteFence: the shared lock of the transaction, tried once ...
TakeFence(w) == lock = NoOp /\ Moves(w, "idle", "fenced")

\* Mutant: the lock alone is asked.
PassMarker_LockOnly(w) == Moves(w, "fenced", "writing")

\* ... then the marker: a writer that finds one gives its transaction up.
PassMarker(w) == marker = NoOp /\ Moves(w, "fenced", "writing")
Refuse(w) == marker # NoOp /\ Moves(w, "fenced", "idle")

EndWrite(w) == Moves(w, "writing", "idle")

Disconnect(w) == \E from \in {"idle", "fenced", "writing"} : Moves(w, from, "away")

-----------------------------------------------------------------------------
Operation(o) ==
    \/ \E L \in LaneChoices : Plan(o, L)
    \/ Backup(o) \/ Drain(o)
    \/ \E mode \in {"apply", "recover"}, prior \in Ops \cup {NoOp} : Start(o, mode, prior)
    \/ \E l \in Lanes, mode \in {"isolated_apply", "isolated_adopt"} :
           StartIsolated(o, l, mode)
    \/ AcquireLock(o) \/ Establish(o) \/ DeclareTakeover(o) \/ TakeOver(o)
    \/ Check(o)
    \/ \E l \in Lanes : Adopt(o, l) \/ BeginLane(o, l)
    \/ RunScript(o) \/ RecordScript(o) \/ FinishLane(o)
    \/ Succeed(o) \/ Unmark(o) \/ Close(o)

Writing(w) ==
    \/ Connect(w) \/ TakeFence(w) \/ PassMarker(w) \/ Refuse(w)
    \/ EndWrite(w) \/ Disconnect(w)

MigNext ==
    \/ \E o \in Ops : Operation(o)
    \/ \E w \in Writers : Writing(w)
    \/ \E k \in Ordinals : EditScript(k)

MigSpec == MigInit /\ [][MigNext]_migVars

-----------------------------------------------------------------------------
(* Properties.                                                             *)

MigrationsTypeOK ==
    /\ disposable \in BOOLEAN
    /\ files \in Manifests
    /\ db \in [Lanes -> Lane]
    /\ lock \in Ops \cup {NoOp}
    /\ marker \in Ops \cup {NoOp}
    /\ plan \in [Ops -> Plans]
    /\ receipts \in [Ops -> SUBSET {"backup", "drain"}]
    /\ audit \in [Ops -> SUBSET {"takeover", "success"}]
    /\ run \in [Ops -> Run]
    /\ writer \in [Writers -> {"away", "idle", "fenced", "writing"}]

\* The ledger never claims a script whose changes are not in the schema, and
\* its rows are a prefix of the manifest, through adoptions, deaths between a
\* script and its row, edits of the files and recoveries (runner.ts:2564).
LedgerTellsTruth ==
    \A l \in Lanes : \E p \in 0 .. NumScripts :
        /\ Recorded(db[l]) = 1 .. p
        /\ 1 .. p \subseteq db[l].done

\* A lane an official operation has yet to touch under the lock is in the very
\* state that was planned, dumped and restored for verification
\* (official.ts:1512): nobody gets between the check and the lane's turn.
MigratesWhatWasPlanned ==
    \A o \in Ops :
        At(o, "checked") /\ Official(o) =>
            \A l \in run[o].todo :
                StatusOf(db[l], plan[o].manifest) = plan[o].status[l]

\* The durable marker is removed only by the operation it names, with its
\* success on record and every lane of its plan migrated and recorded in full
\* (official.ts:1880): no crash, takeover or retry reopens the database
\* to writers half-migrated.
ReopensOnlyWhole ==
    [][marker # NoOp /\ marker' = NoOp =>
         /\ "success" \in audit[marker]
         /\ \A l \in plan[marker].lanes :
              Classify(db[l], plan[marker].manifest) = "up_to_date"]_migVars

\* A marker changes hands only with the takeover on record first
\* (official.ts:1758).
TakeoverOnRecord ==
    [][marker # NoOp /\ marker' \notin {marker, NoOp} => "takeover" \in audit[marker']]_migVars

Fence == INSTANCE MaintenanceFence WITH
    open <- lock = NoOp /\ marker = NoOp,
    inside <- {w \in Writers : writer[w] = "writing"},
    schema <- [l \in Lanes |-> db[l].done]

\* Lock, marker, try-lock and marker read together are the fence: no writer is
\* inside while a script changes the schema, and none enters a database whose
\* migration died (write-fence.ts:46).
RefinesFence == Fence!FenceSpec
=============================================================================
