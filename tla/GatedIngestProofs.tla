-------------------------- MODULE GatedIngestProofs --------------------------
(***************************************************************************)
(* Theorems about ingests, for any numbers of processes, files, snapshots, *)
(* operators and changes of the tree.                                      *)
(*                                                                         *)
(* Every step of an ingest is an operation of the gate or leaves it alone, *)
(* so what SnapshotGateProofs proves of the gate holds of the program.     *)
(* From OneConsumer it then follows that a writer with a live claim writes *)
(* alone: a second writer would need a live claim too, of the same         *)
(* snapshot, and a snapshot is claimed once (Holders).                     *)
(*                                                                         *)
(* Three more invariants carry the remaining properties: what an ingest    *)
(* drops was missed by a complete scan (EvidenceInv), a plan that needs a  *)
(* review is never consumed (GatedInv), and the index is on its way from   *)
(* what was published to what was planned (TrackInv).                      *)
(***************************************************************************)
EXTENDS GatedIngest, SnapshotGateProofs

\* The stages that have a snapshot, and those that have claimed it.
WithSnap == {"prepared", "swept", "claimed", "writing", "stray"}
Held == {"claimed", "writing", "stray"}

HoldsSnap == \A p \in Procs : at[p].stage \in WithSnap => at[p].snap \in Snaps

\* What an action of process p makes of its own record.
Moved(p) ==
  /\ at' \in [Procs -> Ingest]
  /\ \A q \in Procs \ {p} : at'[q] = at[q]
  /\ \/ at'[p].stage \in {"idle", "planned"}
     \/ at'[p].stage = "prepared" /\ at'[p].snap \in Snaps
     \/ at'[p].stage = "swept" /\ at[p].stage = "prepared" /\ at'[p].snap = at[p].snap
     \/ at'[p].stage = "claimed" /\ at[p].stage = "swept" /\ at'[p].snap = at[p].snap
        /\ snap[at[p].snap].status \in Claimables /\ snap'[at[p].snap].status = "CONSUMING"
     \/ at'[p].stage \in Held /\ at[p].stage \in Held /\ at'[p].snap = at[p].snap

-----------------------------------------------------------------------------

LEMMA OutIsIngest == Out \in Ingest /\ NoPlan \in Plan
<1>1. 0 \in Contents BY IngestAssumption DEF Contents
<1>2. NoPlan \in Plan BY <1>1 DEF NoPlan, Plan, ScanVerdicts, Absent
<1> QED BY <1>2 DEF Out, Start, NoSnap, Ingest, Stages

LEMMA StartIsIngest ==
  ASSUME NEW s \in Snaps
  PROVE  /\ Start("prepared", s) \in Ingest
         /\ Start("prepared", s).stage = "prepared" /\ Start("prepared", s).snap = s
<1>1. "prepared" \in Stages BY DEF Stages
<1> QED BY <1>1, OutIsIngest DEF Start, Ingest

LEMMA ScanIsPlan ==
  ASSUME IngestTypeOK, NEW scope \in Files \cup {Full}
  PROVE  Scan(scope) \in Plan
<1>1. /\ disk \in [Files -> Contents] /\ scan \in ScanVerdicts
      /\ index \in [Files -> FileRow]
  BY DEF IngestTypeOK
<1>2. [f \in Files |-> index[f].hash] \in [Files -> Contents] BY <1>1 DEF FileRow
<1> QED BY <1>1, <1>2 DEF Scan, Plan

\* A process that only moves on keeps the rest of its record.
LEMMA Moving ==
  ASSUME IngestTypeOK, NEW p \in Procs, NEW stage \in Stages, Moves(p, stage)
  PROVE  /\ at' \in [Procs -> Ingest]
         /\ at'[p].stage = stage /\ at'[p].snap = at[p].snap
         /\ at'[p].drop = at[p].drop /\ at'[p].todo = at[p].todo /\ at'[p].plan = at[p].plan
         /\ \A q \in Procs \ {p} : at'[q] = at[q]
<1>1. at \in [Procs -> Ingest] BY DEF IngestTypeOK
<1>2. at[p] \in Ingest BY <1>1
<1> DEFINE to == [stage |-> stage, snap |-> at[p].snap, plan |-> at[p].plan,
                  drop |-> at[p].drop, todo |-> at[p].todo, done |-> at[p].done,
                  errors |-> at[p].errors]
<1>3. [at[p] EXCEPT !.stage = stage] = to BY <1>2 DEF Ingest
<1>4. to \in Ingest BY <1>2 DEF Ingest
<1>5. at' = [at EXCEPT ![p] = to] BY <1>1, <1>3 DEF Moves
<1>6. at'[p] = to BY <1>1, <1>5
<1>7. at' \in [Procs -> Ingest] /\ \A q \in Procs \ {p} : at'[q] = at[q]
  <2> HIDE DEF to
  <2> QED BY <1>1, <1>4, <1>5
<1> QED BY <1>6, <1>7

LEMMA Quitting ==
  ASSUME IngestTypeOK, NEW p \in Procs, Quits(p)
  PROVE  /\ at' \in [Procs -> Ingest] /\ at'[p] = Out
         /\ \A q \in Procs \ {p} : at'[q] = at[q]
<1>1. at \in [Procs -> Ingest] BY DEF IngestTypeOK
<1> QED BY <1>1, OutIsIngest DEF Quits

\* A new record for p.
LEMMA Setting ==
  ASSUME IngestTypeOK, NEW p \in Procs, NEW to \in Ingest, at' = [at EXCEPT ![p] = to]
  PROVE  /\ at' \in [Procs -> Ingest] /\ at'[p] = to
         /\ \A q \in Procs \ {p} : at'[q] = at[q]
<1>1. at \in [Procs -> Ingest] BY DEF IngestTypeOK
<1> QED BY <1>1

-----------------------------------------------------------------------------

SyncStatuses == {"none", "running", "completed", "partial", "failed"}

\* The types of what is neither the gate's nor a process's.
RestTypes ==
  /\ disk \in [Files -> Contents] /\ scan \in ScanVerdicts /\ edits \in 0 .. MaxEdits
  /\ index \in [Files -> FileRow]
  /\ published \in [Files -> Contents]
  /\ plan \in [Snaps -> Plan]
  /\ sync \in [Snaps -> SyncStatuses]

LEMMA RestTyped == IngestTypeOK => RestTypes
  BY DEF IngestTypeOK, RestTypes, SyncStatuses

Stepped(p) == Moved(p) /\ RestTypes' /\ [GateNext]_gateVars

LEMMA PreflightSteps ==
  ASSUME IngestTypeOK, NEW p \in Procs, NEW scope \in Scopes, Preflight(p, scope)
  PROVE  Stepped(p) /\ at'[p].stage = "planned" /\ UNCHANGED <<index, plan>>
<1>1. at \in [Procs -> Ingest] /\ at[p] \in Ingest BY DEF IngestTypeOK
<1>2. scope \in Files \cup {Full} BY IngestAssumption
<1>3. Scan(scope) \in Plan BY <1>2, ScanIsPlan
<1> DEFINE to == [at[p] EXCEPT !.stage = "planned", !.plan = Scan(scope)]
<1>5. at' = [at EXCEPT ![p] = to] BY <1>1 DEF Preflight
<1>6. to \in Ingest BY <1>1, <1>3 DEF Ingest, Stages
<1>7. to.stage = "planned" BY <1>1 DEF Ingest
<1>8. Moved(p) /\ at'[p].stage = "planned"
  <2> HIDE DEF to
  <2> QED BY <1>5, <1>6, <1>7, Setting DEF Moved
<1>9. GateNext BY DEF Preflight, GateNext, Ingests
<1>10. UNCHANGED <<treeVars, index, published, plan, sync>> BY DEF Preflight
<1> QED BY <1>8, <1>9, <1>10, RestTyped DEF Stepped, RestTypes, treeVars

\* The verdict on a plan is one the gate takes.
LEMMA VerdictIs == ASSUME NEW q PROVE Verdict(q) \in Verdicts
  BY DEF Verdict, Verdicts

LEMMA PrepareSteps ==
  ASSUME IngestTypeOK, NEW p \in Procs, Prepare(p)
  PROVE  /\ Stepped(p) /\ at'[p].stage \in {"idle", "prepared"} /\ UNCHANGED index
         /\ \A s \in Snaps : snap[s].status # "absent" => plan'[s] = plan[s]
<1>1. at \in [Procs -> Ingest] /\ at[p] \in Ingest /\ at[p].plan \in Plan
      /\ plan \in [Snaps -> Plan]
  BY DEF IngestTypeOK, Ingest
<1>2. PICK s \in Snaps :
        /\ Insert(s, Verdict(at[p].plan))
        /\ plan' = [plan EXCEPT ![s] = at[p].plan]
        /\ at' = [at EXCEPT ![p] =
             IF Verdict(at[p].plan) = "PREPARED" THEN Start("prepared", s) ELSE Out]
  BY DEF Prepare
<1> DEFINE to == IF Verdict(at[p].plan) = "PREPARED" THEN Start("prepared", s) ELSE Out
<1>5. Out.stage = "idle" BY DEF Out, Start
<1>6. at' = [at EXCEPT ![p] = to] BY <1>2
<1>7. to \in Ingest /\ (to.stage = "idle" \/ (to.stage = "prepared" /\ to.snap \in Snaps))
  BY <1>5, StartIsIngest, OutIsIngest
<1>8. Moved(p) /\ at'[p].stage \in {"idle", "prepared"}
  <2> HIDE DEF to
  <2> QED BY <1>6, <1>7, Setting DEF Moved
<1>9. GateNext BY <1>2, VerdictIs DEF GateNext, Ingests
<1>10. plan' \in [Snaps -> Plan] BY <1>1, <1>2
<1>11. UNCHANGED <<treeVars, index, published, sync>> BY DEF Prepare
<1>12. \A u \in Snaps : snap[u].status # "absent" => plan'[u] = plan[u]
  BY <1>1, <1>2 DEF Insert, NextId
<1> QED BY <1>8, <1>9, <1>10, <1>11, <1>12, RestTyped DEF Stepped, RestTypes, treeVars

LEMMA ResumeSteps ==
  ASSUME IngestTypeOK, NEW p \in Procs, NEW s \in Snaps, Resume(p, s)
  PROVE  Stepped(p) /\ at'[p].stage = "prepared" /\ UNCHANGED <<snap, index, plan>>
<1>4. at' = [at EXCEPT ![p] = Start("prepared", s)] BY DEF Resume
<1>5. Moved(p) /\ at'[p].stage = "prepared" BY <1>4, StartIsIngest, Setting DEF Moved
<1>6. UNCHANGED <<gateVars, treeVars, index, published, plan, sync>> BY DEF Resume
<1> QED BY <1>5, <1>6, RestTyped DEF Stepped, RestTypes, treeVars, gateVars

LEMMA SweepAgainSteps ==
  ASSUME IngestTypeOK, NEW p \in Procs, SweepAgain(p)
  PROVE  Stepped(p) /\ at'[p].stage = "swept" /\ UNCHANGED <<index, plan>>
<1>1. Moves(p, "swept") /\ at[p].stage = "prepared" BY DEF SweepAgain, Stage
<1>2. "swept" \in Stages BY DEF Stages
<1>3. Moved(p) /\ at'[p].stage = "swept" BY <1>1, <1>2, Moving DEF Moved
<1>4. GateNext BY DEF SweepAgain, GateNext, Ingests
<1>5. UNCHANGED <<treeVars, index, published, plan, sync>> BY DEF SweepAgain
<1> QED BY <1>3, <1>4, <1>5, RestTyped DEF Stepped, RestTypes, treeVars

LEMMA ClaimSteps ==
  ASSUME IngestTypeOK, HoldsSnap, NEW p \in Procs, ClaimSnapshot(p)
  PROVE  Stepped(p) /\ at'[p].stage = "claimed" /\ UNCHANGED <<index, plan>>
<1>1. Moves(p, "claimed") /\ at[p].stage = "swept" BY DEF ClaimSnapshot, Stage
<1>2. "claimed" \in Stages BY DEF Stages
<1>3. at[p].snap \in Snaps BY <1>1 DEF HoldsSnap, WithSnap
<1>4. NeedsReview(plan[Snap(p)]) \in BOOLEAN BY DEF NeedsReview
<1>5. Claim(at[p].snap, NeedsReview(plan[Snap(p)])) BY DEF ClaimSnapshot, Snap
<1>6. GateNext BY <1>3, <1>4, <1>5 DEF GateNext, Ingests
<1>7. UNCHANGED <<treeVars, index, published, plan, sync>> BY DEF ClaimSnapshot
<1>8. GateTypeOK BY DEF IngestTypeOK
<1>9. snap[at[p].snap].status \in Claimables /\ snap'[at[p].snap].status = "CONSUMING"
  BY <1>3, <1>5, <1>8, WithClaim
<1>10. Moved(p) /\ at'[p].stage = "claimed" BY <1>1, <1>2, <1>9, Moving DEF Moved
<1> QED BY <1>6, <1>7, <1>10, RestTyped DEF Stepped, RestTypes, treeVars

LEMMA QuietSteps ==
  ASSUME IngestTypeOK, NEW p \in Procs, ClaimRefused(p) \/ Leave(p)
  PROVE  Stepped(p) /\ at'[p].stage = "idle" /\ UNCHANGED <<snap, index, plan>>
<1>1. Quits(p) /\ UNCHANGED <<gateVars, treeVars, index, published, plan, sync>>
  BY DEF ClaimRefused, Leave
<1>2. Moved(p) /\ at'[p].stage = "idle" BY <1>1, Quitting DEF Moved, Out, Start
<1> QED BY <1>1, <1>2, RestTyped DEF Stepped, RestTypes, treeVars, gateVars

-----------------------------------------------------------------------------

\* A process that holds a snapshot holds one of Snaps.
LEMMA HeldSnap ==
  ASSUME HoldsSnap, NEW p \in Procs, at[p].stage \in Held
  PROVE  at[p].snap \in Snaps
  BY DEF HoldsSnap, WithSnap, Held

LEMMA RefuseSteps ==
  ASSUME IngestTypeOK, HoldsSnap, NEW p \in Procs, Refuse(p) \/ Throws(p)
  PROVE  /\ Stepped(p) /\ at'[p].stage = "idle" /\ UNCHANGED <<index, plan>>
         /\ at[p].stage = "claimed" /\ Fail(at[p].snap)
<1>1. /\ Quits(p) /\ at[p].stage = "claimed" /\ Fail(at[p].snap)
      /\ UNCHANGED <<treeVars, index, published, plan>>
      /\ sync' = sync \/ sync' = [sync EXCEPT ![at[p].snap] = "running"]
  BY DEF Refuse, Throws, ThrowAtScan, ThrowAtStart, Stage, Snap
<1>2. Moved(p) /\ at'[p].stage = "idle" BY <1>1, Quitting DEF Moved, Out, Start
<1>3. GateNext BY <1>1, HeldSnap DEF GateNext, Ingests, Held
<1>4. sync' \in [Snaps -> SyncStatuses] BY <1>1, RestTyped DEF RestTypes, SyncStatuses
<1> QED BY <1>1, <1>2, <1>3, <1>4, RestTyped DEF Stepped, RestTypes, treeVars

LEMMA ProceedSteps ==
  ASSUME IngestTypeOK, HoldsSnap, NEW p \in Procs, Proceed(p)
  PROVE  /\ Stepped(p) /\ at'[p].stage = "writing" /\ UNCHANGED <<snap, index, plan>>
         /\ at[p].stage = "claimed" /\ at'[p].snap = at[p].snap /\ Fence(p)
         /\ at'[p].drop = Deletes(plan[at[p].snap])
         /\ at'[p].todo = Stale(plan[at[p].snap]) \ Recoverable(plan[at[p].snap])
         /\ at'[p].done = Recoverable(plan[at[p].snap])
         /\ Scan(plan[at[p].snap].scope) = plan[at[p].snap]
<1> DEFINE q == plan[at[p].snap]
           to == [at[p] EXCEPT !.stage = "writing", !.drop = Deletes(q),
                    !.todo = Stale(q) \ Recoverable(q), !.done = Recoverable(q)]
<1>1. /\ at \in [Procs -> Ingest] /\ at[p] \in Ingest
      /\ plan \in [Snaps -> Plan] /\ sync \in [Snaps -> SyncStatuses]
  BY DEF IngestTypeOK, SyncStatuses
<1>2. /\ at[p].stage = "claimed" /\ Fence(p) /\ Scan(q.scope) = q
      /\ at' = [at EXCEPT ![p].stage = "writing", ![p].drop = Deletes(q),
           ![p].todo = Stale(q) \ Recoverable(q), ![p].done = Recoverable(q)]
      /\ sync' = [sync EXCEPT ![at[p].snap] = "running"]
      /\ UNCHANGED <<gateVars, treeVars, index, published, plan>>
  BY DEF Proceed, Confirmed, Stage, Snap
<1>3. at[p].snap \in Snaps BY <1>2, HeldSnap DEF Held
<1>4. q \in Plan BY <1>1, <1>3
<1>5. q.scope \in Files \cup {Full} BY <1>4 DEF Plan
<1>6. /\ Deletes(q) \in SUBSET Files /\ Stale(q) \in SUBSET Files
      /\ Recoverable(q) \in SUBSET Files
  BY <1>5 DEF Deletes, Stale, Recoverable
<1>7. to \in Ingest
  <2>1. "writing" \in Stages BY DEF Stages
  <2> HIDE DEF q
  <2> QED BY <1>1, <1>6, <2>1 DEF Ingest
<1>8. /\ to.stage = "writing" /\ to.snap = at[p].snap /\ to.drop = Deletes(q)
      /\ to.todo = Stale(q) \ Recoverable(q) /\ to.done = Recoverable(q)
  <2> HIDE DEF q
  <2> QED BY <1>1 DEF Ingest
<1>9. at' = [at EXCEPT ![p] = to] BY <1>1, <1>2
<1>10. at' \in [Procs -> Ingest] /\ at'[p] = to /\ \A r \in Procs \ {p} : at'[r] = at[r]
  <2> HIDE DEF to
  <2> QED BY <1>7, <1>9, Setting
<1>11. Moved(p) BY <1>2, <1>8, <1>10 DEF Moved, Held
<1>12. sync' \in [Snaps -> SyncStatuses] BY <1>1, <1>2 DEF SyncStatuses
<1>13. Stepped(p) BY <1>2, <1>11, <1>12, RestTyped DEF Stepped, RestTypes, treeVars
<1>14. UNCHANGED <<snap, index, plan>> BY <1>2 DEF gateVars
<1> QED BY <1>2, <1>8, <1>10, <1>13, <1>14

LEMMA DeleteSteps ==
  ASSUME IngestTypeOK, HoldsSnap, NEW p \in Procs, NEW f \in Files, Delete(p, f)
  PROVE  /\ Stepped(p) /\ at'[p].stage = "writing" /\ UNCHANGED <<snap, plan>>
         /\ at[p].stage = "writing" /\ at'[p].snap = at[p].snap /\ Fence(p)
         /\ f \in at[p].drop /\ at'[p].drop = at[p].drop \ {f}
         /\ at'[p].todo = at[p].todo /\ at'[p].done = at[p].done
         /\ at'[p].errors = at[p].errors
         /\ index' = [index EXCEPT ![f].hash = Absent]
<1> DEFINE to == [at[p] EXCEPT !.drop = at[p].drop \ {f}]
<1>1. /\ at \in [Procs -> Ingest] /\ at[p] \in Ingest /\ index \in [Files -> FileRow]
      /\ index[f] \in FileRow
  BY DEF IngestTypeOK
<1>2. /\ at[p].stage = "writing" /\ Fence(p) /\ f \in at[p].drop
      /\ at' = [at EXCEPT ![p].drop = at[p].drop \ {f}]
      /\ index' = [index EXCEPT ![f].hash = Absent]
      /\ UNCHANGED <<gateVars, treeVars, published, plan, sync>>
  BY <1>1 DEF Delete, Stage
<1>3. to \in Ingest BY <1>1 DEF Ingest
<1>4. /\ to.stage = "writing" /\ to.snap = at[p].snap /\ to.drop = at[p].drop \ {f}
      /\ to.todo = at[p].todo /\ to.done = at[p].done /\ to.errors = at[p].errors
  BY <1>1, <1>2 DEF Ingest
<1>5. at' = [at EXCEPT ![p] = to] BY <1>1, <1>2
<1>6. at' \in [Procs -> Ingest] /\ at'[p] = to /\ \A r \in Procs \ {p} : at'[r] = at[r]
  <2> HIDE DEF to
  <2> QED BY <1>3, <1>5, Setting
<1>7. Moved(p) BY <1>2, <1>4, <1>6 DEF Moved, Held
<1>8. 0 \in Contents BY IngestAssumption DEF Contents
<1>9. [index[f] EXCEPT !.hash = 0] \in FileRow BY <1>1, <1>8 DEF FileRow
<1>10. index' \in [Files -> FileRow] BY <1>1, <1>2, <1>9 DEF Absent
<1>11. Stepped(p) BY <1>2, <1>7, <1>10, RestTyped DEF Stepped, RestTypes, treeVars
<1>12. UNCHANGED <<snap, plan>> BY <1>2 DEF gateVars
<1> QED BY <1>2, <1>4, <1>6, <1>11, <1>12

LEMMA UpsertSteps ==
  ASSUME IngestTypeOK, HoldsSnap, NEW p \in Procs, NEW f \in Files, Upsert(p, f)
  PROVE  /\ Stepped(p) /\ at'[p].stage = at[p].stage /\ UNCHANGED <<snap, plan>>
         /\ at[p].stage \in Held /\ at'[p].snap = at[p].snap /\ Fence(p)
         /\ f \in at[p].todo /\ at'[p].todo = at[p].todo \ {f}
         /\ at'[p].drop = at[p].drop /\ at'[p].done = at[p].done \cup {f}
         /\ at'[p].errors = at[p].errors /\ index'[f].active = index[f].active
         /\ index'[f].hash = plan[at[p].snap].disk[f] /\ index'[f].latest = "pending"
         /\ \A g \in Files \ {f} : index'[g] = index[g]
<1> DEFINE to == [at[p] EXCEPT !.todo = at[p].todo \ {f}, !.done = at[p].done \cup {f}]
           new == plan[at[p].snap].disk[f]
           row == [index[f] EXCEPT !.hash = new, !.latest = "pending"]
<1>1. /\ at \in [Procs -> Ingest] /\ at[p] \in Ingest /\ index \in [Files -> FileRow]
      /\ index[f] \in FileRow /\ plan \in [Snaps -> Plan]
  BY DEF IngestTypeOK
<1>2. /\ at[p].stage \in {"writing", "stray"} /\ Fence(p) /\ f \in at[p].todo
      /\ at' = [at EXCEPT ![p].todo = at[p].todo \ {f}, ![p].done = at[p].done \cup {f}]
      /\ index' = [index EXCEPT ![f].hash = new, ![f].latest = "pending"]
      /\ UNCHANGED <<gateVars, treeVars, published, plan, sync>>
  BY <1>1 DEF Upsert, MayWrite, Snap
<1>3. to \in Ingest BY <1>1 DEF Ingest
<1>4. /\ to.stage = at[p].stage /\ to.snap = at[p].snap /\ to.drop = at[p].drop
      /\ to.todo = at[p].todo \ {f} /\ to.done = at[p].done \cup {f}
      /\ to.errors = at[p].errors
  BY <1>1 DEF Ingest
<1>5. at' = [at EXCEPT ![p] = to] BY <1>1, <1>2
<1>6. at' \in [Procs -> Ingest] /\ at'[p] = to /\ \A r \in Procs \ {p} : at'[r] = at[r]
  <2> HIDE DEF to
  <2> QED BY <1>3, <1>5, Setting
<1>7. Moved(p) BY <1>2, <1>4, <1>6 DEF Moved, Held
<1>8. at[p].snap \in Snaps BY <1>2, HeldSnap DEF Held
<1>9. new \in Contents BY <1>1, <1>8 DEF Plan
<1>10. row \in FileRow /\ row.hash = new /\ row.latest = "pending" /\ row.active = index[f].active
  <2> HIDE DEF new
  <2> QED BY <1>1, <1>9 DEF FileRow
<1>12. index' = [index EXCEPT ![f] = row] BY <1>1, <1>2
<1>13. index' \in [Files -> FileRow] /\ index'[f] = row /\ \A g \in Files \ {f} : index'[g] = index[g]
  <2> HIDE DEF row
  <2> QED BY <1>1, <1>10, <1>12
<1>14. Stepped(p) BY <1>2, <1>7, <1>13, RestTyped DEF Stepped, RestTypes, treeVars
<1>15. UNCHANGED <<snap, plan>> BY <1>2 DEF gateVars
<1>16. at[p].stage \in Held BY <1>2 DEF Held
<1> QED BY <1>2, <1>4, <1>6, <1>10, <1>13, <1>14, <1>15, <1>16

LEMMA UpsertFailsSteps ==
  ASSUME IngestTypeOK, HoldsSnap, NEW p \in Procs, NEW f \in Files, UpsertFails(p, f)
  PROVE  /\ Stepped(p) /\ at'[p].stage = at[p].stage /\ UNCHANGED <<snap, plan>>
         /\ at[p].stage \in Held /\ at'[p].snap = at[p].snap /\ Fence(p)
         /\ f \in at[p].todo /\ at'[p].todo = at[p].todo \ {f}
         /\ at'[p].drop = at[p].drop /\ at'[p].done = at[p].done
         /\ at'[p].errors /\ index'[f].active = index[f].active
         /\ index'[f].hash = plan[at[p].snap].disk[f] /\ index'[f].latest = "failed"
         /\ \A g \in Files \ {f} : index'[g] = index[g]
<1> DEFINE to == [at[p] EXCEPT !.todo = at[p].todo \ {f}, !.errors = TRUE]
           new == plan[at[p].snap].disk[f]
           row == [index[f] EXCEPT !.hash = new, !.latest = "failed"]
<1>1. /\ at \in [Procs -> Ingest] /\ at[p] \in Ingest /\ index \in [Files -> FileRow]
      /\ index[f] \in FileRow /\ plan \in [Snaps -> Plan]
  BY DEF IngestTypeOK
<1>2. /\ at[p].stage \in {"writing", "stray"} /\ Fence(p) /\ f \in at[p].todo
      /\ at' = [at EXCEPT ![p].todo = at[p].todo \ {f}, ![p].errors = TRUE]
      /\ index' = [index EXCEPT ![f].hash = new, ![f].latest = "failed"]
      /\ UNCHANGED <<gateVars, treeVars, published, plan, sync>>
  BY <1>1 DEF UpsertFails, MayWrite, Snap
<1>3. to \in Ingest BY <1>1 DEF Ingest
<1>4. /\ to.stage = at[p].stage /\ to.snap = at[p].snap /\ to.drop = at[p].drop
      /\ to.todo = at[p].todo \ {f} /\ to.done = at[p].done /\ to.errors
  BY <1>1 DEF Ingest
<1>5. at' = [at EXCEPT ![p] = to] BY <1>1, <1>2
<1>6. at' \in [Procs -> Ingest] /\ at'[p] = to /\ \A r \in Procs \ {p} : at'[r] = at[r]
  <2> HIDE DEF to
  <2> QED BY <1>3, <1>5, Setting
<1>7. Moved(p) BY <1>2, <1>4, <1>6 DEF Moved, Held
<1>8. at[p].snap \in Snaps BY <1>2, HeldSnap DEF Held
<1>9. new \in Contents BY <1>1, <1>8 DEF Plan
<1>10. row \in FileRow /\ row.hash = new /\ row.latest = "failed" /\ row.active = index[f].active
  <2> HIDE DEF new
  <2> QED BY <1>1, <1>9 DEF FileRow
<1>12. index' = [index EXCEPT ![f] = row] BY <1>1, <1>2
<1>13. index' \in [Files -> FileRow] /\ index'[f] = row /\ \A g \in Files \ {f} : index'[g] = index[g]
  <2> HIDE DEF row
  <2> QED BY <1>1, <1>10, <1>12
<1>14. Stepped(p) BY <1>2, <1>7, <1>13, RestTyped DEF Stepped, RestTypes, treeVars
<1>15. UNCHANGED <<snap, plan>> BY <1>2 DEF gateVars
<1>16. at[p].stage \in Held BY <1>2 DEF Held
<1> QED BY <1>2, <1>4, <1>6, <1>10, <1>13, <1>14, <1>15, <1>16

LEMMA FileErrorSteps ==
  ASSUME IngestTypeOK, NEW p \in Procs, NEW f \in Files, FileError(p, f)
  PROVE  /\ Stepped(p) /\ at'[p].stage = "writing" /\ UNCHANGED <<snap, plan, index>>
         /\ at[p].stage = "writing" /\ at'[p].snap = at[p].snap
         /\ at'[p].todo = at[p].todo \ {f}
         /\ at'[p].drop = at[p].drop /\ at'[p].done = at[p].done /\ at'[p].errors
<1> DEFINE to == [at[p] EXCEPT !.todo = at[p].todo \ {f}, !.errors = TRUE]
<1>1. at \in [Procs -> Ingest] /\ at[p] \in Ingest BY DEF IngestTypeOK
<1>2. /\ at[p].stage = "writing"
      /\ at' = [at EXCEPT ![p].todo = at[p].todo \ {f}, ![p].errors = TRUE]
      /\ UNCHANGED <<gateVars, treeVars, index, published, plan, sync>>
  BY <1>1 DEF FileError, Stage
<1>3. to \in Ingest BY <1>1 DEF Ingest
<1>4. /\ to.stage = at[p].stage /\ to.snap = at[p].snap /\ to.drop = at[p].drop
      /\ to.todo = at[p].todo \ {f} /\ to.done = at[p].done /\ to.errors
  BY <1>1 DEF Ingest
<1>5. at' = [at EXCEPT ![p] = to] BY <1>1, <1>2
<1>6. at' \in [Procs -> Ingest] /\ at'[p] = to /\ \A r \in Procs \ {p} : at'[r] = at[r]
  <2> HIDE DEF to
  <2> QED BY <1>3, <1>5, Setting
<1>7. Moved(p) BY <1>2, <1>4, <1>6 DEF Moved, Held
<1>8. Stepped(p) BY <1>2, <1>7, RestTyped DEF Stepped, RestTypes, treeVars, gateVars
<1>9. UNCHANGED <<snap, plan, index>> BY <1>2 DEF gateVars
<1> QED BY <1>2, <1>4, <1>6, <1>8, <1>9

LEMMA PromoteSteps ==
  ASSUME IngestTypeOK, NEW p \in Procs, NEW embedded \in SUBSET Files, Promote(p, embedded)
  PROVE  /\ Stepped(p) /\ at'[p].stage = "writing" /\ UNCHANGED <<snap, plan>>
         /\ at[p].stage = "writing" /\ at'[p].snap = at[p].snap /\ Fence(p)
         /\ at'[p].drop = {} /\ at'[p].todo = {} /\ at'[p].done = {}
         /\ ~at'[p].errors => ~at[p].errors /\ embedded = at[p].done
         /\ at[p].drop = {} /\ at[p].todo = {} /\ embedded \subseteq at[p].done
         /\ \A f \in Files :
              /\ index'[f].hash = index[f].hash
              /\ IF f \in embedded /\ index[f].latest = "pending"
                   THEN index'[f].latest = "ready" /\ index'[f].active = index[f].hash
                   ELSE index'[f] = index[f]
<1> DEFINE to == [at[p] EXCEPT !.done = {}, !.errors = at[p].errors \/ embedded # at[p].done]
           row(f) == IF f \in embedded /\ index[f].latest = "pending"
                     THEN [hash |-> index[f].hash, latest |-> "ready", active |-> index[f].hash]
                     ELSE index[f]
<1>1. at \in [Procs -> Ingest] /\ at[p] \in Ingest /\ index \in [Files -> FileRow]
  BY DEF IngestTypeOK
<1>2. /\ at[p].stage = "writing" /\ Fence(p) /\ at[p].drop = {} /\ at[p].todo = {}
      /\ embedded \subseteq at[p].done
      /\ at' = [at EXCEPT ![p].done = {}, ![p].errors = at[p].errors \/ embedded # at[p].done]
      /\ index' = [f \in Files |-> row(f)]
      /\ UNCHANGED <<gateVars, treeVars, published, plan, sync>>
  BY <1>1 DEF Promote, Stage
<1>3. (at[p].errors \/ embedded # at[p].done) \in BOOLEAN OBVIOUS
<1>4. /\ to \in Ingest
      /\ to.stage = at[p].stage /\ to.snap = at[p].snap /\ to.drop = at[p].drop
      /\ to.todo = at[p].todo /\ to.done = {}
      /\ ~to.errors => ~at[p].errors /\ embedded = at[p].done
  <2> DEFINE e == at[p].errors \/ embedded # at[p].done
  <2>1. e \in BOOLEAN BY <1>3
  <2>2. ~e => ~at[p].errors /\ embedded = at[p].done OBVIOUS
  <2>3. to = [at[p] EXCEPT !.done = {}, !.errors = e] OBVIOUS
  <2> HIDE DEF e
  <2>4. to.errors = e BY <1>1, <2>3 DEF Ingest
  <2> QED BY <1>1, <2>1, <2>2, <2>3, <2>4 DEF Ingest
<1>5. at' = [at EXCEPT ![p] = to] BY <1>1, <1>2, Zenon
<1>6. at' \in [Procs -> Ingest] /\ at'[p] = to /\ \A r \in Procs \ {p} : at'[r] = at[r]
  <2> HIDE DEF to
  <2> QED BY <1>4, <1>5, Setting
<1>7. Moved(p) BY <1>2, <1>4, <1>6 DEF Moved, Held
<1>8. ASSUME NEW f \in Files
      PROVE  /\ row(f) \in FileRow /\ row(f).hash = index[f].hash
             /\ IF f \in embedded /\ index[f].latest = "pending"
                  THEN row(f).latest = "ready" /\ row(f).active = index[f].hash
                  ELSE row(f) = index[f]
  BY <1>1 DEF FileRow
<1>9. /\ index' \in [Files -> FileRow]
      /\ \A f \in Files :
           /\ index'[f].hash = index[f].hash
           /\ IF f \in embedded /\ index[f].latest = "pending"
                THEN index'[f].latest = "ready" /\ index'[f].active = index[f].hash
                ELSE index'[f] = index[f]
  <2> HIDE DEF row
  <2> QED BY <1>2, <1>8
<1>10. Stepped(p) BY <1>2, <1>7, <1>9, RestTyped DEF Stepped, RestTypes, treeVars, gateVars
<1>11. UNCHANGED <<snap, plan>> BY <1>2 DEF gateVars
<1> QED BY <1>2, <1>4, <1>6, <1>9, <1>10, <1>11

LEMMA ClosingSteps ==
  ASSUME IngestTypeOK, HoldsSnap, NEW p \in Procs, Complete(p) \/ Partial(p) \/ Abort(p)
  PROVE  /\ Stepped(p) /\ at'[p].stage \in {"idle", "stray"} /\ UNCHANGED <<index, plan>>
<1>1. /\ at[p].stage = "writing"
      /\ UNCHANGED <<treeVars, index, plan>>
  BY DEF Complete, Partial, Abort, Applied, Stage
<1>2. at[p].snap \in Snaps BY <1>1, HeldSnap DEF Held
<1>3. Quits(p) \/ Moves(p, "stray") BY DEF Complete, Partial, Abort
<1>4. "stray" \in Stages BY DEF Stages
<1>5. Moved(p) /\ at'[p].stage \in {"idle", "stray"}
  BY <1>1, <1>3, <1>4, Quitting, Moving DEF Moved, Out, Start, Held
<1>6. Consume(at[p].snap) \/ Fail(at[p].snap) \/ UNCHANGED gateVars
  BY DEF Complete, Partial, Abort, Snap
<1>7. [GateNext]_gateVars BY <1>2, <1>6 DEF GateNext, Ingests
<1>8. Build \in [Files -> Contents]
  <2>1. index \in [Files -> FileRow] BY DEF IngestTypeOK
  <2>2. Absent \in Contents BY IngestAssumption DEF Contents, Absent
  <2> QED BY <2>1, <2>2 DEF Build, FileRow
<1>9. published' = Build \/ UNCHANGED published BY DEF Complete, Partial, Abort
<1>10. published' \in [Files -> Contents] BY <1>8, <1>9, RestTyped DEF RestTypes
<1>11. \/ UNCHANGED sync
       \/ \E x \in SyncStatuses : sync' = [sync EXCEPT ![at[p].snap] = x]
  BY DEF Complete, Partial, Abort, SyncStatuses, Snap
<1>12. sync' \in [Snaps -> SyncStatuses] BY <1>11, RestTyped DEF RestTypes
<1>13. Stepped(p) BY <1>1, <1>5, <1>7, <1>10, <1>12, RestTyped DEF Stepped, RestTypes, treeVars
<1> QED BY <1>1, <1>5, <1>13

LEMMA WorldSteps ==
  ASSUME IngestTypeOK, World
  PROVE  RestTypes' /\ [GateNext]_gateVars /\ UNCHANGED <<at, index, plan>>
<1>1. ASSUME NEW f \in Files, NEW content \in Contents, Edit(f, content)
      PROVE  RestTypes' /\ [GateNext]_gateVars /\ UNCHANGED <<at, index, plan>>
  <2>1. disk' \in [Files -> Contents] /\ edits' \in 0 .. MaxEdits
    BY <1>1, IngestAssumption, RestTyped DEF Edit, RestTypes
  <2> QED BY <1>1, <2>1, RestTyped DEF Edit, RestTypes
<1>2. ASSUME NEW verdict \in ScanVerdicts, ScanChanges(verdict)
      PROVE  RestTypes' /\ [GateNext]_gateVars /\ UNCHANGED <<at, index, plan>>
  <2>1. edits' \in 0 .. MaxEdits
    BY <1>2, IngestAssumption, RestTyped DEF ScanChanges, RestTypes
  <2> QED BY <1>2, <2>1, RestTyped DEF ScanChanges, RestTypes
<1>3. CASE (Ages \/ \E o \in Operators : Operates(o)) /\ UNCHANGED ingestVars
  BY <1>3, RestTyped DEF GateNext, ingestVars, treeVars, RestTypes
<1> QED BY <1>1, <1>2, <1>3 DEF World

-----------------------------------------------------------------------------

\* A step of a process changes its record, and the rest within the types.
LEMMA ProcessSteps ==
  ASSUME IngestTypeOK, HoldsSnap, NEW p \in Procs, UpToClaim(p) \/ UnderClaim(p) \/ Leave(p)
  PROVE  Stepped(p)
<1>1. CASE UpToClaim(p)
  BY <1>1, PreflightSteps, PrepareSteps, ResumeSteps, SweepAgainSteps, ClaimSteps, QuietSteps
     DEF UpToClaim
<1>2. CASE UnderClaim(p)
  <2>1. ASSUME NEW f \in Files, Delete(p, f) \/ Upsert(p, f) \/ UpsertFails(p, f) \/ FileError(p, f)
        PROVE  Stepped(p)
    BY <2>1, DeleteSteps, UpsertSteps, UpsertFailsSteps, FileErrorSteps
  <2>2. CASE Refuse(p) \/ Throws(p) \/ Proceed(p) \/ Complete(p) \/ Partial(p) \/ Abort(p)
    BY <2>2, RefuseSteps, ProceedSteps, ClosingSteps
  <2>3. ASSUME NEW embedded \in SUBSET Files, Promote(p, embedded) PROVE Stepped(p)
    BY <2>3, PromoteSteps
  <2> QED BY <1>2, <2>1, <2>2, <2>3 DEF UnderClaim
<1>3. CASE Leave(p) BY <1>3, QuietSteps
<1> QED BY <1>1, <1>2, <1>3

IngestInv == IngestTypeOK /\ HoldsSnap

LEMMA IngestInvInit == IngestInit => IngestInv
<1> SUFFICES ASSUME IngestInit PROVE IngestInv
  OBVIOUS
<1>1. 0 \in Contents /\ 1 \in Contents BY IngestAssumption DEF Contents
<1>2. GateTypeOK BY GateInvInit DEF IngestInit, GateInv
<1>3. /\ disk \in [Files -> Contents] /\ scan \in ScanVerdicts /\ edits \in 0 .. MaxEdits
  BY <1>1, IngestAssumption DEF IngestInit, ScanVerdicts
<1>4. index \in [Files -> FileRow] /\ published \in [Files -> Contents]
  BY <1>1 DEF IngestInit, FileRow, Absent
<1>5. plan \in [Snaps -> Plan] /\ at \in [Procs -> Ingest] BY OutIsIngest DEF IngestInit
<1>6. sync \in [Snaps -> {"none", "running", "completed", "partial", "failed"}]
  BY DEF IngestInit
<1>7. \A p \in Procs : at[p].stage = "idle" BY DEF IngestInit, Out, Start
<1>8. HoldsSnap BY <1>7 DEF HoldsSnap, WithSnap
<1> QED BY <1>2, <1>3, <1>4, <1>5, <1>6, <1>8 DEF IngestInv, IngestTypeOK

\* Every step of the program is one of the gate, or leaves the gate alone.
LEMMA StepsRefine == IngestInv /\ [IngestNext]_vars => [GateNext]_gateVars
<1> SUFFICES ASSUME IngestInv, [IngestNext]_vars PROVE [GateNext]_gateVars
  OBVIOUS
<1>1. CASE UNCHANGED vars BY <1>1 DEF vars
<1> QED BY <1>1, WorldSteps, ProcessSteps DEF IngestInv, IngestNext, Stepped

LEMMA IngestInvStep == IngestInv /\ [IngestNext]_vars => IngestInv'
<1> SUFFICES ASSUME IngestInv, [IngestNext]_vars PROVE IngestInv'
  OBVIOUS
<1>0. IngestTypeOK /\ HoldsSnap /\ at \in [Procs -> Ingest] BY DEF IngestInv, IngestTypeOK
<1>1. GateTypeOK'
  BY StepsRefine, GateSteps DEF IngestInv, IngestTypeOK, RowSteps, RestOK, GateTypeOK, Reviews, Decisions
<1>2. CASE UNCHANGED vars
  BY <1>0, <1>1, <1>2 DEF vars, gateVars, ingestVars, treeVars, IngestInv, IngestTypeOK, HoldsSnap
<1>3. CASE World
  <2>1. RestTypes' /\ UNCHANGED at BY <1>0, <1>3, WorldSteps
  <2> QED BY <1>0, <1>1, <2>1 DEF RestTypes, SyncStatuses, IngestInv, IngestTypeOK, HoldsSnap
<1>4. ASSUME NEW p \in Procs, UpToClaim(p) \/ UnderClaim(p) \/ Leave(p) PROVE IngestInv'
  <2>1. Stepped(p) BY <1>0, <1>4, ProcessSteps
  <2>2. RestTypes' /\ at' \in [Procs -> Ingest] BY <2>1 DEF Stepped, Moved
  <2>3. HoldsSnap' BY <1>0, <2>1 DEF Stepped, Moved, HoldsSnap, WithSnap, Held
  <2> QED BY <1>1, <2>2, <2>3 DEF RestTypes, SyncStatuses, IngestInv, IngestTypeOK
<1> QED BY <1>2, <1>3, <1>4 DEF IngestNext

LEMMA IngestInvariant == IngestSpec => []IngestInv
<1> QED BY IngestInvInit, IngestInvStep, PTL DEF IngestSpec

\* Every variable of the program has its type.
THEOREM IngestsTyped == IngestSpec => []IngestTypeOK
<1>1. IngestInv => IngestTypeOK BY DEF IngestInv
<1> QED BY IngestInvariant, <1>1, PTL

\* The ingest program, run by any number of processes that crash, abort and race
\* with operators, is a client of the gate: its steps are the gate's.
THEOREM IngestsRefineGate == IngestSpec => RefinesGate
<1>1. IngestInit => GateInit BY DEF IngestInit
<1> QED BY <1>1, IngestInvariant, StepsRefine, PTL DEF IngestSpec, GateSpec, RefinesGate

\* So the gate's invariant holds of the program.
LEMMA IngestsKeepGate == IngestSpec => []GateInv
<1> QED BY IngestsRefineGate, GateInvariant, PTL DEF RefinesGate

-----------------------------------------------------------------------------
(* A writer with a live claim writes alone.                                 *)

\* A held snapshot has left the claimable statuses for good, and has one holder.
Holders ==
  /\ \A p \in Procs : at[p].stage \in Held =>
       snap[at[p].snap].status \notin Claimables \cup {"absent"}
  /\ \A p, q \in Procs :
       at[p].stage \in Held /\ at[q].stage \in Held /\ at[p].snap = at[q].snap => p = q

\* The index is what the second scan saw, up to the writes of r itself.
InStep(r) ==
  LET q == plan[at[r].snap] IN
  \A f \in Files :
    /\ f \in at[r].drop => q.disk[f] = Absent /\ index[f].hash = q.base[f]
    /\ f \in at[r].todo => q.disk[f] # Absent /\ f \notin at[r].done /\ index[f].hash = q.base[f]
    /\ f \in at[r].done =>
         q.disk[f] # Absent /\ index[f].hash = q.disk[f] /\ index[f].latest = "pending"
    /\ index[f].hash \in {q.base[f], q.disk[f]}

AllInStep ==
  \A r \in Procs : at[r].stage = "writing" /\ LiveClaim(at[r].snap) => InStep(r)

AloneInv == IngestInv /\ GateInv /\ Holders /\ AllInStep

\* A snapshot that left the claimable statuses does not return, and becomes a
\* live claim only by having been one.
LEMMA NoReturn ==
  ASSUME NEW s \in Snaps, RowStep(s), snap[s].status \notin Claimables \cup {"absent"}
  PROVE  /\ snap'[s].status \notin Claimables \cup {"absent"}
         /\ LiveClaim(s)' => LiveClaim(s)
<1>1. snap'[s].status \notin Claimables \cup {"absent"} BY DEF RowStep, Claimables
<1>2. ASSUME snap'[s].status = "CONSUMING", snap'[s].live PROVE LiveClaim(s)
  <2>1. /\ snap[s].status = "CONSUMING"
        /\ snap'[s].live = snap[s].live \/ LiveClaim(s)
    BY <1>2 DEF RowStep
  <2> QED BY <1>2, <2>1, Zenon DEF LiveClaim
<1> QED BY <1>1, <1>2 DEF LiveClaim

LEMMA HoldersStep == AloneInv /\ [IngestNext]_vars => Holders'
<1> SUFFICES ASSUME AloneInv, [IngestNext]_vars PROVE Holders'
  OBVIOUS
<1>0. IngestTypeOK /\ HoldsSnap /\ Holders /\ IngestInv BY DEF AloneInv, IngestInv
<1>1. \A s \in Snaps : RowStep(s)
  BY <1>0, StepsRefine, GateSteps DEF IngestTypeOK, RowSteps
<1>2. \A p \in Procs : at[p].stage \in Held =>
        snap'[at[p].snap].status \notin Claimables \cup {"absent"}
  BY <1>0, <1>1, NoReturn, HeldSnap DEF Holders
<1>3. CASE UNCHANGED at BY <1>0, <1>2, <1>3 DEF Holders
<1>4. ASSUME NEW p \in Procs, Stepped(p) PROVE Holders'
  <2>1. Moved(p) BY <1>4 DEF Stepped
  <2>2. \A q \in Procs \ {p} : at'[q] = at[q] BY <2>1 DEF Moved
  <2>3. CASE at'[p].stage \notin Held
    BY <1>0, <1>2, <2>2, <2>3 DEF Holders
  <2>4. CASE at[p].stage \in Held /\ at'[p].snap = at[p].snap
    BY <1>0, <1>2, <2>2, <2>4 DEF Holders
  <2>5. CASE /\ at'[p].stage = "claimed" /\ at'[p].snap = at[p].snap
             /\ snap[at[p].snap].status \in Claimables
             /\ snap'[at[p].snap].status = "CONSUMING"
    <3>1. "CONSUMING" \notin Claimables \cup {"absent"} BY DEF Claimables
    <3>2. \A q \in Procs \ {p} : at[q].stage \in Held => at[q].snap # at[p].snap
      BY <1>0, <2>5 DEF Holders
    <3> QED BY <1>0, <1>2, <2>2, <2>5, <3>1, <3>2 DEF Holders
  <2> QED BY <2>1, <2>3, <2>4, <2>5 DEF Moved, Held
<1>5. CASE UNCHANGED vars BY <1>3, <1>5 DEF vars, ingestVars
<1>6. CASE World BY <1>0, <1>3, <1>6, WorldSteps
<1> QED BY <1>0, <1>4, <1>5, <1>6, ProcessSteps DEF IngestNext

\* Who writes under its fence, and who has a live claim, are one process.
LEMMA OneWriter ==
  ASSUME AloneInv, NEW p \in Procs, NEW r \in Procs,
         at[p].stage \in Held, Fence(p), at[r].stage \in Held, LiveClaim(at[r].snap)
  PROVE  r = p
<1>1. HoldsSnap /\ OneConsumer /\ Holders BY DEF AloneInv, IngestInv, GateInv
<1>2. at[p].snap \in Snaps /\ at[r].snap \in Snaps BY <1>1, HeldSnap
<1>3. at[p].snap = at[r].snap BY <1>1, <1>2 DEF OneConsumer, Fence, LiveClaim, Snap
<1> QED BY <1>1, <1>3 DEF Holders

\* A live claim of a writer was one before the step.
LEMMA LiveBefore ==
  ASSUME AloneInv, [IngestNext]_vars, NEW r \in Procs, at[r].stage = "writing",
         LiveClaim(at[r].snap)', at'[r].snap = at[r].snap
  PROVE  /\ LiveClaim(at[r].snap)
         /\ at[r].snap \in Snaps /\ snap[at[r].snap].status # "absent"
<1>1. IngestInv /\ HoldsSnap /\ Holders /\ GateTypeOK
  BY DEF AloneInv, IngestInv, IngestTypeOK
<1>2. at[r].snap \in Snaps BY <1>1, HeldSnap DEF Held
<1>3. RowStep(at[r].snap) BY <1>1, <1>2, StepsRefine, GateSteps DEF RowSteps
<1>4. snap[at[r].snap].status \notin Claimables \cup {"absent"} BY <1>1 DEF Holders, Held
<1> DEFINE s == at[r].snap
<1>5. snap'[s].status = "CONSUMING" /\ snap'[s].live BY DEF LiveClaim
<1> QED BY <1>2, <1>3, <1>4, <1>5, NoReturn DEF LiveClaim

\* A step that leaves r's record and the index alone leaves r in step.
LEMMA Undisturbed ==
  ASSUME AloneInv, [IngestNext]_vars, NEW r \in Procs, at[r].stage = "writing",
         at'[r] = at[r], UNCHANGED index,
         \A s \in Snaps : snap[s].status # "absent" => plan'[s] = plan[s],
         LiveClaim(at[r].snap)'
  PROVE  InStep(r)'
<1>1. LiveClaim(at[r].snap) /\ at[r].snap \in Snaps /\ snap[at[r].snap].status # "absent"
  BY LiveBefore
<1>2. InStep(r) BY <1>1 DEF AloneInv, AllInStep
<1>3. plan'[at[r].snap] = plan[at[r].snap] BY <1>1
<1> QED BY <1>2, <1>3 DEF InStep

\* The ingest that starts to write has just seen the index its plan was made of.
LEMMA ProceedInStep ==
  ASSUME AloneInv, NEW p \in Procs, Proceed(p)
  PROVE  InStep(p)'
<1>0. IngestTypeOK /\ HoldsSnap BY DEF AloneInv, IngestInv
<1> DEFINE q == plan[at[p].snap]
<1>1. /\ at'[p].drop = Deletes(q) /\ at'[p].todo = Stale(q) \ Recoverable(q)
      /\ at'[p].done = Recoverable(q) /\ Scan(q.scope) = q
      /\ at'[p].snap = at[p].snap /\ UNCHANGED <<index, plan>>
  BY <1>0, ProceedSteps
<1>2. q.base = [f \in Files |-> index[f].hash] BY <1>1 DEF Scan
<1>3. \A f \in Files : q.base[f] = index[f].hash BY <1>2
<1>4. \A f \in Deletes(q) : q.disk[f] = Absent BY DEF Deletes
<1>5. \A f \in Stale(q) : q.disk[f] # Absent BY DEF Stale
<1>6. \A f \in Recoverable(q) :
        f \in Stale(q) /\ index[f].hash = q.disk[f] /\ index[f].latest = "pending"
  BY DEF Recoverable
<1>7. plan'[at'[p].snap] = q BY <1>1
<1> HIDE DEF q
<1> QED BY <1>1, <1>3, <1>4, <1>5, <1>6, <1>7 DEF InStep

LEMMA DeleteInStep ==
  ASSUME AloneInv, NEW p \in Procs, NEW f \in Files, Delete(p, f), InStep(p)
  PROVE  InStep(p)'
<1>0. IngestTypeOK /\ HoldsSnap BY DEF AloneInv, IngestInv
<1>1. /\ at'[p].snap = at[p].snap /\ UNCHANGED plan
      /\ f \in at[p].drop /\ at'[p].drop = at[p].drop \ {f}
      /\ at'[p].todo = at[p].todo /\ at'[p].done = at[p].done
      /\ index' = [index EXCEPT ![f].hash = Absent]
  BY <1>0, DeleteSteps
<1>2. index \in [Files -> FileRow] /\ index[f] \in FileRow BY <1>0 DEF IngestTypeOK
<1>3. index'[f].hash = Absent /\ \A g \in Files \ {f} : index'[g] = index[g]
  BY <1>1, <1>2 DEF FileRow
<1> QED BY <1>1, <1>3 DEF InStep

LEMMA WriteInStep ==
  ASSUME AloneInv, NEW p \in Procs, NEW f \in Files, Upsert(p, f) \/ UpsertFails(p, f), InStep(p)
  PROVE  InStep(p)'
<1>0. IngestTypeOK /\ HoldsSnap BY DEF AloneInv, IngestInv
<1>1. at[p].drop = {} BY DEF Upsert, UpsertFails, MayWrite
<1>2. /\ at'[p].snap = at[p].snap /\ UNCHANGED plan /\ at'[p].drop = at[p].drop
      /\ f \in at[p].todo /\ at'[p].todo = at[p].todo \ {f}
      /\ index'[f].hash = plan[at[p].snap].disk[f]
      /\ \/ at'[p].done = at[p].done
         \/ at'[p].done = at[p].done \cup {f} /\ index'[f].latest = "pending"
      /\ \A g \in Files \ {f} : index'[g] = index[g]
  BY <1>0, UpsertSteps, UpsertFailsSteps
<1> QED BY <1>1, <1>2 DEF InStep

LEMMA OtherInStep ==
  ASSUME AloneInv, NEW p \in Procs, InStep(p),
         (\E f \in Files : FileError(p, f)) \/ \E embedded \in SUBSET Files : Promote(p, embedded)
  PROVE  InStep(p)'
<1>0. IngestTypeOK /\ HoldsSnap BY DEF AloneInv, IngestInv
<1>1. ASSUME NEW f \in Files, FileError(p, f) PROVE InStep(p)'
  BY <1>0, <1>1, FileErrorSteps DEF InStep
<1>2. ASSUME NEW embedded \in SUBSET Files, Promote(p, embedded) PROVE InStep(p)'
  BY <1>0, <1>2, PromoteSteps DEF InStep
<1> QED BY <1>1, <1>2

\* The steps that write the index, all of them fenced.
WritesIndex(p) ==
  \/ \E f \in Files : Delete(p, f) \/ Upsert(p, f) \/ UpsertFails(p, f)
  \/ \E embedded \in SUBSET Files : Promote(p, embedded)

LEMMA Writes ==
  ASSUME IngestTypeOK, HoldsSnap, NEW p \in Procs, WritesIndex(p)
  PROVE  Fence(p) /\ at[p].stage \in Held /\ UNCHANGED snap
BY DeleteSteps, UpsertSteps, UpsertFailsSteps, PromoteSteps DEF WritesIndex, Held

LEMMA WritesNot ==
  ASSUME IngestTypeOK, HoldsSnap, NEW p \in Procs,
         UpToClaim(p) \/ UnderClaim(p) \/ Leave(p), ~WritesIndex(p)
  PROVE  UNCHANGED index /\ \A s \in Snaps : snap[s].status # "absent" => plan'[s] = plan[s]
<1>1. CASE UpToClaim(p)
  BY <1>1, PreflightSteps, PrepareSteps, ResumeSteps, SweepAgainSteps, ClaimSteps, QuietSteps
     DEF UpToClaim
<1>2. CASE UnderClaim(p)
  BY <1>2, RefuseSteps, ProceedSteps, ClosingSteps, FileErrorSteps DEF UnderClaim, WritesIndex
<1>3. CASE Leave(p) BY <1>3, QuietSteps
<1> QED BY <1>1, <1>2, <1>3

\* A step of p, seen by p itself.
LEMMA OwnStep ==
  ASSUME AloneInv, [IngestNext]_vars, NEW p \in Procs, UpToClaim(p) \/ UnderClaim(p) \/ Leave(p),
         at'[p].stage = "writing", LiveClaim(at[p].snap)'
  PROVE  InStep(p)'
<1>0. IngestTypeOK /\ HoldsSnap /\ AllInStep BY DEF AloneInv, IngestInv
<1>1. CASE Proceed(p) BY <1>1, ProceedInStep
<1>2. CASE \/ \E f \in Files : Delete(p, f) \/ Upsert(p, f) \/ UpsertFails(p, f) \/ FileError(p, f)
           \/ \E embedded \in SUBSET Files : Promote(p, embedded)
  <2>1. /\ at'[p].stage = at[p].stage /\ at'[p].snap = at[p].snap /\ UNCHANGED snap
    BY <1>0, <1>2, DeleteSteps, UpsertSteps, UpsertFailsSteps, FileErrorSteps, PromoteSteps
  <2>2. LiveClaim(at[p].snap) BY <2>1 DEF LiveClaim
  <2>3. InStep(p) BY <1>0, <2>1, <2>2 DEF AllInStep
  <2> QED BY <1>2, <2>3, DeleteInStep, WriteInStep, OtherInStep
<1>3. CASE UpToClaim(p) \/ Leave(p) \/ Refuse(p) \/ Throws(p) \/ Complete(p) \/ Partial(p) \/ Abort(p)
  BY <1>0, <1>3, PreflightSteps, PrepareSteps, ResumeSteps, SweepAgainSteps, ClaimSteps,
     QuietSteps, RefuseSteps, ClosingSteps DEF UpToClaim
<1> QED BY <1>1, <1>2, <1>3 DEF UnderClaim

\* A step of p, seen by another process.
LEMMA OthersStep ==
  ASSUME AloneInv, [IngestNext]_vars, NEW p \in Procs, UpToClaim(p) \/ UnderClaim(p) \/ Leave(p),
         NEW r \in Procs \ {p}, at'[r].stage = "writing", LiveClaim(at[r].snap)'
  PROVE  InStep(r)'
<1>0. IngestTypeOK /\ HoldsSnap BY DEF AloneInv, IngestInv
<1>1. at'[r] = at[r] BY <1>0, ProcessSteps DEF Stepped, Moved
<1>2. CASE WritesIndex(p)
  <2>1. Fence(p) /\ at[p].stage \in Held /\ UNCHANGED snap BY <1>0, <1>2, Writes
  <2>2. LiveClaim(at[r].snap) BY <1>1, <2>1 DEF LiveClaim
  <2>3. at[r].stage \in Held BY <1>1 DEF Held
  <2> QED BY <2>1, <2>2, <2>3, OneWriter
<1>3. CASE ~WritesIndex(p)
  <2>1. UNCHANGED index /\ \A s \in Snaps : snap[s].status # "absent" => plan'[s] = plan[s]
    BY <1>0, <1>3, WritesNot
  <2> QED BY <1>1, <2>1, Undisturbed
<1> QED BY <1>2, <1>3

LEMMA AllInStepStep == AloneInv /\ [IngestNext]_vars => AllInStep'
<1> SUFFICES ASSUME AloneInv, [IngestNext]_vars, NEW r \in Procs,
                    at'[r].stage = "writing", LiveClaim(at[r].snap)'
             PROVE  InStep(r)'
  BY DEF AllInStep
<1>0. IngestTypeOK BY DEF AloneInv, IngestInv
<1>1. CASE UNCHANGED vars
  BY <1>1, Undisturbed DEF vars, ingestVars
<1>2. CASE World
  <2>1. UNCHANGED <<at, index, plan>> BY <1>0, <1>2, WorldSteps
  <2> QED BY <2>1, Undisturbed
<1>3. ASSUME NEW p \in Procs, UpToClaim(p) \/ UnderClaim(p) \/ Leave(p) PROVE InStep(r)'
  BY <1>3, OwnStep, OthersStep
<1> QED BY <1>1, <1>2, <1>3 DEF IngestNext

LEMMA AloneInvInit == IngestInit => AloneInv
<1> SUFFICES ASSUME IngestInit PROVE AloneInv
  OBVIOUS
<1>1. \A p \in Procs : at[p].stage = "idle" BY DEF IngestInit, Out, Start
<1>2. Holders /\ AllInStep BY <1>1 DEF Holders, AllInStep, Held
<1>3. GateInv BY GateInvInit DEF IngestInit
<1> QED BY <1>2, <1>3, IngestInvInit DEF AloneInv

LEMMA AloneInvStep == AloneInv /\ [IngestNext]_vars => AloneInv'
<1> QED BY IngestInvStep, StepsRefine, GateInvStep, HoldersStep, AllInStepStep DEF AloneInv

\* While an ingest with a live claim writes, nobody else does: the index is what
\* its second scan saw, up to its own writes.
THEOREM WritersAlone == IngestSpec => []WriterAlone
<1>1. IngestSpec => []AloneInv BY AloneInvInit, AloneInvStep, PTL DEF IngestSpec
<1>2. AloneInv => WriterAlone
  <2> SUFFICES ASSUME AloneInv, NEW p \in Procs, Stage(p, "writing"), LiveClaim(Snap(p)),
                      NEW f \in Files
               PROVE  LET q == plan[Snap(p)] IN
                      /\ f \in at[p].drop \cup at[p].todo => index[f].hash = q.base[f]
                      /\ f \in at[p].done => index[f].hash = q.disk[f] /\ index[f].latest = "pending"
                      /\ index[f].hash \in {q.base[f], q.disk[f]}
    BY DEF WriterAlone
  <2>1. InStep(p) BY DEF AloneInv, AllInStep, Stage, Snap
  <2> QED BY <2>1 DEF InStep, Snap
<1> QED BY <1>1, <1>2, PTL

-----------------------------------------------------------------------------
(* What the steps make of sync runs.                                        *)

\* What one step of the program may make of the sync run of s: it changes only
\* under a live claim of s, and closes together with the snapshot.
SyncStep(s) ==
  \/ sync'[s] = sync[s]
  \/ /\ LiveClaim(s)
     /\ \/ sync'[s] = "running" /\ (UNCHANGED snap \/ snap'[s].status = "FAILED")
        \/ sync'[s] = "completed" /\ snap'[s].status = "CONSUMED"
        \/ sync'[s] \in {"partial", "failed"} /\ snap'[s].status = "FAILED"

LEMMA SyncMoves ==
  ASSUME IngestTypeOK, HoldsSnap, NEW p \in Procs, UpToClaim(p) \/ UnderClaim(p) \/ Leave(p),
         NEW s \in Snaps
  PROVE  SyncStep(s)
<1>0. GateTypeOK /\ snap \in [Snaps -> SnapRow] /\ sync \in [Snaps -> SyncStatuses]
  BY DEF IngestTypeOK, GateTypeOK, SyncStatuses
<1>1. ASSUME NEW st \in {"CONSUMED", "FAILED"}, at[p].stage \in Held,
             snap' = [snap EXCEPT ![at[p].snap].status = st]
      PROVE  snap'[at[p].snap].status = st
  <2>1. at[p].snap \in Snaps BY <1>1, HeldSnap
  <2>2. st \in SnapStatuses BY DEF SnapStatuses, Ended
  <2> QED BY <1>0, <1>1, <2>1, <2>2, WithStatus
<1>2. CASE Proceed(p)
  BY <1>0, <1>2 DEF Proceed, SyncStep, Fence, Snap, gateVars
<1>3. CASE Complete(p)
  <2>1. /\ at[p].stage = "writing" /\ LiveClaim(at[p].snap)
        /\ snap' = [snap EXCEPT ![at[p].snap].status = "CONSUMED"]
        /\ sync' = [sync EXCEPT ![at[p].snap] = "completed"]
    BY <1>3 DEF Complete, Consume, Applied, Stage, Snap
  <2> QED BY <1>0, <1>1, <2>1 DEF SyncStep, Held
<1>4. CASE Partial(p)
  <2>1. /\ at[p].stage = "writing" /\ LiveClaim(at[p].snap)
        /\ snap' = [snap EXCEPT ![at[p].snap].status = "FAILED"]
        /\ sync' = [sync EXCEPT ![at[p].snap] = "partial"]
    BY <1>4 DEF Partial, Fail, Fence, Applied, Stage, Snap
  <2> QED BY <1>0, <1>1, <2>1 DEF SyncStep, Held
<1>5. CASE Abort(p)
  <2>1. CASE UNCHANGED sync BY <2>1 DEF SyncStep
  <2>2. CASE Fence(p) /\ Fail(at[p].snap) /\ sync' = [sync EXCEPT ![at[p].snap] = "failed"]
    <3>1. /\ at[p].stage = "writing" /\ LiveClaim(at[p].snap)
          /\ snap' = [snap EXCEPT ![at[p].snap].status = "FAILED"]
      BY <1>5, <2>2 DEF Abort, Fail, Fence, Stage, Snap
    <3> QED BY <1>0, <1>1, <2>2, <3>1 DEF SyncStep, Held
  <2> QED BY <1>5, <2>1, <2>2 DEF Abort, Snap
<1>6. CASE UpToClaim(p) \/ Leave(p)
  BY <1>6 DEF UpToClaim, Leave, Preflight, Prepare, Resume, SweepAgain, ClaimSnapshot,
     ClaimRefused, SyncStep
<1>7. CASE Refuse(p) \/ ThrowAtScan(p) BY <1>7 DEF Refuse, ThrowAtScan, SyncStep
<1>10. CASE ThrowAtStart(p)
  <2>1. /\ at[p].stage = "claimed" /\ LiveClaim(at[p].snap)
        /\ snap' = [snap EXCEPT ![at[p].snap].status = "FAILED"]
        /\ sync' = [sync EXCEPT ![at[p].snap] = "running"]
    BY <1>10 DEF ThrowAtStart, Fail, Fence, Stage, Snap
  <2> QED BY <1>0, <1>1, <2>1 DEF SyncStep, Held
<1>8. ASSUME NEW f \in Files, Delete(p, f) \/ Upsert(p, f) \/ UpsertFails(p, f) \/ FileError(p, f)
      PROVE  SyncStep(s)
  BY <1>8 DEF Delete, Upsert, UpsertFails, FileError, SyncStep
<1>9. ASSUME NEW embedded \in SUBSET Files, Promote(p, embedded) PROVE SyncStep(s)
  BY <1>9 DEF Promote, SyncStep
<1> QED BY <1>2, <1>3, <1>4, <1>5, <1>6, <1>7, <1>8, <1>9, <1>10 DEF UnderClaim, Throws

LEMMA WorldKeepsSync == ASSUME World PROVE UNCHANGED sync
BY DEF World, Edit, ScanChanges, ingestVars

LEMMA SyncSteps ==
  ASSUME IngestInv, [IngestNext]_vars, NEW s \in Snaps
  PROVE  SyncStep(s)
<1>1. CASE UNCHANGED vars BY <1>1 DEF vars, ingestVars, SyncStep
<1>2. CASE World BY <1>2, WorldKeepsSync DEF SyncStep
<1> QED BY <1>1, <1>2, SyncMoves DEF IngestNext, IngestInv

\* A snapshot is consumed by the completion of the ingest that holds it, and by
\* nothing else.
LEMMA ConsumptionCompletes ==
  ASSUME IngestInv, [IngestNext]_vars, NEW s \in Snaps,
         snap[s].status # "CONSUMED", snap'[s].status = "CONSUMED"
  PROVE  \E p \in Procs : Complete(p) /\ at[p].stage = "writing" /\ at[p].snap = s
<1>0. IngestTypeOK /\ HoldsSnap /\ GateTypeOK BY DEF IngestInv, IngestTypeOK
<1>1. CASE UNCHANGED vars BY <1>1 DEF vars, gateVars
<1>2. CASE World
  BY <1>0, <1>2, NothingElseConsumes DEF World, Edit, ScanChanges, gateVars
<1>3. ASSUME NEW p \in Procs, UpToClaim(p) \/ UnderClaim(p) \/ Leave(p), ~Complete(p) PROVE FALSE
  <2>1. CASE \E scope \in Scopes : Preflight(p, scope)
    BY <1>0, <2>1, NothingElseConsumes DEF Preflight
  <2>2. CASE Prepare(p)
    <3>1. \E t \in Snaps, verdict \in Verdicts : Insert(t, verdict)
      BY <2>2, VerdictIs DEF Prepare
    <3> QED BY <1>0, <3>1, NothingElseConsumes
  <2>3. CASE SweepAgain(p) BY <1>0, <2>3, NothingElseConsumes DEF SweepAgain
  <2>4. CASE ClaimSnapshot(p)
    <3>1. at[p].snap \in Snaps /\ NeedsReview(plan[at[p].snap]) \in BOOLEAN
      BY <1>0, <2>4 DEF HoldsSnap, WithSnap, ClaimSnapshot, Stage, NeedsReview
    <3>2. Claim(at[p].snap, NeedsReview(plan[at[p].snap])) BY <2>4 DEF ClaimSnapshot, Snap
    <3> QED BY <1>0, <3>1, <3>2, NothingElseConsumes
  <2>5. CASE Refuse(p) \/ Throws(p) \/ Partial(p) \/ (Abort(p) /\ Fence(p))
    <3>1. at[p].stage \in Held /\ Fail(at[p].snap)
      BY <1>0, <2>5, RefuseSteps DEF Partial, Abort, Applied, Stage, Snap, Held
    <3> QED BY <1>0, <3>1, HeldSnap, NothingElseConsumes
  <2>6. CASE (\E t \in Snaps : Resume(p, t)) \/ ClaimRefused(p) \/ Leave(p) \/ Proceed(p)
             \/ (Abort(p) /\ ~Fence(p))
    BY <2>6 DEF Resume, ClaimRefused, Leave, Proceed, Abort, gateVars
  <2>7. CASE \/ \E f \in Files : Delete(p, f) \/ Upsert(p, f) \/ UpsertFails(p, f) \/ FileError(p, f)
             \/ \E embedded \in SUBSET Files : Promote(p, embedded)
    BY <2>7 DEF Delete, Upsert, UpsertFails, FileError, Promote, gateVars
  <2> QED BY <1>3, <2>1, <2>2, <2>3, <2>4, <2>5, <2>6, <2>7 DEF UpToClaim, UnderClaim
<1>4. ASSUME NEW p \in Procs, Complete(p) PROVE at[p].stage = "writing" /\ at[p].snap = s
  <2>1. /\ at[p].stage = "writing" /\ snap' = [snap EXCEPT ![at[p].snap].status = "CONSUMED"]
    BY <1>4 DEF Complete, Consume, Applied, Stage, Snap
  <2>2. at[p].snap \in Snaps BY <1>0, <2>1, HeldSnap DEF Held
  <2>3. "CONSUMED" \in SnapStatuses BY DEF SnapStatuses, Ended
  <2> QED BY <1>0, <2>1, <2>2, <2>3, WithStatus
<1> QED BY <1>1, <1>2, <1>3, <1>4 DEF IngestNext

\* What the gate promises, the running ingests keep: one claim at a time, a current
\* review at the claim of every deletion plan, and no ended snapshot back in play.
THEOREM IngestsKeepTheGate ==
  IngestSpec => []OneConsumer /\ ReviewGates /\ EndedStaysEnded
<1> QED BY IngestsRefineGate, ConsumersExclude, ReviewsGate, EndingsStay, PTL DEF RefinesGate

-----------------------------------------------------------------------------
(* No removal without evidence.  What a search no longer finds was dropped  *)
(* from the index by some ingest, perhaps long before the build that leaves *)
(* it out; so the evidence has to be carried along from the drop on.        *)

Writers == {"writing", "stray"}

\* The snapshots that carry the evidence are not overwritten.
SyncedExist == \A s \in Snaps : sync[s] # "none" => snap[s].status # "absent"

\* A writer drops what its plan deletes, and writes what its scan saw.
Planned(p) ==
  LET q == plan[at[p].snap] IN
  /\ sync[at[p].snap] # "none"
  /\ at[p].drop \subseteq Deletes(q)
  /\ \A f \in at[p].todo : q.disk[f] # Absent

WritersPlanned == \A p \in Procs : at[p].stage \in Writers => Planned(p)

\* An ingest that got to write had a complete scan without f.
Vanished(f) ==
  \E s \in Snaps : sync[s] # "none" /\ plan[s].scan = "complete" /\ plan[s].disk[f] = Absent

\* A published file can leave the next build only because its row was dropped.
DropsEvidenced ==
  \A f \in Files :
    published[f] # Absent => index[f].active # Absent /\ (index[f].hash # Absent \/ Vanished(f))

EvidenceInv == AloneInv /\ SyncedExist /\ WritersPlanned /\ DropsEvidenced

\* The plan of a snapshot in use is frozen.
LEMMA PlansKept ==
  ASSUME IngestInv, [IngestNext]_vars, NEW s \in Snaps, snap[s].status # "absent"
  PROVE  plan'[s] = plan[s]
<1>0. IngestTypeOK /\ HoldsSnap BY DEF IngestInv
<1>1. CASE UNCHANGED vars BY <1>1 DEF vars, ingestVars
<1>2. CASE World BY <1>0, <1>2, WorldSteps
<1>3. ASSUME NEW p \in Procs, UpToClaim(p) \/ UnderClaim(p) \/ Leave(p) PROVE plan'[s] = plan[s]
  <2>1. CASE WritesIndex(p)
    BY <1>0, <2>1, DeleteSteps, UpsertSteps, UpsertFailsSteps, PromoteSteps DEF WritesIndex
  <2>2. CASE ~WritesIndex(p) BY <1>0, <1>3, <2>2, WritesNot
  <2> QED BY <2>1, <2>2
<1> QED BY <1>1, <1>2, <1>3 DEF IngestNext

LEMMA SyncKept ==
  ASSUME IngestInv, [IngestNext]_vars, NEW s \in Snaps, sync[s] # "none"
  PROVE  sync'[s] # "none"
BY SyncSteps DEF SyncStep

LEMMA SyncedExistStep ==
  ASSUME IngestInv, SyncedExist, [IngestNext]_vars
  PROVE  SyncedExist'
<1> SUFFICES ASSUME NEW s \in Snaps, sync'[s] # "none" PROVE snap'[s].status # "absent"
  BY DEF SyncedExist
<1>1. RowStep(s)
  BY StepsRefine, GateSteps DEF IngestInv, IngestTypeOK, RowSteps
<1>2. SyncStep(s) BY SyncSteps
<1>3. snap[s].status # "absent" BY <1>2 DEF SyncedExist, SyncStep, LiveClaim
<1> QED BY <1>1, <1>3 DEF RowStep, Verdicts

\* Evidence, once there, stays.
LEMMA VanishedStays ==
  ASSUME IngestInv, SyncedExist, [IngestNext]_vars, NEW f \in Files, Vanished(f)
  PROVE  Vanished(f)'
<1>1. PICK s \in Snaps :
        sync[s] # "none" /\ plan[s].scan = "complete" /\ plan[s].disk[f] = Absent
  BY DEF Vanished
<1>2. plan'[s] = plan[s] BY <1>1, PlansKept DEF SyncedExist
<1> QED BY <1>1, <1>2, SyncKept DEF Vanished

\* How a process comes to write, and what is left for it to do.
LEMMA WriterSteps ==
  ASSUME IngestTypeOK, HoldsSnap, NEW p \in Procs, UpToClaim(p) \/ UnderClaim(p) \/ Leave(p),
         at'[p].stage \in Writers
  PROVE  /\ at'[p].snap = at[p].snap /\ at[p].stage \in Held
         /\ \/ Proceed(p)
            \/ /\ at[p].stage \in Writers
               /\ at'[p].drop \subseteq at[p].drop /\ at'[p].todo \subseteq at[p].todo
<1> USE DEF Writers
<1>1. CASE Proceed(p) BY <1>1, ProceedSteps DEF Held
<1>2. CASE \/ \E f \in Files : Delete(p, f) \/ Upsert(p, f) \/ UpsertFails(p, f) \/ FileError(p, f)
           \/ \E embedded \in SUBSET Files : Promote(p, embedded)
  BY <1>2, DeleteSteps, UpsertSteps, UpsertFailsSteps, FileErrorSteps, PromoteSteps DEF Held
<1>3. CASE UpToClaim(p) \/ Leave(p) \/ Refuse(p) \/ Throws(p)
  BY <1>3, PreflightSteps, PrepareSteps, ResumeSteps, SweepAgainSteps, ClaimSteps,
     QuietSteps, RefuseSteps DEF UpToClaim
<1>4. CASE Complete(p) \/ Partial(p)
  <2>1. Quits(p) BY <1>4 DEF Complete, Partial
  <2> QED BY <2>1, Quitting DEF Out, Start
<1>5. CASE Abort(p)
  <2>1. Moves(p, "stray") /\ at[p].stage = "writing" BY <1>5 DEF Abort, Stage
  <2>2. "stray" \in Stages BY DEF Stages
  <2> QED BY <2>1, <2>2, Moving DEF Held
<1> QED BY <1>1, <1>2, <1>3, <1>4, <1>5 DEF UnderClaim

LEMMA ProceedPlanned ==
  ASSUME IngestTypeOK, HoldsSnap, NEW p \in Procs, Proceed(p)
  PROVE  Planned(p)'
<1>1. /\ at'[p].snap = at[p].snap /\ UNCHANGED plan /\ at[p].stage = "claimed"
      /\ at'[p].drop = Deletes(plan[at[p].snap])
      /\ at'[p].todo = Stale(plan[at[p].snap]) \ Recoverable(plan[at[p].snap])
  BY ProceedSteps
<1>2. at[p].snap \in Snaps BY <1>1, HeldSnap DEF Held
<1>3. sync' = [sync EXCEPT ![at[p].snap] = "running"] BY DEF Proceed, Snap
<1>4. sync'[at'[p].snap] # "none" BY <1>1, <1>2, <1>3 DEF IngestTypeOK
<1>5. \A f \in Stale(plan[at[p].snap]) : plan[at[p].snap].disk[f] # Absent BY DEF Stale
<1>6. plan'[at'[p].snap] = plan[at[p].snap] BY <1>1
<1> DEFINE q == plan[at[p].snap]
<1>7. Deletes(plan'[at'[p].snap]) = Deletes(q) BY <1>6
<1>8. Deletes(plan[at[p].snap])' = Deletes(plan'[at'[p].snap]) BY DEF Deletes
<1> QED BY <1>1, <1>4, <1>5, <1>6, <1>7, <1>8 DEF Planned

LEMMA WritersPlannedStep ==
  ASSUME AloneInv, WritersPlanned, [IngestNext]_vars
  PROVE  WritersPlanned'
<1> SUFFICES ASSUME NEW r \in Procs, at'[r].stage \in Writers PROVE Planned(r)'
  BY DEF WritersPlanned
<1>0. IngestInv /\ IngestTypeOK /\ HoldsSnap /\ Holders BY DEF AloneInv, IngestInv
<1>1. ASSUME at[r].stage \in Writers, at'[r].snap = at[r].snap,
             at'[r].drop \subseteq at[r].drop, at'[r].todo \subseteq at[r].todo
      PROVE  Planned(r)'
  <2>1. Planned(r) BY <1>1 DEF WritersPlanned
  <2>2. at[r].stage \in Held BY <1>1 DEF Writers, Held
  <2>3. at[r].snap \in Snaps /\ snap[at[r].snap].status # "absent"
    BY <1>0, <2>2, HeldSnap DEF Holders
  <2>4. plan'[at[r].snap] = plan[at[r].snap] BY <1>0, <2>3, PlansKept
  <2>5. sync'[at[r].snap] # "none" BY <1>0, <2>1, <2>3, SyncKept DEF Planned
  <2>6. Deletes(plan[at[r].snap])' = Deletes(plan[at[r].snap]) BY <1>1, <2>4 DEF Deletes
  <2> QED BY <1>1, <2>1, <2>4, <2>5, <2>6 DEF Planned
<1>2. CASE UNCHANGED vars BY <1>1, <1>2 DEF vars, ingestVars
<1>3. CASE World
  <2>1. UNCHANGED at BY <1>0, <1>3, WorldSteps
  <2> QED BY <1>1, <2>1
<1>4. ASSUME NEW p \in Procs, UpToClaim(p) \/ UnderClaim(p) \/ Leave(p) PROVE Planned(r)'
  <2>1. CASE p = r BY <1>0, <1>1, <1>4, <2>1, WriterSteps, ProceedPlanned
  <2>2. CASE p # r
    <3>1. at'[r] = at[r] BY <1>0, <1>4, <2>2, ProcessSteps DEF Stepped, Moved
    <3> QED BY <1>1, <3>1
  <2> QED BY <2>1, <2>2
<1> QED BY <1>2, <1>3, <1>4 DEF IngestNext

\* Nothing but a completion publishes.
LEMMA PublicationCompletes ==
  ASSUME [IngestNext]_vars, published' # published
  PROVE  \E p \in Procs : Complete(p)
<1>1. CASE UNCHANGED vars BY <1>1 DEF vars, ingestVars
<1>2. CASE World BY <1>2 DEF World, Edit, ScanChanges, ingestVars
<1>3. ASSUME NEW p \in Procs, UpToClaim(p) PROVE FALSE
  BY <1>3 DEF UpToClaim, Preflight, Prepare, Resume, SweepAgain, ClaimSnapshot, ClaimRefused
<1>4. ASSUME NEW p \in Procs, UnderClaim(p) PROVE Complete(p)
  BY <1>4 DEF UnderClaim, Refuse, Throws, ThrowAtScan, ThrowAtStart, Proceed, Delete, Upsert,
     UpsertFails, FileError, Promote, Partial, Abort
<1>5. ASSUME NEW p \in Procs, Leave(p) PROVE FALSE BY <1>5 DEF Leave
<1> QED BY <1>1, <1>2, <1>3, <1>4, <1>5 DEF IngestNext

LEMMA WritesEvidenced ==
  ASSUME EvidenceInv, [IngestNext]_vars, NEW p \in Procs, WritesIndex(p),
         NEW f \in Files, published[f] # Absent
  PROVE  index'[f].active # Absent /\ (index'[f].hash # Absent \/ Vanished(f))
<1>0. /\ IngestInv /\ IngestTypeOK /\ HoldsSnap /\ AllInStep
      /\ index[f].active # Absent /\ (index[f].hash # Absent \/ Vanished(f))
      /\ index \in [Files -> FileRow] /\ index[f] \in FileRow
  BY DEF EvidenceInv, AloneInv, IngestInv, DropsEvidenced, IngestTypeOK
<1>1. ASSUME NEW g \in Files, Delete(p, g)
      PROVE  index'[f].active # Absent /\ (index'[f].hash # Absent \/ Vanished(f))
  <2> DEFINE q == plan[at[p].snap]
  <2>1. /\ at[p].stage = "writing" /\ g \in at[p].drop /\ index' = [index EXCEPT ![g].hash = Absent]
    BY <1>0, <1>1, DeleteSteps
  <2>2. CASE f # g BY <1>0, <2>1, <2>2
  <2>3. CASE f = g
    <3>1. Planned(p) BY <2>1 DEF EvidenceInv, WritersPlanned, Writers
    <3>2. sync[at[p].snap] # "none" /\ g \in Deletes(q) BY <2>1, <3>1 DEF Planned
    <3>3. q.scan = "complete" BY <1>1, <3>2 DEF Delete, NeedsReview, Snap
    <3>4. q.disk[g] = Absent BY <3>2 DEF Deletes
    <3>5. at[p].snap \in Snaps BY <1>0, <2>1, HeldSnap DEF Held
    <3>6. Vanished(f) BY <2>3, <3>2, <3>3, <3>4, <3>5 DEF Vanished
    <3>7. index'[f].active = index[f].active BY <1>0, <2>1, <2>3 DEF FileRow
    <3> QED BY <1>0, <3>6, <3>7
  <2> QED BY <2>2, <2>3
<1>2. ASSUME NEW g \in Files, Upsert(p, g) \/ UpsertFails(p, g)
      PROVE  index'[f].active # Absent /\ (index'[f].hash # Absent \/ Vanished(f))
  <2>1. /\ at[p].stage \in Writers /\ g \in at[p].todo
        /\ index'[g].hash = plan[at[p].snap].disk[g] /\ index'[g].active = index[g].active
        /\ \A h \in Files \ {g} : index'[h] = index[h]
    BY <1>0, <1>2, UpsertSteps, UpsertFailsSteps DEF Upsert, UpsertFails, MayWrite, Writers
  <2>2. Planned(p) BY <2>1 DEF EvidenceInv, WritersPlanned
  <2>3. plan[at[p].snap].disk[g] # Absent BY <2>1, <2>2 DEF Planned
  <2> QED BY <1>0, <2>1, <2>3
<1>3. ASSUME NEW embedded \in SUBSET Files, Promote(p, embedded)
      PROVE  index'[f].active # Absent /\ (index'[f].hash # Absent \/ Vanished(f))
  <2>1. /\ at[p].stage = "writing" /\ Fence(p) /\ embedded \subseteq at[p].done
        /\ index'[f].hash = index[f].hash
        /\ IF f \in embedded /\ index[f].latest = "pending"
             THEN index'[f].active = index[f].hash ELSE index'[f] = index[f]
    BY <1>0, <1>3, PromoteSteps
  <2>2. InStep(p) BY <1>0, <2>1 DEF AllInStep, Fence, Snap
  <2>3. f \in embedded => index[f].hash # Absent BY <2>1, <2>2 DEF InStep
  <2> QED BY <1>0, <2>1, <2>3
<1> QED BY <1>1, <1>2, <1>3 DEF WritesIndex

LEMMA DropsEvidencedStep ==
  ASSUME EvidenceInv, [IngestNext]_vars
  PROVE  DropsEvidenced'
<1> SUFFICES ASSUME NEW f \in Files, published'[f] # Absent
             PROVE  index'[f].active # Absent /\ (index'[f].hash # Absent \/ Vanished(f)')
  BY DEF DropsEvidenced
<1>0. IngestInv /\ IngestTypeOK /\ HoldsSnap /\ SyncedExist /\ DropsEvidenced
  BY DEF EvidenceInv, AloneInv, IngestInv
<1>1. Vanished(f) => Vanished(f)' BY <1>0, VanishedStays
<1>2. CASE published' # published
  <2>1. PICK p \in Procs : Complete(p) BY <1>2, PublicationCompletes
  <2>2. published'[f] = (IF index[f].hash # Absent THEN index[f].active ELSE Absent)
    BY <2>1 DEF Complete, Build
  <2>3. UNCHANGED index BY <2>1 DEF Complete
  <2> QED BY <2>2, <2>3
<1>3. CASE published' = published
  <2>1. index[f].active # Absent /\ (index[f].hash # Absent \/ Vanished(f))
    BY <1>0, <1>3 DEF DropsEvidenced
  <2>2. CASE UNCHANGED index BY <1>1, <2>1, <2>2
  <2>3. ASSUME NEW p \in Procs, WritesIndex(p)
        PROVE  index'[f].active # Absent /\ (index'[f].hash # Absent \/ Vanished(f)')
    BY <1>1, <1>3, <2>3, WritesEvidenced
  <2>4. CASE UNCHANGED vars BY <2>2, <2>4 DEF vars, ingestVars
  <2>5. CASE World BY <1>0, <2>2, <2>5, WorldSteps
  <2> QED BY <1>0, <2>2, <2>3, <2>4, <2>5, WritesNot DEF IngestNext
<1> QED BY <1>2, <1>3

LEMMA EvidenceInvInit == IngestInit => EvidenceInv
<1> SUFFICES ASSUME IngestInit PROVE EvidenceInv
  OBVIOUS
<1>1. SyncedExist BY DEF IngestInit, SyncedExist
<1>2. \A p \in Procs : at[p].stage = "idle" BY DEF IngestInit, Out, Start
<1>3. WritersPlanned BY <1>2 DEF WritersPlanned, Writers
<1>4. DropsEvidenced BY DEF IngestInit, DropsEvidenced, Absent
<1> QED BY <1>1, <1>3, <1>4, AloneInvInit DEF EvidenceInv

LEMMA EvidenceInvStep == EvidenceInv /\ [IngestNext]_vars => EvidenceInv'
<1> SUFFICES ASSUME EvidenceInv, [IngestNext]_vars PROVE EvidenceInv'
  OBVIOUS
<1>1. AloneInv /\ IngestInv /\ SyncedExist /\ WritersPlanned BY DEF EvidenceInv, AloneInv
<1> QED BY <1>1, AloneInvStep, SyncedExistStep, WritersPlannedStep, DropsEvidencedStep
   DEF EvidenceInv

LEMMA EvidenceInvariant == IngestSpec => []EvidenceInv
<1> QED BY EvidenceInvInit, EvidenceInvStep, PTL DEF IngestSpec

\* No file leaves what searches read on the word of incomplete scans alone,
\* however many ingests failed between the drop of its row and the build without it.
THEOREM RemovalsEvidenced == IngestSpec => RemovalIsEvidenced
<1> DEFINE A == \A f \in Files :
       published[f] # Absent /\ published'[f] = Absent =>
         \E s \in Snaps : /\ sync[s] # "none"
                          /\ plan[s].scan = "complete" /\ plan[s].disk[f] = Absent
<1>1. EvidenceInv /\ [IngestNext]_vars => [A]_vars
  <2> SUFFICES ASSUME EvidenceInv, [IngestNext]_vars, NEW f \in Files,
                      published[f] # Absent, published'[f] = Absent
               PROVE  Vanished(f)
    BY DEF Vanished
  <2>1. PICK p \in Procs : Complete(p) BY PublicationCompletes
  <2>2. published'[f] = (IF index[f].hash # Absent THEN index[f].active ELSE Absent)
    BY <2>1 DEF Complete, Build
  <2> QED BY <2>2 DEF EvidenceInv, DropsEvidenced
<1> QED BY EvidenceInvariant, <1>1, PTL DEF IngestSpec, RemovalIsEvidenced

\* What the operator approved does nothing: a plan that needs a review starts no
\* sync run and is never consumed.
ReviewedIsIdle ==
  \A s \in Snaps : NeedsReview(plan[s]) => sync[s] = "none" /\ snap[s].status # "CONSUMED"

\* A sync run is started by the second scan and ended by its writer.
LEMMA SyncedBy ==
  ASSUME IngestInv, [IngestNext]_vars, NEW s \in Snaps, sync'[s] # sync[s]
  PROVE  \E p \in Procs : at[p].snap = s /\ (Confirmed(plan[s]) \/ at[p].stage = "writing")
<1>0. sync \in [Snaps -> SyncStatuses] BY DEF IngestInv, IngestTypeOK, SyncStatuses
<1>1. CASE UNCHANGED vars BY <1>1 DEF vars, ingestVars
<1>2. CASE World BY <1>2, WorldKeepsSync
<1>3. ASSUME NEW p \in Procs, UpToClaim(p) \/ Leave(p) PROVE FALSE
  BY <1>3 DEF UpToClaim, Leave, Preflight, Prepare, Resume, SweepAgain, ClaimSnapshot, ClaimRefused
<1>4. ASSUME NEW p \in Procs, UnderClaim(p)
      PROVE  at[p].snap = s /\ (Confirmed(plan[s]) \/ at[p].stage = "writing")
  <2>1. CASE Proceed(p) \/ ThrowAtStart(p) BY <1>0, <2>1 DEF Proceed, ThrowAtStart, Snap
  <2>2. CASE Complete(p) \/ Partial(p) \/ Abort(p)
    BY <1>0, <2>2 DEF Complete, Partial, Abort, Applied, Stage, Snap
  <2> QED
    BY <1>4, <2>1, <2>2 DEF UnderClaim, Refuse, Throws, ThrowAtScan, Delete, Upsert,
       UpsertFails, FileError, Promote
<1> QED BY <1>1, <1>2, <1>3, <1>4 DEF IngestNext

LEMMA ReviewedIsIdleStep ==
  ASSUME EvidenceInv, ReviewedIsIdle, [IngestNext]_vars
  PROVE  ReviewedIsIdle'
<1> SUFFICES ASSUME NEW s \in Snaps, NeedsReview(plan'[s])
             PROVE  sync'[s] = "none" /\ snap'[s].status # "CONSUMED"
  BY DEF ReviewedIsIdle, NeedsReview, Deletes
<1>0. IngestInv /\ SyncedExist /\ WritersPlanned BY DEF EvidenceInv, AloneInv
<1>1. sync[s] = "none" /\ snap[s].status # "CONSUMED"
  <2>1. CASE snap[s].status = "absent" BY <1>0, <2>1 DEF SyncedExist
  <2>2. CASE snap[s].status # "absent"
    <3>1. plan'[s] = plan[s] BY <1>0, <2>2, PlansKept
    <3> QED BY <3>1 DEF ReviewedIsIdle
  <2> QED BY <2>1, <2>2
<1>2. ASSUME NEW p \in Procs, at[p].snap = s, at[p].stage = "writing" PROVE FALSE
  BY <1>0, <1>1, <1>2 DEF WritersPlanned, Writers, Planned
<1>3. ASSUME Confirmed(plan[s]), sync'[s] # sync[s] PROVE FALSE
  <2>1. LiveClaim(s) BY <1>0, <1>3, SyncSteps DEF SyncStep
  <2>2. plan'[s] = plan[s] BY <1>0, <2>1, PlansKept DEF LiveClaim
  <2> QED BY <1>3, <2>2 DEF Confirmed
<1>4. sync'[s] = "none" BY <1>0, <1>1, <1>2, <1>3, SyncedBy
<1>5. snap'[s].status # "CONSUMED" BY <1>0, <1>1, <1>2, ConsumptionCompletes
<1> QED BY <1>4, <1>5

\* An approval has no effect, whatever scans, edits, claims and retries follow it: the
\* second scan puts an approved plan to refreshRequiresReview again, which refuses it.
THEOREM ApprovalsConsumeNothing == IngestSpec => []ReviewedIsIdle
<1>1. IngestInit => ReviewedIsIdle BY DEF IngestInit, GateInit, NoRow, ReviewedIsIdle
<1> QED BY <1>1, ReviewedIsIdleStep, EvidenceInvariant, PTL DEF IngestSpec

-----------------------------------------------------------------------------
(* Sync runs and snapshots tell one outcome.  A rejection can overtake a    *)
(* consumption at the gate; here it cannot, because operators decide about  *)
(* gated snapshots only, and a gated snapshot is never consumed.            *)

\* The gated flag of a row tells whether its plan needs a review.
GatedNeedReview == \A s \in Snaps : snap[s].gated => NeedsReview(plan[s])

GatedInv == EvidenceInv /\ ReviewedIsIdle /\ GatedNeedReview

\* Only Prepare writes the gated flag of a row.
LEMMA OnlyPrepareGates ==
  ASSUME IngestInv, [IngestNext]_vars, ~\E p \in Procs : Prepare(p), NEW s \in Snaps
  PROVE  snap'[s].gated = snap[s].gated
<1>0. IngestTypeOK /\ HoldsSnap /\ GateTypeOK BY DEF IngestInv, IngestTypeOK
<1>1. CASE UNCHANGED snap BY <1>1
<1>2. CASE World
  BY <1>0, <1>2, GatedFrozen DEF World, Edit, ScanChanges, gateVars
<1>3. ASSUME NEW p \in Procs, UpToClaim(p) \/ UnderClaim(p) \/ Leave(p)
      PROVE  snap'[s].gated = snap[s].gated
  <2>1. CASE (\E scope \in Scopes : Preflight(p, scope)) \/ SweepAgain(p)
    BY <1>0, <2>1, GatedFrozen DEF Preflight, SweepAgain
  <2>2. CASE ClaimSnapshot(p)
    <3>1. at[p].snap \in Snaps /\ NeedsReview(plan[at[p].snap]) \in BOOLEAN
      BY <1>0, <2>2 DEF HoldsSnap, WithSnap, ClaimSnapshot, Stage, NeedsReview
    <3>2. Claim(at[p].snap, NeedsReview(plan[at[p].snap])) BY <2>2 DEF ClaimSnapshot, Snap
    <3> QED BY <1>0, <3>1, <3>2, GatedFrozen
  <2>3. CASE Refuse(p) \/ Throws(p) \/ Partial(p) \/ Complete(p) \/ (Abort(p) /\ Fence(p))
    <3>1. at[p].stage \in Held /\ (Fail(at[p].snap) \/ Consume(at[p].snap))
      BY <1>0, <2>3, RefuseSteps DEF Partial, Complete, Abort, Applied, Stage, Snap, Held
    <3> QED BY <1>0, <3>1, HeldSnap, GatedFrozen
  <2>4. CASE (\E u \in Snaps : Resume(p, u)) \/ ClaimRefused(p) \/ Leave(p) \/ Proceed(p)
             \/ (Abort(p) /\ ~Fence(p))
    BY <2>4 DEF Resume, ClaimRefused, Leave, Proceed, Abort, gateVars
  <2>5. CASE \/ \E f \in Files : Delete(p, f) \/ Upsert(p, f) \/ UpsertFails(p, f) \/ FileError(p, f)
             \/ \E embedded \in SUBSET Files : Promote(p, embedded)
    BY <2>5 DEF Delete, Upsert, UpsertFails, FileError, Promote, gateVars
  <2> QED BY <1>3, <2>1, <2>2, <2>3, <2>4, <2>5 DEF UpToClaim, UnderClaim
<1> QED BY <1>1, <1>2, <1>3 DEF IngestNext, vars, gateVars

LEMMA GatedNeedReviewStep ==
  ASSUME EvidenceInv, GateInv, GatedNeedReview, [IngestNext]_vars
  PROVE  GatedNeedReview'
<1> SUFFICES ASSUME NEW s \in Snaps, snap'[s].gated PROVE NeedsReview(plan'[s])
  BY DEF GatedNeedReview, NeedsReview, Deletes
<1>0. /\ IngestInv /\ GateTypeOK /\ PlansKnown /\ plan \in [Snaps -> Plan]
  BY DEF EvidenceInv, AloneInv, GateInv, IngestInv, IngestTypeOK
<1>1. ASSUME snap[s].gated PROVE NeedsReview(plan'[s])
  <2>1. snap[s].status # "absent" BY <1>0, <1>1 DEF PlansKnown
  <2>2. plan'[s] = plan[s] BY <1>0, <2>1, PlansKept
  <2> QED BY <1>1, <2>2 DEF GatedNeedReview
<1>2. ASSUME NEW p \in Procs, Prepare(p), ~snap[s].gated PROVE NeedsReview(plan'[s])
  <2>1. PICK u \in Snaps :
          Insert(u, Verdict(at[p].plan)) /\ plan' = [plan EXCEPT ![u] = at[p].plan]
    BY <1>2 DEF Prepare
  <2>2. u = s /\ Verdict(at[p].plan) = "REVIEW_REQUIRED"
    BY <1>0, <1>2, <2>1, VerdictIs, WithInsert
  <2>3. plan'[s] = at[p].plan BY <1>0, <2>1, <2>2
  <2>4. NeedsReview(at[p].plan) BY <2>2 DEF Verdict
  <2> QED BY <2>3, <2>4
<1> QED BY <1>0, <1>1, <1>2, OnlyPrepareGates

\* A consumed snapshot is not gated, so no rejection is about it.
LEMMA ConsumedRemains ==
  ASSUME GatedInv, [IngestNext]_vars, NEW s \in Snaps, snap[s].status = "CONSUMED"
  PROVE  snap'[s].status = "CONSUMED"
<1> SUFFICES ASSUME snap'[s].status # "CONSUMED" PROVE FALSE
  OBVIOUS
<1>1. IngestInv /\ GateTypeOK /\ FlightsGated
  BY DEF GatedInv, EvidenceInv, AloneInv, GateInv
<1>2. [GateNext]_gateVars BY <1>1, StepsRefine
<1>3. PICK o \in Operators : Reject(o) /\ stmt[o].snap = s BY <1>1, <1>2, OnlyRejectionsRewrite
<1>4. snap[s].gated BY <1>1, <1>3 DEF FlightsGated, Reject, Ends, Idle
<1> QED BY <1>4 DEF GatedInv, GatedNeedReview, ReviewedIsIdle

LEMMA OutcomesStep ==
  GatedInv /\ OutcomesAgree /\ [IngestNext]_vars => OutcomesAgree'
<1> SUFFICES ASSUME GatedInv, OutcomesAgree, [IngestNext]_vars, NEW s \in Snaps
             PROVE  /\ sync'[s] = "completed" <=> snap'[s].status = "CONSUMED"
                    /\ sync'[s] \in {"partial", "failed"} => snap'[s].status = "FAILED"
  BY DEF OutcomesAgree
<1>0. IngestInv BY DEF GatedInv, EvidenceInv, AloneInv
<1>1. GateTypeOK /\ [GateNext]_gateVars BY <1>0, StepsRefine DEF IngestInv, IngestTypeOK
<1>2. snap[s].status = "CONSUMED" => snap'[s].status = "CONSUMED" BY ConsumedRemains
<1>3. snap[s].status = "FAILED" => snap'[s].status = "FAILED"
  <2>1. RowStep(s) BY <1>1, GateSteps DEF RowSteps
  <2> QED BY <2>1 DEF RowStep, Claimables
<1>4. /\ sync[s] = "completed" <=> snap[s].status = "CONSUMED"
      /\ sync[s] \in {"partial", "failed"} => snap[s].status = "FAILED"
  BY DEF OutcomesAgree
<1>5. CASE snap[s].status # "CONSUMED" /\ snap'[s].status = "CONSUMED"
  <2>1. PICK p \in Procs : Complete(p) /\ at[p].snap = s BY <1>0, <1>5, ConsumptionCompletes
  <2>2. sync' = [sync EXCEPT ![s] = "completed"] BY <2>1 DEF Complete, Snap
  <2>3. sync \in [Snaps -> SyncStatuses] BY <1>0 DEF IngestInv, IngestTypeOK, SyncStatuses
  <2> QED BY <1>5, <2>2, <2>3
<1>6. CASE ~(snap[s].status # "CONSUMED" /\ snap'[s].status = "CONSUMED")
  <2>1. CASE sync'[s] = sync[s] BY <1>2, <1>3, <1>4, <1>6, <2>1
  <2>2. CASE sync'[s] # sync[s]
    <3>1. SyncStep(s) BY <1>0, SyncSteps
    <3> QED BY <1>6, <2>2, <3>1 DEF SyncStep, LiveClaim
  <2> QED BY <2>1, <2>2
<1> QED BY <1>5, <1>6

LEMMA GatedInvariant == IngestSpec => []GatedInv
<1>1. IngestInit => GatedInv
  BY EvidenceInvInit DEF IngestInit, GateInit, NoRow, ReviewedIsIdle, GatedNeedReview, GatedInv
<1>2. GatedInv /\ [IngestNext]_vars => GatedInv'
  <2>1. GatedInv => GateInv BY DEF GatedInv, EvidenceInv, AloneInv
  <2> QED BY <2>1, EvidenceInvStep, ReviewedIsIdleStep, GatedNeedReviewStep DEF GatedInv
<1> QED BY <1>1, <1>2, PTL DEF IngestSpec

\* A sync run and its snapshot never tell two outcomes, whatever claims lapse,
\* processes die, stray writers run on and operators decide.
THEOREM OutcomesStayOne == IngestSpec => []OutcomesAgree
<1>1. IngestInit => OutcomesAgree BY DEF IngestInit, GateInit, NoRow, OutcomesAgree
<1> QED BY <1>1, GatedInvariant, OutcomesStep, PTL DEF IngestSpec

\* What an ingest consumed stays consumed: the race of two reviews, which rewrites a
\* consumption at the gate, never reaches one of a running ingest.
THEOREM IngestsKeepConsumed ==
  IngestSpec => [][\A s \in Snaps :
                     snap[s].status = "CONSUMED" => snap'[s].status = "CONSUMED"]_vars
<1> DEFINE A == \A s \in Snaps : snap[s].status = "CONSUMED" => snap'[s].status = "CONSUMED"
<1>1. GatedInv /\ [IngestNext]_vars => [A]_vars BY ConsumedRemains
<1> QED BY GatedInvariant, <1>1, PTL DEF IngestSpec

-----------------------------------------------------------------------------
(* What a consumed snapshot publishes.  A writer without errors has every   *)
(* file of its scope done or still before it; when nothing is left, the     *)
(* index is its scan.  That nobody else wrote in the meantime is AloneInv.  *)

InScope(q) == IF q.scope = Full THEN Files ELSE {q.scope}

OnTrack(r) ==
  LET q == plan[at[r].snap] IN
  ~at[r].errors =>
    \A f \in InScope(q) :
      IF q.disk[f] # Absent
        THEN \/ f \in at[r].todo \cup at[r].done
             \/ index[f].hash = q.disk[f] /\ index[f].latest = "ready"
        ELSE f \in at[r].drop \/ index[f].hash = Absent

AllOnTrack ==
  \A r \in Procs : at[r].stage = "writing" /\ LiveClaim(at[r].snap) => OnTrack(r)

\* A ready version is the active one; a dropped row keeps its old version.
ReadyIsActive ==
  \A f \in Files :
    index[f].hash # Absent /\ index[f].latest = "ready" => index[f].active = index[f].hash

\* A plan for one file was made when the file was there.
HasItsFile(q) == q.scope # Full => q.disk[q.scope] # Absent

PlansHaveFiles ==
  /\ \A s \in Snaps : HasItsFile(plan[s])
  /\ \A p \in Procs : at[p].stage = "planned" => HasItsFile(at[p].plan)

TrackInv == AloneInv /\ ReadyIsActive /\ PlansHaveFiles /\ AllOnTrack

LEMMA ReadyIsActiveStep ==
  ASSUME IngestInv, ReadyIsActive, [IngestNext]_vars
  PROVE  ReadyIsActive'
<1>0. IngestTypeOK /\ HoldsSnap /\ index \in [Files -> FileRow] BY DEF IngestInv, IngestTypeOK
<1>1. CASE UNCHANGED index BY <1>1 DEF ReadyIsActive
<1>2. ASSUME NEW p \in Procs, NEW f \in Files, Delete(p, f) PROVE ReadyIsActive'
  <2>1. index' = [index EXCEPT ![f].hash = Absent] BY <1>0, <1>2, DeleteSteps
  <2>2. index'[f].hash = Absent /\ \A g \in Files \ {f} : index'[g] = index[g]
    BY <1>0, <2>1 DEF FileRow
  <2> QED BY <2>2 DEF ReadyIsActive
<1>3. ASSUME NEW p \in Procs, NEW f \in Files, Upsert(p, f) \/ UpsertFails(p, f)
      PROVE  ReadyIsActive'
  BY <1>0, <1>3, UpsertSteps, UpsertFailsSteps DEF ReadyIsActive
<1>4. ASSUME NEW p \in Procs, NEW embedded \in SUBSET Files, Promote(p, embedded)
      PROVE  ReadyIsActive'
  BY <1>0, <1>4, PromoteSteps DEF ReadyIsActive
<1>5. CASE UNCHANGED vars BY <1>1, <1>5 DEF vars, ingestVars
<1>6. CASE World BY <1>0, <1>1, <1>6, WorldSteps
<1> QED BY <1>0, <1>1, <1>2, <1>3, <1>4, <1>5, <1>6, WritesNot DEF IngestNext, WritesIndex

\* Only a preflight makes a plan, and only a preparation records one.
LEMMA PlansHaveFilesStep ==
  ASSUME IngestInv, PlansHaveFiles, [IngestNext]_vars
  PROVE  PlansHaveFiles'
<1>0. /\ IngestTypeOK /\ HoldsSnap /\ plan \in [Snaps -> Plan] /\ at \in [Procs -> Ingest]
  BY DEF IngestInv, IngestTypeOK
<1>1. CASE UNCHANGED <<at, plan>> BY <1>1 DEF PlansHaveFiles
<1>2. ASSUME NEW p \in Procs, NEW scope \in Scopes, Preflight(p, scope) PROVE PlansHaveFiles'
  <2>1. UNCHANGED plan /\ \A r \in Procs \ {p} : at'[r] = at[r]
    BY <1>0, <1>2, PreflightSteps DEF Stepped, Moved
  <2>2. at' = [at EXCEPT ![p].stage = "planned", ![p].plan = Scan(scope)] BY <1>2 DEF Preflight
  <2>3. at[p] \in Ingest BY <1>0
  <2>4. at'[p] = [at[p] EXCEPT !.stage = "planned", !.plan = Scan(scope)] BY <1>0, <2>2
  <2>5. at'[p].plan = Scan(scope) BY <2>3, <2>4 DEF Ingest
  <2>6. Scan(scope).scope = scope /\ Scan(scope).disk = disk BY DEF Scan
  <2>7. HasItsFile(Scan(scope)) BY <1>2, <2>6 DEF Preflight, HasItsFile
  <2>8. HasItsFile(at[p].plan)' BY <2>5, <2>7 DEF HasItsFile
  <2> QED BY <2>1, <2>8 DEF PlansHaveFiles, HasItsFile
<1>3. ASSUME NEW p \in Procs, Prepare(p) PROVE PlansHaveFiles'
  <2>1. at'[p].stage \in {"idle", "prepared"} /\ \A r \in Procs \ {p} : at'[r] = at[r]
    BY <1>0, <1>3, PrepareSteps DEF Stepped, Moved
  <2>2. \E s \in Snaps : plan' = [plan EXCEPT ![s] = at[p].plan] BY <1>3 DEF Prepare
  <2>3. HasItsFile(at[p].plan) BY <1>3 DEF Prepare, Stage, PlansHaveFiles
  <2> QED BY <1>0, <2>1, <2>2, <2>3 DEF PlansHaveFiles, HasItsFile
<1>4. ASSUME NEW p \in Procs, UNCHANGED plan, at'[p].stage # "planned",
             \A r \in Procs \ {p} : at'[r] = at[r]
      PROVE  PlansHaveFiles'
  BY <1>4 DEF PlansHaveFiles, HasItsFile
<1>5. ASSUME NEW p \in Procs, UpToClaim(p) \/ UnderClaim(p) \/ Leave(p),
             ~Prepare(p), ~\E scope \in Scopes : Preflight(p, scope)
      PROVE  UNCHANGED plan /\ at'[p].stage # "planned" /\ \A r \in Procs \ {p} : at'[r] = at[r]
  <2>1. \A r \in Procs \ {p} : at'[r] = at[r] BY <1>0, <1>5, ProcessSteps DEF Stepped, Moved
  <2>2. CASE UpToClaim(p)
    BY <1>0, <1>5, <2>1, <2>2, ResumeSteps, SweepAgainSteps, ClaimSteps, QuietSteps DEF UpToClaim
  <2>3. CASE Leave(p) BY <1>0, <2>1, <2>3, QuietSteps
  <2>4. CASE Refuse(p) \/ Throws(p) \/ Proceed(p) \/ Complete(p) \/ Partial(p) \/ Abort(p)
    BY <1>0, <2>1, <2>4, RefuseSteps, ProceedSteps, ClosingSteps
  <2>5. ASSUME NEW f \in Files, Delete(p, f) \/ Upsert(p, f) \/ UpsertFails(p, f) \/ FileError(p, f)
        PROVE  UNCHANGED plan /\ at'[p].stage # "planned"
    BY <1>0, <2>5, DeleteSteps, UpsertSteps, UpsertFailsSteps, FileErrorSteps DEF Held
  <2>6. ASSUME NEW embedded \in SUBSET Files, Promote(p, embedded)
        PROVE  UNCHANGED plan /\ at'[p].stage # "planned"
    BY <1>0, <2>6, PromoteSteps
  <2> QED BY <1>5, <2>1, <2>2, <2>3, <2>4, <2>5, <2>6 DEF UnderClaim
<1>6. CASE UNCHANGED vars BY <1>1, <1>6 DEF vars, ingestVars
<1>7. CASE World BY <1>0, <1>1, <1>7, WorldSteps
<1> QED BY <1>2, <1>3, <1>4, <1>5, <1>6, <1>7 DEF IngestNext

\* The ingest that starts to write has its whole scope before it.
LEMMA ProceedOnTrack ==
  ASSUME TrackInv, NEW p \in Procs, Proceed(p)
  PROVE  OnTrack(p)'
<1>0. IngestTypeOK /\ HoldsSnap BY DEF TrackInv, AloneInv, IngestInv
<1> DEFINE q == plan[at[p].snap]
<1>1. /\ at'[p].drop = Deletes(q) /\ at'[p].todo = Stale(q) \ Recoverable(q)
      /\ at'[p].done = Recoverable(q) /\ Scan(q.scope) = q /\ at[p].stage = "claimed"
      /\ at'[p].snap = at[p].snap /\ UNCHANGED <<index, plan>>
  BY <1>0, ProceedSteps
<1>2. q.base = [f \in Files |-> index[f].hash] BY <1>1 DEF Scan
<1>3. \A f \in Files : q.base[f] = index[f].hash BY <1>2
<1>4. at[p].snap \in Snaps BY <1>0, <1>1, HeldSnap DEF Held
<1>5. HasItsFile(q) BY <1>4 DEF TrackInv, PlansHaveFiles
<1>6. q \in Plan BY <1>0, <1>4 DEF IngestTypeOK
<1>7. \A f \in InScope(q) : f \in Files BY <1>6 DEF InScope, Plan
<1>8. ASSUME NEW f \in InScope(q), q.disk[f] # Absent
      PROVE  \/ f \in (Stale(q) \ Recoverable(q)) \cup Recoverable(q)
             \/ index[f].hash = q.disk[f] /\ index[f].latest = "ready"
  BY <1>8 DEF InScope, Stale
<1>9. ASSUME NEW f \in InScope(q), q.disk[f] = Absent
      PROVE  f \in Deletes(q) \/ index[f].hash = Absent
  BY <1>3, <1>5, <1>7, <1>9 DEF InScope, HasItsFile, Deletes
<1>10. plan'[at'[p].snap] = q BY <1>1
<1>11. InScope(plan[at[p].snap])' = InScope(q) BY <1>10 DEF InScope
<1> HIDE DEF q
<1> QED BY <1>1, <1>8, <1>9, <1>10, <1>11 DEF OnTrack

LEMMA WriteOnTrack ==
  ASSUME TrackInv, NEW p \in Procs, NEW f \in Files,
         Delete(p, f) \/ Upsert(p, f) \/ UpsertFails(p, f) \/ FileError(p, f),
         InStep(p), OnTrack(p)
  PROVE  OnTrack(p)'
<1>0. /\ IngestTypeOK /\ HoldsSnap /\ index \in [Files -> FileRow] /\ plan \in [Snaps -> Plan]
  BY DEF TrackInv, AloneInv, IngestInv, IngestTypeOK
<1>1. at'[p].snap = at[p].snap /\ UNCHANGED plan /\ at[p].stage \in Held
  BY <1>0, DeleteSteps, UpsertSteps, UpsertFailsSteps, FileErrorSteps DEF Held
<1> DEFINE q == plan[at[p].snap]
<1>2. q \in Plan BY <1>0, <1>1, HeldSnap
<1>3. \A g \in InScope(q) : g \in Files BY <1>2 DEF InScope, Plan
<1>4. InScope(plan[at[p].snap])' = InScope(q) BY <1>1 DEF InScope
<1>5. CASE Delete(p, f)
  <2>1. /\ f \in at[p].drop /\ at'[p].drop = at[p].drop \ {f} /\ at'[p].todo = at[p].todo
        /\ at'[p].done = at[p].done /\ at'[p].errors = at[p].errors
        /\ index' = [index EXCEPT ![f].hash = Absent]
    BY <1>0, <1>5, DeleteSteps
  <2>2. index'[f].hash = Absent /\ \A g \in Files \ {f} : index'[g] = index[g]
    BY <1>0, <2>1 DEF FileRow
  <2>3. q.disk[f] = Absent BY <2>1 DEF InStep
  <2> QED BY <1>1, <1>3, <1>4, <2>1, <2>2, <2>3 DEF OnTrack
<1>6. CASE Upsert(p, f)
  <2>1. /\ f \in at[p].todo /\ at'[p].todo = at[p].todo \ {f} /\ at'[p].drop = at[p].drop
        /\ at'[p].done = at[p].done \cup {f} /\ at'[p].errors = at[p].errors
        /\ \A g \in Files \ {f} : index'[g] = index[g]
    BY <1>0, <1>6, UpsertSteps
  <2>2. q.disk[f] # Absent BY <2>1 DEF InStep
  <2> QED BY <1>1, <1>3, <1>4, <2>1, <2>2 DEF OnTrack
<1>7. CASE UpsertFails(p, f) \/ FileError(p, f)
  <2>1. at'[p].errors BY <1>0, <1>7, UpsertFailsSteps, FileErrorSteps
  <2> QED BY <2>1 DEF OnTrack
<1> QED BY <1>5, <1>6, <1>7

\* A promotion without an error promotes all that was written.
LEMMA PromoteOnTrack ==
  ASSUME TrackInv, NEW p \in Procs, NEW embedded \in SUBSET Files, Promote(p, embedded),
         InStep(p), OnTrack(p)
  PROVE  OnTrack(p)'
<1>0. IngestTypeOK /\ HoldsSnap /\ plan \in [Snaps -> Plan]
  BY DEF TrackInv, AloneInv, IngestInv, IngestTypeOK
<1>1. /\ at'[p].snap = at[p].snap /\ UNCHANGED plan /\ at[p].stage = "writing"
      /\ ~at'[p].errors => ~at[p].errors /\ embedded = at[p].done
      /\ at[p].drop = {} /\ at[p].todo = {}
      /\ \A f \in Files :
           /\ index'[f].hash = index[f].hash
           /\ IF f \in embedded /\ index[f].latest = "pending"
                THEN index'[f].latest = "ready" ELSE index'[f] = index[f]
  BY <1>0, PromoteSteps
<1> DEFINE q == plan[at[p].snap]
<1>2. q \in Plan BY <1>0, <1>1, HeldSnap DEF Held
<1>3. \A g \in InScope(q) : g \in Files BY <1>2 DEF InScope, Plan
<1>4. InScope(plan[at[p].snap])' = InScope(q) BY <1>1 DEF InScope
<1>5. \A f \in Files : f \in at[p].done => index[f].hash = q.disk[f] /\ index[f].latest = "pending"
  BY DEF InStep
<1> QED BY <1>1, <1>3, <1>4, <1>5 DEF OnTrack

LEMMA OwnOnTrack ==
  ASSUME TrackInv, [IngestNext]_vars, NEW p \in Procs, UpToClaim(p) \/ UnderClaim(p) \/ Leave(p),
         at'[p].stage = "writing", LiveClaim(at[p].snap)'
  PROVE  OnTrack(p)'
<1>0. IngestTypeOK /\ HoldsSnap /\ AllInStep /\ AllOnTrack
  BY DEF TrackInv, AloneInv, IngestInv
<1>1. CASE Proceed(p) BY <1>1, ProceedOnTrack
<1>2. CASE \/ \E f \in Files : Delete(p, f) \/ Upsert(p, f) \/ UpsertFails(p, f) \/ FileError(p, f)
           \/ \E embedded \in SUBSET Files : Promote(p, embedded)
  <2>1. /\ at'[p].stage = at[p].stage /\ at'[p].snap = at[p].snap /\ UNCHANGED snap
    BY <1>0, <1>2, DeleteSteps, UpsertSteps, UpsertFailsSteps, FileErrorSteps, PromoteSteps
  <2>2. LiveClaim(at[p].snap) BY <2>1 DEF LiveClaim
  <2>3. InStep(p) /\ OnTrack(p) BY <1>0, <2>1, <2>2 DEF AllInStep, AllOnTrack
  <2> QED BY <1>2, <2>3, WriteOnTrack, PromoteOnTrack
<1>3. CASE UpToClaim(p) \/ Leave(p) \/ Refuse(p) \/ Throws(p) \/ Complete(p) \/ Partial(p) \/ Abort(p)
  BY <1>0, <1>3, PreflightSteps, PrepareSteps, ResumeSteps, SweepAgainSteps, ClaimSteps,
     QuietSteps, RefuseSteps, ClosingSteps DEF UpToClaim
<1> QED BY <1>1, <1>2, <1>3 DEF UnderClaim

LEMMA AllOnTrackStep ==
  ASSUME TrackInv, [IngestNext]_vars
  PROVE  AllOnTrack'
<1> SUFFICES ASSUME NEW r \in Procs, at'[r].stage = "writing", LiveClaim(at[r].snap)'
             PROVE  OnTrack(r)'
  BY DEF AllOnTrack
<1>0. AloneInv /\ IngestInv /\ IngestTypeOK /\ HoldsSnap BY DEF TrackInv, AloneInv, IngestInv
<1>1. ASSUME at'[r] = at[r], UNCHANGED index PROVE OnTrack(r)'
  <2>1. LiveClaim(at[r].snap) /\ at[r].snap \in Snaps /\ snap[at[r].snap].status # "absent"
    BY <1>0, <1>1, LiveBefore
  <2>2. OnTrack(r) BY <1>1, <2>1 DEF TrackInv, AllOnTrack
  <2>3. plan'[at[r].snap] = plan[at[r].snap] BY <1>0, <2>1, PlansKept
  <2>4. InScope(plan[at[r].snap])' = InScope(plan[at[r].snap]) BY <1>1, <2>3 DEF InScope
  <2> QED BY <1>1, <2>2, <2>3, <2>4 DEF OnTrack
<1>2. CASE UNCHANGED vars BY <1>1, <1>2 DEF vars, ingestVars
<1>3. CASE World BY <1>0, <1>1, <1>3, WorldSteps
<1>4. ASSUME NEW p \in Procs, UpToClaim(p) \/ UnderClaim(p) \/ Leave(p) PROVE OnTrack(r)'
  <2>1. CASE p = r BY <1>4, <2>1, OwnOnTrack
  <2>2. CASE p # r
    <3>1. at'[r] = at[r] BY <1>0, <1>4, <2>2, ProcessSteps DEF Stepped, Moved
    <3>2. CASE WritesIndex(p)
      <4>1. Fence(p) /\ at[p].stage \in Held /\ UNCHANGED snap BY <1>0, <3>2, Writes
      <4>2. LiveClaim(at[r].snap) BY <3>1, <4>1 DEF LiveClaim
      <4>3. at[r].stage \in Held BY <3>1 DEF Held
      <4> QED BY <1>0, <2>2, <4>1, <4>2, <4>3, OneWriter
    <3>3. CASE ~WritesIndex(p) BY <1>0, <1>1, <1>4, <3>1, <3>3, WritesNot
    <3> QED BY <3>2, <3>3
  <2> QED BY <2>1, <2>2
<1> QED BY <1>2, <1>3, <1>4 DEF IngestNext

LEMMA TrackInvInit == IngestInit => TrackInv
<1> SUFFICES ASSUME IngestInit PROVE TrackInv
  OBVIOUS
<1>1. \A p \in Procs : at[p].stage = "idle" BY DEF IngestInit, Out, Start
<1>2. AllOnTrack BY <1>1 DEF AllOnTrack
<1>3. ReadyIsActive BY DEF IngestInit, ReadyIsActive
<1>4. HasItsFile(NoPlan) BY DEF HasItsFile, NoPlan
<1>5. PlansHaveFiles BY <1>1, <1>4 DEF IngestInit, PlansHaveFiles
<1> QED BY <1>2, <1>3, <1>5, AloneInvInit DEF TrackInv

LEMMA TrackInvStep == TrackInv /\ [IngestNext]_vars => TrackInv'
<1> SUFFICES ASSUME TrackInv, [IngestNext]_vars PROVE TrackInv'
  OBVIOUS
<1>1. AloneInv /\ IngestInv /\ ReadyIsActive /\ PlansHaveFiles BY DEF TrackInv, AloneInv
<1> QED BY <1>1, AloneInvStep, ReadyIsActiveStep, PlansHaveFilesStep, AllOnTrackStep DEF TrackInv

LEMMA TrackInvariant == IngestSpec => []TrackInv
<1> QED BY TrackInvInit, TrackInvStep, PTL DEF IngestSpec

\* When nothing is left to do and nothing failed, the index is the plan's scan.
LEMMA CompletedBuild ==
  ASSUME TrackInv, NEW p \in Procs, Complete(p), NEW f \in InScope(plan[at[p].snap])
  PROVE  /\ f \in Files /\ at[p].snap \in Snaps
         /\ published' = Build /\ Build[f] = plan[at[p].snap].disk[f]
<1>0. /\ IngestTypeOK /\ HoldsSnap /\ plan \in [Snaps -> Plan] /\ ReadyIsActive /\ AllOnTrack
  BY DEF TrackInv, AloneInv, IngestInv, IngestTypeOK
<1>1. /\ at[p].stage = "writing" /\ at[p].drop = {} /\ at[p].todo = {} /\ at[p].done = {}
      /\ ~at[p].errors /\ LiveClaim(at[p].snap) /\ published' = Build
  BY DEF Complete, Applied, Consume, Stage, Snap
<1>2. at[p].snap \in Snaps BY <1>0, <1>1, HeldSnap DEF Held
<1>3. plan[at[p].snap] \in Plan BY <1>0, <1>2
<1>4. f \in Files BY <1>3 DEF InScope, Plan
<1>5. OnTrack(p) BY <1>0, <1>1 DEF AllOnTrack
<1> DEFINE q == plan[at[p].snap]
<1>6. Build[f] = (IF index[f].hash # Absent THEN index[f].active ELSE Absent) BY <1>4 DEF Build
<1>7. CASE q.disk[f] # Absent
  <2>1. index[f].hash = q.disk[f] /\ index[f].latest = "ready" BY <1>1, <1>5, <1>7 DEF OnTrack
  <2> QED BY <1>0, <1>1, <1>2, <1>4, <1>6, <1>7, <2>1 DEF ReadyIsActive
<1>8. CASE q.disk[f] = Absent
  <2>1. index[f].hash = Absent BY <1>1, <1>5, <1>8 DEF OnTrack
  <2> QED BY <1>1, <1>2, <1>4, <1>6, <1>8, <2>1
<1> QED BY <1>7, <1>8

\* A consumed full snapshot publishes exactly the tree it was prepared from, a
\* consumed file snapshot that file, whatever other ingests, edits and operators
\* came between the scan and the publication.
THEOREM PlansArePublished == IngestSpec => PublishesThePlan
<1> DEFINE A == \A s \in Snaps :
       snap[s].status # "CONSUMED" /\ snap'[s].status = "CONSUMED" =>
         IF plan[s].scope = Full THEN published' = plan[s].disk
         ELSE published'[plan[s].scope] = plan[s].disk[plan[s].scope]
<1>1. TrackInv /\ [IngestNext]_vars => [A]_vars
  <2> SUFFICES ASSUME TrackInv, [IngestNext]_vars, NEW s \in Snaps,
                      snap[s].status # "CONSUMED", snap'[s].status = "CONSUMED"
               PROVE  IF plan[s].scope = Full THEN published' = plan[s].disk
                      ELSE published'[plan[s].scope] = plan[s].disk[plan[s].scope]
    OBVIOUS
  <2>0. IngestInv /\ plan \in [Snaps -> Plan] BY DEF TrackInv, AloneInv, IngestInv, IngestTypeOK
  <2>1. PICK p \in Procs : Complete(p) /\ at[p].snap = s BY <2>0, ConsumptionCompletes
  <2>2. published' = Build BY <2>1 DEF Complete
  <2>3. \A f \in InScope(plan[s]) : Build[f] = plan[s].disk[f] BY <2>1, CompletedBuild
  <2>4. CASE plan[s].scope = Full
    <3>1. \A f \in Files : Build[f] = plan[s].disk[f] BY <2>3, <2>4 DEF InScope
    <3>2. plan[s].disk \in [Files -> Contents] BY <2>0 DEF Plan
    <3>3. Build = plan[s].disk BY <3>1, <3>2 DEF Build
    <3> QED BY <2>2, <2>4, <3>3
  <2>5. CASE plan[s].scope # Full BY <2>2, <2>3, <2>5 DEF InScope
  <2> QED BY <2>4, <2>5
<1> QED BY TrackInvariant, <1>1, PTL DEF IngestSpec, PublishesThePlan

=============================================================================
