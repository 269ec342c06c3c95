-------------------------- MODULE MigrationsProofs --------------------------
(***************************************************************************)
(* Theorems about the migrations, for any lanes, scripts, operations,      *)
(* writers and edits.                                                      *)
(*                                                                         *)
(* The exclusive lock carries the argument (Fenced): a process that is     *)
(* past AcquireLock owns the lock, and while it is owned no writer is      *)
(* behind the shared one.  So only one process changes a lane at a time    *)
(* (OneAtATime), which makes the position of a run in its lane an          *)
(* invariant (Position), and with it the ledger the prefix of the manifest *)
(* that the schema really has.                                             *)
(***************************************************************************)
EXTENDS Migrations, FiniteSetTheorems, TLAPS

USE MigrationsAssumption

-----------------------------------------------------------------------------
(* Types.                                                                  *)

LEMMA IdleIsRun == Idle \in Run
BY DEF Idle, Run, Stages, Modes, Manifests, Ordinals, Revisions

LEMMA PlanParts ==
  ASSUME NEW p \in Plans, p # NoPlan
  PROVE  /\ p.lanes \in SUBSET Lanes
         /\ p.manifest \in Manifests
         /\ \A l \in p.lanes : p.status[l] \in Status
<1>1. PICK L \in LaneChoices : p \in [lanes : {L}, manifest : Manifests, status : [L -> Status]]
  BY DEF Plans
<1> QED BY <1>1

LEMMA AdoptableType == \A d : Adoptable(d) \in 0 .. NumScripts
BY DEF Adoptable, Ordinals

LEMMA StatusType ==
  ASSUME NEW d \in Lane, NEW m
  PROVE  StatusOf(d, m) \in Status
<1>1. Classify(d, m) \in States BY DEF Classify, States
<1>3. ChallengePrefix(d, m) \in 0 .. NumScripts BY AdoptableType DEF ChallengePrefix
<1>2. d.ledger \in [Ordinals -> Revisions \cup {NoRow}] BY DEF Lane
<1> QED BY <1>1, <1>2, <1>3 DEF StatusOf, Status

\* The number of recorded scripts of a lane whose rows are a prefix.
LEMMA PrefixLength ==
  ASSUME NEW d, NEW p \in 0 .. NumScripts, Recorded(d) = 1 .. p
  PROVE  FirstPending(d) = p + 1
<1>1. Cardinality(1 .. p) = p BY FS_Interval, p \in Nat
<1> QED BY <1>1 DEF FirstPending

LEMMA RecordedSize ==
  ASSUME NEW d \in Lane
  PROVE  FirstPending(d) \in 1 .. NumScripts + 1
<1>1. IsFiniteSet(Ordinals) /\ Cardinality(Ordinals) = NumScripts
  BY FS_Interval DEF Ordinals
<1>2. Recorded(d) \subseteq Ordinals BY DEF Recorded
<1>3. Cardinality(Recorded(d)) \in Nat /\ Cardinality(Recorded(d)) <= NumScripts
  BY <1>1, <1>2, FS_Subset, FS_CardinalityType
<1> QED BY <1>3 DEF FirstPending

\* A run that is inside a lane has one, and what it records is a script.
Placed ==
  {r \in Run : /\ r.stage \in {"adopted", "scripts", "recording"} => r.lane \in Lanes
               /\ r.stage = "recording" => r.next \in Ordinals}

Types == MigrationsTypeOK /\ run \in [Ops -> Placed]

LEMMA IdleIsPlaced == Idle \in Placed
BY IdleIsRun DEF Idle, Placed

LEMMA InitTypes == MigInit => Types
<1> SUFFICES ASSUME MigInit PROVE Types OBVIOUS
<1>1. files \in Manifests BY DEF MigInit, Manifests, Revisions
<1>2. db \in [Lanes -> Lane] BY DEF MigInit
<1>3. NoPlan \in Plans BY DEF Plans
<1> QED BY <1>1, <1>2, <1>3, IdleIsRun, IdleIsPlaced DEF MigInit, MigrationsTypeOK, Types

\* A run that only changes its stage, to one that is not inside a lane.
LEMMA GoesType ==
  ASSUME run \in [Ops -> Placed], NEW o \in Ops, NEW s \in Stages \ {"adopted", "scripts", "recording"},
         Goes(o, s)
  PROVE  run' \in [Ops -> Placed]
<1>1. run'[o] \in Placed BY DEF Goes, Run, Placed
<1> QED BY <1>1 DEF Goes

\* What the steps inside a lane make of a run.
LEMMA RunUpdate ==
  ASSUME NEW r \in Run, NEW l \in Lanes, NEW t \in SUBSET Lanes, NEW n \in 1 .. NumScripts + 1
  PROVE  [r EXCEPT !.stage = "scripts", !.lane = l, !.todo = t, !.next = n] \in Placed
<1> DEFINE u == [r EXCEPT !.stage = "scripts", !.lane = l, !.todo = t, !.next = n]
<1>1. u \in Run BY DEF Run, Stages
<1>2. u.stage = "scripts" /\ u.lane = l BY DEF Run
<1> HIDE DEF u
<1>3. u \in Placed BY <1>1, <1>2 DEF Placed
<1> QED BY <1>3 DEF u

LEMMA RunRecording ==
  ASSUME NEW r \in Run, r.lane \in Lanes, r.next \in Ordinals
  PROVE  [r EXCEPT !.stage = "recording"] \in Placed
<1> DEFINE u == [r EXCEPT !.stage = "recording"]
<1>1. u \in Run BY DEF Run, Stages
<1>2. u.stage = "recording" /\ u.lane = r.lane /\ u.next = r.next BY DEF Run
<1> HIDE DEF u
<1>3. u \in Placed BY <1>1, <1>2 DEF Placed
<1> QED BY <1>3 DEF u

LEMMA RunNext ==
  ASSUME NEW r \in Run, r.lane \in Lanes, NEW n \in 1 .. NumScripts + 1
  PROVE  [r EXCEPT !.stage = "scripts", !.next = n] \in Placed
<1> DEFINE u == [r EXCEPT !.stage = "scripts", !.next = n]
<1>1. u \in Run BY DEF Run, Stages
<1>2. u.stage = "scripts" /\ u.lane = r.lane BY DEF Run
<1> HIDE DEF u
<1>3. u \in Placed BY <1>1, <1>2 DEF Placed
<1> QED BY <1>3 DEF u

LEMMA TypesStep == Types /\ [MigNext]_migVars => Types'
<1> SUFFICES ASSUME Types, [MigNext]_migVars PROVE Types' OBVIOUS
<1> USE DEF Types, MigrationsTypeOK
<1>a. \A l \in Lanes : db[l] \in Lane OBVIOUS
<1>b. files \in Manifests OBVIOUS
<1>c. \A o \in Ops : run[o] \in Run /\ run[o] \in Placed OBVIOUS
<1>d. Placed \subseteq Run BY DEF Placed
<1>1. ASSUME NEW o \in Ops, NEW L \in LaneChoices, Plan(o, L) PROVE Types'
  <2>1. [l \in L |-> StatusOf(db[l], files)] \in [L -> Status] BY <1>a, StatusType
  <2>2. [lanes |-> L, manifest |-> files, status |-> [l \in L |-> StatusOf(db[l], files)]]
          \in [lanes : {L}, manifest : Manifests, status : [L -> Status]]
    BY <2>1, <1>b
  <2>3. [lanes |-> L, manifest |-> files, status |-> [l \in L |-> StatusOf(db[l], files)]] \in Plans
    BY <2>2 DEF Plans
  <2> QED BY <2>3, <1>1 DEF Plan
<1>2. ASSUME NEW o \in Ops, Backup(o) \/ Drain(o) PROVE Types'
  BY <1>2 DEF Backup, Drain
<1>3. ASSUME NEW o \in Ops, NEW mode \in {"apply", "recover"}, NEW prior \in Ops \cup {NoOp},
             Start(o, mode, prior)
      PROVE  Types'
  <2>1. plan[o] \in Plans /\ plan[o] # NoPlan BY <1>3 DEF Start
  <2>2. plan[o].lanes \in SUBSET Lanes
        /\ \A l \in plan[o].lanes : plan[o].status[l].prefix \in 0 .. NumScripts
    BY <2>1, PlanParts DEF Status
  <2> DEFINE ch == [l \in Lanes |-> IF l \in plan[o].lanes THEN plan[o].status[l].prefix ELSE 0]
  <2>3. ch \in [Lanes -> 0 .. NumScripts] BY <2>2
  <2>4. run'[o] = [stage |-> "started", mode |-> mode, prior |-> prior, manifest |-> files,
                   challenge |-> ch, todo |-> plan[o].lanes, lane |-> NoLane, next |-> 1]
    BY <1>3 DEF Start, Idle
  <2> HIDE DEF ch
  <2>5. run'[o] \in Placed
    BY <2>2, <2>3, <2>4, <1>b DEF Run, Placed, Stages, Modes
  <2>6. run' \in [Ops -> Placed] BY <2>5, <1>3 DEF Start
  <2> QED BY <2>6, <1>3, <1>d DEF Start
<1>4. ASSUME NEW o \in Ops, NEW l \in Lanes, NEW mode \in {"isolated_apply", "isolated_adopt"},
             StartIsolated(o, l, mode)
      PROVE  Types'
  <2> DEFINE p == ChallengePrefix(db[l], files)
             ch == [Idle.challenge EXCEPT ![l] = p]
  <2>1. p \in 0 .. NumScripts BY AdoptableType DEF ChallengePrefix
  <2>2. run'[o] = [stage |-> "started", mode |-> mode, prior |-> NoOp, manifest |-> files,
                   challenge |-> ch, todo |-> {l}, lane |-> NoLane, next |-> 1]
    BY <1>4 DEF StartIsolated, Idle
  <2>3. ch \in [Lanes -> 0 .. NumScripts] BY <2>1 DEF Idle
  <2> HIDE DEF p, ch
  <2>4. run'[o] \in Placed BY <2>2, <2>3, <1>b DEF Run, Placed, Stages, Modes
  <2>5. run' \in [Ops -> Placed] BY <2>4, <1>4 DEF StartIsolated
  <2> QED BY <2>5, <1>4, <1>d DEF StartIsolated
<1>5. ASSUME NEW o \in Ops, AcquireLock(o) \/ Establish(o) \/ DeclareTakeover(o) \/ TakeOver(o)
                              \/ Check(o) \/ Succeed(o) \/ Unmark(o)
      PROVE  Types'
  <2>1. \E s \in Stages \ {"adopted", "scripts", "recording"} : Goes(o, s)
    BY <1>5 DEF AcquireLock, Establish, DeclareTakeover, TakeOver, Check, Succeed, Unmark, Stages
  <2>2. run' \in [Ops -> Placed] BY <2>1, GoesType
  <2>3. lock' \in Ops \cup {NoOp} /\ marker' \in Ops \cup {NoOp}
    BY <1>5 DEF AcquireLock, Establish, DeclareTakeover, TakeOver, Check, Succeed, Unmark
  <2>4. audit' \in [Ops -> SUBSET {"takeover", "success"}]
    BY <1>5 DEF AcquireLock, Establish, DeclareTakeover, TakeOver, Check, Succeed, Unmark, Append
  <2>5. UNCHANGED <<disposable, files, db, plan, receipts, writer>>
    BY <1>5 DEF AcquireLock, Establish, DeclareTakeover, TakeOver, Check, Succeed, Unmark
  <2> QED BY <2>2, <2>3, <2>4, <2>5, <1>d
<1>6. ASSUME NEW o \in Ops, NEW l \in Lanes, Adopt(o, l) PROVE Types'
  <2>1. run[o] \in Run /\ db[l] \in Lane BY <1>a, <1>c
  <2>2. [k \in Ordinals |-> IF k <= run[o].challenge[l] THEN run[o].manifest[k] ELSE db[l].ledger[k]]
          \in [Ordinals -> Revisions \cup {NoRow}]
    BY <2>1 DEF Run, Lane, Manifests
  <2>3. db'[l] \in Lane BY <2>1, <2>2, <1>6 DEF Adopt, Lane
  <2>4. db' \in [Lanes -> Lane] BY <2>3, <1>6 DEF Adopt
  <2>5. run'[o] \in Placed BY <2>1, <1>6 DEF Adopt, Run, Stages, Placed
  <2>6. run' \in [Ops -> Placed] BY <2>5, <1>6 DEF Adopt
  <2> QED BY <2>4, <2>6, <1>6, <1>d DEF Adopt
<1>7. ASSUME NEW o \in Ops, NEW l \in Lanes, BeginLane(o, l) PROVE Types'
  <2>1. FirstPending(db[l]) \in 1 .. NumScripts + 1 BY <1>a, RecordedSize
  <2>a. run'[o] = [run[o] EXCEPT !.stage = "scripts", !.lane = l,
                                 !.todo = run[o].todo \ {l}, !.next = FirstPending(db[l])]
    BY <1>7 DEF BeginLane
  <2>b. run[o].todo \ {l} \in SUBSET Lanes BY <1>c DEF Run
  <2>c. run[o] \in Run BY <1>c
  <2>d. [run[o] EXCEPT !.stage = "scripts", !.lane = l, !.todo = run[o].todo \ {l},
                       !.next = FirstPending(db[l])] \in Placed
    BY <2>1, <2>b, <2>c, RunUpdate
  <2>2. run'[o] \in Placed BY <2>a, <2>d
  <2>3. run' \in [Ops -> Placed] BY <2>2, <1>7 DEF BeginLane
  <2> QED BY <2>3, <1>7, <1>d DEF BeginLane
<1>8. ASSUME NEW o \in Ops, RunScript(o) PROVE Types'
  <2>1. run[o].lane \in Lanes /\ run[o].next \in Ordinals BY <1>8, <1>c DEF RunScript, At, Placed
  <2>c. run'[o] = [run[o] EXCEPT !.stage = "recording"] BY <1>8 DEF RunScript, Goes
  <2>2. run'[o] \in Placed BY <2>1, <2>c, <1>c, RunRecording
  <2>3. run' \in [Ops -> Placed] BY <2>2, <1>8 DEF RunScript, Goes
  <2>a. db[run[o].lane] \in Lane BY <2>1, <1>a
  <2>b. db'[run[o].lane] = [db[run[o].lane] EXCEPT !.done = @ \cup {run[o].next}]
    BY <2>1, <1>8 DEF RunScript
  <2>4. db'[run[o].lane] \in Lane BY <2>1, <2>a, <2>b DEF Lane
  <2>5. db' \in [Lanes -> Lane] BY <2>1, <2>4, <1>8 DEF RunScript
  <2> QED BY <2>3, <2>5, <1>8, <1>d DEF RunScript
<1>9. ASSUME NEW o \in Ops, RecordScript(o) PROVE Types'
  <2>1. run[o].lane \in Lanes /\ run[o].next \in Ordinals
    BY <1>9, <1>c DEF RecordScript, At, Placed
  <2>2. run[o].manifest[run[o].next] \in Revisions BY <2>1, <1>c DEF Run, Manifests
  <2>a. db[run[o].lane] \in Lane BY <2>1, <1>a
  <2>b. db'[run[o].lane] = [db[run[o].lane] EXCEPT
                              !.ledger = [@ EXCEPT ![run[o].next] = run[o].manifest[run[o].next]]]
    BY <2>1, <1>9 DEF RecordScript
  <2>d. [db[run[o].lane].ledger EXCEPT ![run[o].next] = run[o].manifest[run[o].next]]
          \in [Ordinals -> Revisions \cup {NoRow}]
    BY <2>1, <2>2, <2>a DEF Lane
  <2>3. db'[run[o].lane] \in Lane BY <2>a, <2>b, <2>d DEF Lane
  <2>4. db' \in [Lanes -> Lane] BY <2>1, <2>3, <1>9 DEF RecordScript
  <2>5. run[o].next + 1 \in 1 .. NumScripts + 1 BY <2>1 DEF Ordinals
  <2>c. run'[o] = [run[o] EXCEPT !.stage = "scripts", !.next = run[o].next + 1]
    BY <1>9 DEF RecordScript
  <2>e. run[o] \in Run BY <1>c
  <2>f. [run[o] EXCEPT !.stage = "scripts", !.next = run[o].next + 1] \in Placed
    BY <2>1, <2>5, <2>e, RunNext
  <2>6. run'[o] \in Placed BY <2>c, <2>f
  <2>7. run' \in [Ops -> Placed] BY <2>6, <1>9 DEF RecordScript
  <2> QED BY <2>4, <2>7, <1>9, <1>d DEF RecordScript
<1>10. ASSUME NEW o \in Ops, FinishLane(o) PROVE Types'
  <2>1. run'[o] \in Placed BY <1>10, <1>c DEF FinishLane, Run, Stages, Placed
  <2>2. run' \in [Ops -> Placed] BY <2>1, <1>10 DEF FinishLane
  <2> QED BY <2>2, <1>10, <1>d DEF FinishLane
<1>11. ASSUME NEW o \in Ops, Close(o) PROVE Types'
  <2>1. run' \in [Ops -> Placed] BY <1>11, IdleIsPlaced DEF Close
  <2> QED BY <2>1, <1>11, <1>d DEF Close
<1>12. ASSUME NEW w \in Writers, Writing(w) PROVE Types'
  BY <1>12 DEF Writing, Connect, TakeFence, PassMarker, Refuse, EndWrite, Disconnect, Moves
<1>13. ASSUME NEW k \in Ordinals, EditScript(k) PROVE Types'
  BY <1>13 DEF EditScript, Manifests
<1>14. CASE UNCHANGED migVars BY <1>14 DEF migVars
<1> QED
  BY <1>1, <1>2, <1>3, <1>4, <1>5, <1>6, <1>7, <1>8, <1>9, <1>10, <1>11, <1>12, <1>13, <1>14
  DEF MigNext, Operation

\* Every reachable state of the migrations has the shapes of MigrationsTypeOK:
\* no run leaves its manifest, no plan loses its status.
THEOREM MigrationTypes == MigSpec => []MigrationsTypeOK
<1>1. MigInit => Types BY InitTypes
<1>2. Types /\ [MigNext]_migVars => Types' BY TypesStep
<1>3. Types => MigrationsTypeOK BY DEF Types
<1> QED BY <1>1, <1>2, <1>3, PTL DEF MigSpec

-----------------------------------------------------------------------------
(* The fence.                                                              *)

\* A process past AcquireLock owns the lock, and who is behind the shared lock
\* finds no exclusive one, nor, once past the marker, a marker.
Fenced ==
  /\ \A o \in Ops : run[o].stage \in Locked => lock = o
  /\ \A w \in Writers : writer[w] \in {"fenced", "writing"} => lock = NoOp
  /\ \A w \in Writers : writer[w] = "writing" => marker = NoOp

\* What a step of operation o, other than the start and the lock itself, is to
\* the fence: a step of the owner of the lock.
OwnerSteps(o) ==
  \/ Establish(o) \/ DeclareTakeover(o) \/ TakeOver(o) \/ Check(o)
  \/ \E l \in Lanes : Adopt(o, l) \/ BeginLane(o, l)
  \/ RunScript(o) \/ RecordScript(o) \/ FinishLane(o) \/ Succeed(o) \/ Unmark(o)

LEMMA OwnersOwn ==
  ASSUME MigrationsTypeOK, NEW o \in Ops, OwnerSteps(o)
  PROVE  /\ run[o].stage \in Locked
         /\ \A p \in Ops \ {o} : run'[p] = run[p]
         /\ UNCHANGED <<lock, writer>>
BY DEF OwnerSteps, MigrationsTypeOK, Establish, DeclareTakeover, TakeOver, Check, Adopt, BeginLane,
       RunScript, RecordScript, FinishLane, Succeed, Unmark, At, Goes, Locked, Stages

\* A start, of either route, is a start and nothing else.
LEMMA Starts ==
  ASSUME NEW o \in Ops, run \in [Ops -> Run],
         \/ \E mode \in {"apply", "recover"}, prior \in Ops \cup {NoOp} : Start(o, mode, prior)
         \/ \E l \in Lanes, mode \in {"isolated_apply", "isolated_adopt"} :
               StartIsolated(o, l, mode)
  PROVE  /\ run'[o].stage = "started"
         /\ \A p \in Ops \ {o} : run'[p] = run[p]
         /\ run'[o].mode \in {"apply", "recover"} =>
              plan[o] # NoPlan /\ run'[o].todo = plan[o].lanes
<1>1. ASSUME NEW mode \in {"apply", "recover"}, NEW prior \in Ops \cup {NoOp}, Start(o, mode, prior)
      PROVE  /\ run'[o].stage = "started" /\ run'[o].todo = plan[o].lanes /\ plan[o] # NoPlan
             /\ \A p \in Ops \ {o} : run'[p] = run[p]
  BY <1>1 DEF Start, Idle
<1>2. ASSUME NEW l \in Lanes, NEW mode \in {"isolated_apply", "isolated_adopt"},
             StartIsolated(o, l, mode)
      PROVE  /\ run'[o].stage = "started" /\ run'[o].mode = mode
             /\ \A p \in Ops \ {o} : run'[p] = run[p]
  <2> DEFINE r == [Idle EXCEPT !.stage = "started", !.mode = mode, !.manifest = files,
                               !.challenge[l] = ChallengePrefix(db[l], files), !.todo = {l}]
  <2>1. r.stage = "started" /\ r.mode = mode BY DEF Idle
  <2>2. run' = [run EXCEPT ![o] = r] BY <1>2 DEF StartIsolated
  <2> HIDE DEF r
  <2> QED BY <2>1, <2>2
<1> QED BY <1>1, <1>2

LEMMA FencedInit == MigInit => Fenced
BY DEF MigInit, Fenced, Idle, Locked

LEMMA FencedStep == MigrationsTypeOK /\ Fenced /\ [MigNext]_migVars => Fenced'
<1> SUFFICES ASSUME MigrationsTypeOK, Fenced, [MigNext]_migVars PROVE Fenced' OBVIOUS
<1>1. ASSUME NEW o \in Ops, OwnerSteps(o) PROVE Fenced'
  <2>1. lock = o BY <1>1, OwnersOwn DEF Fenced
  <2>2. lock # NoOp BY <2>1
  <2> QED BY <1>1, <2>1, <2>2, OwnersOwn DEF Fenced
<1>2. ASSUME NEW o \in Ops,
             \/ \E L \in LaneChoices : Plan(o, L)
             \/ Backup(o) \/ Drain(o)
      PROVE  Fenced'
  BY <1>2 DEF Plan, Backup, Drain, Fenced
<1>3. ASSUME NEW o \in Ops,
             \/ \E mode \in {"apply", "recover"}, prior \in Ops \cup {NoOp} : Start(o, mode, prior)
             \/ \E l \in Lanes, mode \in {"isolated_apply", "isolated_adopt"} :
                   StartIsolated(o, l, mode)
      PROVE  Fenced'
  <2>1. run'[o].stage = "started" /\ \A p \in Ops \ {o} : run'[p] = run[p]
    BY <1>3, Starts DEF MigrationsTypeOK
  <2> QED BY <1>3, <2>1 DEF Start, StartIsolated, Fenced, Locked
<1>4. ASSUME NEW o \in Ops, AcquireLock(o) PROVE Fenced'
  <2>1. \A p \in Ops \ {o} : run'[p] = run[p] /\ run[p].stage \notin Locked
    BY <1>4 DEF AcquireLock, Goes, MigrationsTypeOK, Fenced
  <2> QED BY <1>4, <2>1 DEF AcquireLock, Fenced
<1>5. ASSUME NEW o \in Ops, Close(o) PROVE Fenced'
  <2>1. run'[o].stage = "idle" /\ \A p \in Ops \ {o} : run'[p] = run[p]
    BY <1>5 DEF Close, MigrationsTypeOK, Idle
  <2> QED BY <1>5, <2>1 DEF Close, Fenced, Locked
<1>6. ASSUME NEW w \in Writers, Writing(w) PROVE Fenced'
  BY <1>6 DEF Writing, Connect, TakeFence, PassMarker, Refuse, EndWrite, Disconnect, Moves,
              Fenced, MigrationsTypeOK
<1>7. ASSUME NEW k \in Ordinals, EditScript(k) PROVE Fenced'
  BY <1>7 DEF EditScript, Fenced
<1>8. CASE UNCHANGED migVars BY <1>8 DEF migVars, Fenced
<1> QED BY <1>1, <1>2, <1>3, <1>4, <1>5, <1>6, <1>7, <1>8 DEF MigNext, Operation, OwnerSteps

LEMMA FenceHolds == MigSpec => [](Types /\ Fenced)
<1>1. MigInit => Types /\ Fenced BY InitTypes, FencedInit
<1>2. Types /\ Fenced /\ [MigNext]_migVars => (Types /\ Fenced)'
  BY TypesStep, FencedStep DEF Types
<1> QED BY <1>1, <1>2, PTL DEF MigSpec

LEMMA FenceStep ==
  Types /\ Fenced /\ [MigNext]_migVars => [Fence!FenceNext]_(Fence!fenceVars)
<1> SUFFICES ASSUME Types, Fenced, [MigNext]_migVars
             PROVE  [Fence!FenceNext]_(Fence!fenceVars)
  OBVIOUS
<1> DEFINE isOpen == lock = NoOp /\ marker = NoOp
           within == {w \in Writers : writer[w] = "writing"}
           made == [l \in Lanes |-> db[l].done]
<1> USE DEF Fence!FenceNext, Fence!fenceVars, Fence!Shut, Fence!Reopen, Fence!Migrate,
            Fence!Enter, Fence!Leave
<1>a. MigrationsTypeOK BY DEF Types
<1>1. ASSUME NEW o \in Ops, OwnerSteps(o) PROVE [Fence!FenceNext]_(Fence!fenceVars)
  <2>1. lock = o /\ lock' = o /\ o # NoOp /\ UNCHANGED writer
    BY <1>1, <1>a, OwnersOwn DEF Fenced
  <2>2. ~isOpen /\ ~isOpen' /\ within = {} /\ within' = {} BY <2>1 DEF Fenced
  <2> QED BY <2>2
<1>2. ASSUME NEW o \in Ops,
             \/ \E L \in LaneChoices : Plan(o, L)
             \/ Backup(o) \/ Drain(o)
             \/ \E mode \in {"apply", "recover"}, prior \in Ops \cup {NoOp} : Start(o, mode, prior)
             \/ \E l \in Lanes, mode \in {"isolated_apply", "isolated_adopt"} :
                   StartIsolated(o, l, mode)
      PROVE  [Fence!FenceNext]_(Fence!fenceVars)
  BY <1>2 DEF Plan, Backup, Drain, Start, StartIsolated
<1>3. ASSUME NEW o \in Ops, AcquireLock(o) PROVE [Fence!FenceNext]_(Fence!fenceVars)
  <2>1. within = {} /\ within' = {} /\ made' = made /\ ~isOpen'
    BY <1>3 DEF AcquireLock
  <2> QED BY <2>1
<1>4. ASSUME NEW o \in Ops, Close(o) PROVE [Fence!FenceNext]_(Fence!fenceVars)
  <2>1. within' = within /\ made' = made /\ (isOpen => isOpen')
    BY <1>4 DEF Close
  <2> QED BY <2>1
<1>5. ASSUME NEW w \in Writers, Writing(w) PROVE [Fence!FenceNext]_(Fence!fenceVars)
  <2>1. made' = made /\ isOpen' = isOpen
    BY <1>5 DEF Writing, Connect, TakeFence, PassMarker, Refuse, EndWrite, Disconnect, Moves
  <2>2. CASE PassMarker(w)
    <3>1. isOpen BY <2>2 DEF PassMarker, Moves, Fenced
    <3>2. within' = within \cup {w} BY <2>2, <1>a DEF PassMarker, Moves, MigrationsTypeOK
    <3> QED BY <2>1, <3>1, <3>2
  <2>3. CASE ~PassMarker(w)
    <3>1. within' = within \ {w}
      BY <2>3, <1>5, <1>a DEF Writing, Connect, TakeFence, Refuse, EndWrite, Disconnect, Moves,
                              MigrationsTypeOK
    <3> QED BY <2>1, <3>1
  <2> QED BY <2>2, <2>3
<1>6. ASSUME NEW k \in Ordinals, EditScript(k) PROVE [Fence!FenceNext]_(Fence!fenceVars)
  BY <1>6 DEF EditScript
<1>7. CASE UNCHANGED migVars BY <1>7 DEF migVars
<1> QED BY <1>1, <1>2, <1>3, <1>4, <1>5, <1>6, <1>7 DEF MigNext, Operation, OwnerSteps

\* The lock, the try-lock of the writers and the durable marker implement the
\* maintenance fence (write-fence.ts:46, official.ts:1688): every step of every
\* process is a step of the fence or none, for any number of either.
THEOREM FenceImplemented == MigSpec => RefinesFence
<1>1. MigInit => Fence!FenceInit BY DEF MigInit, Fence!FenceInit
<1>2. Types /\ Fenced /\ [MigNext]_migVars => [Fence!FenceNext]_(Fence!fenceVars) BY FenceStep
<1> QED BY <1>1, <1>2, FenceHolds, PTL DEF MigSpec, RefinesFence, Fence!FenceSpec

-----------------------------------------------------------------------------
(* One process at a time.                                                  *)

\* While a process past the lock takes a step, no other is past the lock.
LEMMA Alone ==
  ASSUME MigrationsTypeOK, Fenced, NEW o \in Ops, OwnerSteps(o)
  PROVE  \A p \in Ops \ {o} : run'[p] = run[p] /\ run'[p].stage \notin Locked
BY OwnersOwn DEF Fenced

\* The steps of nobody past the lock: the lanes, the marker and the records stay,
\* and no process gets further than the lock.
LEMMA OutsideSteps ==
  ASSUME MigrationsTypeOK, [MigNext]_migVars, \A o \in Ops : ~OwnerSteps(o)
  PROVE  /\ UNCHANGED <<db, marker, audit>>
         /\ \A p \in Ops : \/ run'[p] = run[p]
                           \/ run'[p].stage \in {"idle", "started"}
                           \/ /\ run'[p].stage = "locked"
                              /\ run'[p].mode = run[p].mode /\ run'[p].todo = run[p].todo
                              /\ run[p].stage = "started"
                           \/ /\ run'[p].stage = "checked"
                              /\ run'[p].mode \notin {"apply", "recover"}
         /\ \A p \in Ops : plan[p] # NoPlan => plan'[p] = plan[p]
<1> USE DEF MigrationsTypeOK
<1>1. ASSUME NEW o \in Ops, NEW L \in LaneChoices, Plan(o, L)
      PROVE  UNCHANGED <<db, marker, audit, run>> /\ \A p \in Ops : plan[p] # NoPlan => plan'[p] = plan[p]
  BY <1>1 DEF Plan
<1>2. ASSUME NEW o \in Ops, Backup(o) \/ Drain(o) PROVE UNCHANGED <<db, marker, audit, run, plan>>
  BY <1>2 DEF Backup, Drain
<1>3. ASSUME NEW o \in Ops,
             \/ \E mode \in {"apply", "recover"}, prior \in Ops \cup {NoOp} : Start(o, mode, prior)
             \/ \E l \in Lanes, mode \in {"isolated_apply", "isolated_adopt"} :
                   StartIsolated(o, l, mode)
      PROVE  /\ UNCHANGED <<db, marker, audit, plan>>
             /\ \A p \in Ops : run'[p] = run[p] \/ run'[p].stage = "started"
  <2>1. UNCHANGED <<db, marker, audit, plan>> BY <1>3 DEF Start, StartIsolated
  <2> QED BY <2>1, <1>3, Starts
<1>4. ASSUME NEW o \in Ops, AcquireLock(o)
      PROVE  /\ UNCHANGED <<db, marker, audit, plan>>
             /\ \A p \in Ops : \/ run'[p] = run[p]
                               \/ /\ run'[p].stage = "locked" /\ run[p].stage = "started"
                                  /\ run'[p].mode = run[p].mode /\ run'[p].todo = run[p].todo
                               \/ /\ run'[p].stage = "checked"
                                  /\ run'[p].mode \notin {"apply", "recover"}
  <2>1. run'[o].mode = run[o].mode /\ run'[o].todo = run[o].todo
        /\ run'[o].stage = IF Official(o) THEN "locked" ELSE "checked"
    BY <1>4 DEF AcquireLock, Goes, Run
  <2>2. \A p \in Ops \ {o} : run'[p] = run[p] BY <1>4 DEF AcquireLock, Goes
  <2> QED BY <2>1, <2>2, <1>4 DEF AcquireLock, Official, At
<1>5. ASSUME NEW o \in Ops, Close(o)
      PROVE  /\ UNCHANGED <<db, marker, audit, plan>>
             /\ \A p \in Ops : run'[p] = run[p] \/ run'[p].stage = "idle"
  BY <1>5 DEF Close, Idle
<1>6. ASSUME NEW w \in Writers, Writing(w) PROVE UNCHANGED <<db, marker, audit, plan, run>>
  BY <1>6 DEF Writing, Connect, TakeFence, PassMarker, Refuse, EndWrite, Disconnect, Moves
<1>7. ASSUME NEW k \in Ordinals, EditScript(k) PROVE UNCHANGED <<db, marker, audit, plan, run>>
  BY <1>7 DEF EditScript
<1>8. CASE UNCHANGED migVars BY <1>8 DEF migVars
<1>9. CASE MigNext
  <2>1. CASE \E o \in Ops : Operation(o)
    <3>1. PICK o \in Ops : Operation(o) BY <2>1
    <3>2. ~OwnerSteps(o) OBVIOUS
    <3> QED BY <3>1, <3>2, <1>1, <1>2, <1>3, <1>4, <1>5 DEF Operation, OwnerSteps
  <2>2. CASE \E w \in Writers : Writing(w) BY <2>2, <1>6
  <2>3. CASE \E k \in Ordinals : EditScript(k) BY <2>3, <1>7
  <2> QED BY <1>9, <2>1, <2>2, <2>3 DEF MigNext
<1> QED BY <1>8, <1>9

-----------------------------------------------------------------------------
(* The ledger.                                                             *)

\* Where a run stands in its lane: right behind the last row.
Position ==
  \A o \in Ops :
    /\ run[o].stage \in {"scripts", "recording"} =>
         Recorded(db[run[o].lane]) = 1 .. run[o].next - 1
    /\ run[o].stage = "recording" => run[o].next \in db[run[o].lane].done

LEMMA LedgerInit == MigInit => LedgerTellsTruth /\ Position
<1> SUFFICES ASSUME MigInit PROVE LedgerTellsTruth /\ Position OBVIOUS
<1>1. \A l \in Lanes : Recorded(db[l]) = 1 .. 0 BY DEF MigInit
<1>a. 0 \in 0 .. NumScripts /\ (1 .. 0) = {} OBVIOUS
<1>2. LedgerTellsTruth
  <2> SUFFICES ASSUME NEW l \in Lanes
               PROVE  Recorded(db[l]) = 1 .. 0 /\ 1 .. 0 \subseteq db[l].done
    BY <1>a DEF LedgerTellsTruth
  <2> QED BY <1>1, <1>a
<1>3. Position BY DEF MigInit, Position, Idle
<1> QED BY <1>2, <1>3

LEMMA LedgerStep ==
  Types /\ Types' /\ Fenced /\ LedgerTellsTruth /\ Position /\ [MigNext]_migVars
    => LedgerTellsTruth' /\ Position'
<1> SUFFICES ASSUME Types, Types', Fenced, LedgerTellsTruth, Position, [MigNext]_migVars
             PROVE  LedgerTellsTruth' /\ Position'
  OBVIOUS
<1>a. MigrationsTypeOK /\ \A o \in Ops : run[o] \in Placed BY DEF Types
<1>b. \A l \in Lanes : db[l] \in Lane BY <1>a DEF MigrationsTypeOK
<1>1. ASSUME \A o \in Ops : ~OwnerSteps(o) PROVE LedgerTellsTruth' /\ Position'
  <2>1. db' = db /\ \A p \in Ops : run'[p] = run[p] \/ run'[p].stage \notin {"scripts", "recording"}
    BY <1>1, <1>a, OutsideSteps
  <2>2. LedgerTellsTruth' BY <2>1 DEF LedgerTellsTruth, Recorded
  <2>3. Position' BY <2>1 DEF Position, Recorded
  <2> QED BY <2>2, <2>3
<1>2. ASSUME NEW o \in Ops, OwnerSteps(o) PROVE LedgerTellsTruth' /\ Position'
  <2>a. \A p \in Ops \ {o} : run'[p].stage \notin {"scripts", "recording"}
    BY <1>2, <1>a, Alone DEF Locked, Stages
  <2>b. run[o] \in Run BY <1>a DEF MigrationsTypeOK
  <2>1. ASSUME NEW l \in Lanes, Adopt(o, l) PROVE LedgerTellsTruth' /\ Position'
    <3> DEFINE p == run[o].challenge[l]
    <3>1. p \in 0 .. NumScripts /\ p # 0 /\ Adoptable(db[l]) = p
      BY <2>1, <2>b DEF Adopt, Run
    <3>2. db[l].done = 1 .. p
      <4>1. \A k \in Ordinals : k \in db[l].done <=> k <= p BY <3>1 DEF Adoptable, Proven
      <4>2. db[l].done \subseteq Ordinals BY <1>b DEF Lane
      <4>3. \A k : k \in db[l].done <=> k \in 1 .. p
        BY <3>1, <4>1, <4>2 DEF Ordinals
      <4> QED BY <4>3
    <3>3. Recorded(db[l]) = {}
      <4>1. PICK q \in 0 .. NumScripts : Recorded(db[l]) = 1 .. q BY DEF LedgerTellsTruth
      <4>2. 1 \notin Recorded(db[l]) BY <2>1, <3>1 DEF Adopt, Recorded
      <4> QED BY <4>1, <4>2
    <3>4. \A k \in Ordinals : run[o].manifest[k] # NoRow
      BY <2>b DEF Run, Manifests, Revisions, NoRow
    <3>5. /\ db'[l].done = db[l].done
          /\ db'[l].ledger = [k \in Ordinals |-> IF k <= p THEN run[o].manifest[k] ELSE db[l].ledger[k]]
          /\ \A m \in Lanes \ {l} : db'[m] = db[m]
      BY <2>1, <1>a DEF Adopt, MigrationsTypeOK, Lane
    <3>6. Recorded(db'[l]) = 1 .. p
      BY <3>1, <3>3, <3>4, <3>5 DEF Recorded, Ordinals
    <3> HIDE DEF p
    <3>7. LedgerTellsTruth'
      <4> SUFFICES ASSUME NEW m \in Lanes
                   PROVE  \E q \in 0 .. NumScripts : Recorded(db'[m]) = 1 .. q /\ 1 .. q \subseteq db'[m].done
        BY DEF LedgerTellsTruth, Recorded
      <4>1. CASE m = l BY <4>1, <3>1, <3>2, <3>5, <3>6
      <4>2. CASE m # l BY <4>2, <3>5 DEF LedgerTellsTruth
      <4> QED BY <4>1, <4>2
    <3>8. run'[o].stage \notin {"scripts", "recording"} BY <2>1, <2>b, <1>a DEF Adopt, Run, MigrationsTypeOK
    <3> QED BY <3>7, <3>8, <2>a DEF Position
  <2>2. ASSUME NEW l \in Lanes, BeginLane(o, l) PROVE LedgerTellsTruth' /\ Position'
    <3>1. PICK q \in 0 .. NumScripts : Recorded(db[l]) = 1 .. q BY DEF LedgerTellsTruth
    <3>2. FirstPending(db[l]) = q + 1 BY <3>1, PrefixLength
    <3>3. /\ run'[o].stage = "scripts" /\ run'[o].lane = l /\ run'[o].next = q + 1
          /\ db' = db
      BY <2>2, <3>2, <2>b, <1>a DEF BeginLane, Run, MigrationsTypeOK
    <3>4. LedgerTellsTruth' BY <3>3 DEF LedgerTellsTruth, Recorded
    <3>5. Recorded(db'[run'[o].lane]) = 1 .. run'[o].next - 1 BY <3>1, <3>3
    <3> QED BY <3>3, <3>4, <3>5, <2>a DEF Position, Recorded
  <2>3. ASSUME RunScript(o) PROVE LedgerTellsTruth' /\ Position'
    <3> DEFINE l == run[o].lane
    <3>1. l \in Lanes /\ Recorded(db[l]) = 1 .. run[o].next - 1
      BY <2>3, <1>a DEF RunScript, At, Placed, Position
    <3>2. /\ db'[l].done = db[l].done \cup {run[o].next} /\ db'[l].ledger = db[l].ledger
          /\ \A m \in Lanes \ {l} : db'[m] = db[m]
      BY <2>3, <3>1, <1>a, <1>b DEF RunScript, MigrationsTypeOK, Lane
    <3>3. /\ run'[o].stage = "recording" /\ run'[o].lane = l /\ run'[o].next = run[o].next
      BY <2>3, <2>b, <1>a DEF RunScript, Goes, Run, MigrationsTypeOK
    <3>5. Recorded(db'[l]) = Recorded(db[l]) BY <3>2 DEF Recorded
    <3>4. LedgerTellsTruth'
      <4> SUFFICES ASSUME NEW m \in Lanes
                   PROVE  \E p \in 0 .. NumScripts : Recorded(db'[m]) = 1 .. p /\ 1 .. p \subseteq db'[m].done
        BY DEF LedgerTellsTruth, Recorded
      <4>1. Recorded(db'[m]) = Recorded(db[m]) /\ db[m].done \subseteq db'[m].done
        BY <3>2, <3>5
      <4> QED BY <4>1 DEF LedgerTellsTruth
    <3>6. Recorded(db'[run'[o].lane]) = 1 .. run'[o].next - 1 /\ run'[o].next \in db'[run'[o].lane].done
      BY <3>1, <3>2, <3>3, <3>5
    <3> HIDE DEF l
    <3>7. Position' BY <3>6, <2>a DEF Position, Recorded
    <3> QED BY <3>4, <3>7
  <2>4. ASSUME RecordScript(o) PROVE LedgerTellsTruth' /\ Position'
    <3> DEFINE l == run[o].lane
               n == run[o].next
    <3>1. /\ l \in Lanes /\ n \in Ordinals /\ Recorded(db[l]) = 1 .. n - 1 /\ n \in db[l].done
      BY <2>4, <1>a DEF RecordScript, At, Placed, Position
    <3>2. run[o].manifest[n] # NoRow BY <3>1, <2>b DEF Run, Manifests, Revisions, NoRow
    <3>3. /\ db'[l].done = db[l].done
          /\ db'[l].ledger = [db[l].ledger EXCEPT ![n] = run[o].manifest[n]]
          /\ \A m \in Lanes \ {l} : db'[m] = db[m]
      BY <2>4, <3>1, <1>a, <1>b DEF RecordScript, MigrationsTypeOK, Lane
    <3>4. /\ run'[o].stage = "scripts" /\ run'[o].lane = l /\ run'[o].next = n + 1
      BY <2>4, <2>b, <1>a DEF RecordScript, Run, MigrationsTypeOK
    <3>a. db[l].ledger \in [Ordinals -> Revisions \cup {NoRow}] BY <3>1, <1>b DEF Lane
    <3>5. Recorded(db'[l]) = Recorded(db[l]) \cup {n}
      BY <3>1, <3>2, <3>3, <3>a DEF Recorded
    <3>6. Recorded(db'[l]) = 1 .. n BY <3>1, <3>5 DEF Ordinals
    <3>7. 1 .. n \subseteq db[l].done
      <4>1. PICK q \in 0 .. NumScripts : Recorded(db[l]) = 1 .. q /\ 1 .. q \subseteq db[l].done
        BY <3>1 DEF LedgerTellsTruth
      <4>2. \A k \in 1 .. n : k = n \/ k \in 1 .. n - 1 BY <3>1 DEF Ordinals
      <4> QED BY <3>1, <4>1, <4>2
    <3>8. n \in 0 .. NumScripts BY <3>1 DEF Ordinals
    <3> HIDE DEF l, n
    <3>9. LedgerTellsTruth'
      <4> SUFFICES ASSUME NEW m \in Lanes
                   PROVE  \E p \in 0 .. NumScripts : Recorded(db'[m]) = 1 .. p /\ 1 .. p \subseteq db'[m].done
        BY DEF LedgerTellsTruth, Recorded
      <4>1. CASE m = l BY <4>1, <3>3, <3>6, <3>7, <3>8
      <4>2. CASE m # l BY <4>2, <3>3 DEF LedgerTellsTruth
      <4> QED BY <4>1, <4>2
    <3>10. Recorded(db'[run'[o].lane]) = 1 .. run'[o].next - 1 BY <3>4, <3>6, <3>8
    <3>11. Position' BY <3>4, <3>10, <2>a DEF Position, Recorded
    <3> QED BY <3>9, <3>11
  <2>5. ASSUME \/ Establish(o) \/ DeclareTakeover(o) \/ TakeOver(o) \/ Check(o)
               \/ FinishLane(o) \/ Succeed(o) \/ Unmark(o)
        PROVE  LedgerTellsTruth' /\ Position'
    <3>1. db' = db
      BY <2>5 DEF Establish, DeclareTakeover, TakeOver, Check, FinishLane, Succeed, Unmark
    <3>2. run'[o].stage \notin {"scripts", "recording"}
      BY <2>5, <1>a, <2>b DEF Establish, DeclareTakeover, TakeOver, Check, FinishLane, Succeed, Unmark,
                              Goes, MigrationsTypeOK, Run
    <3>3. LedgerTellsTruth' BY <3>1 DEF LedgerTellsTruth, Recorded
    <3> QED BY <3>2, <3>3, <2>a DEF Position
  <2> QED BY <1>2, <2>1, <2>2, <2>3, <2>4, <2>5 DEF OwnerSteps
<1> QED BY <1>1, <1>2

LedgerInv == Types /\ Fenced /\ LedgerTellsTruth /\ Position

LEMMA LedgerHolds == MigSpec => []LedgerInv
<1>1. MigInit => LedgerInv BY InitTypes, FencedInit, LedgerInit DEF LedgerInv
<1>2. LedgerInv /\ [MigNext]_migVars => LedgerInv'
  BY TypesStep, FencedStep, LedgerStep DEF LedgerInv, Types
<1> QED BY <1>1, <1>2, PTL DEF MigSpec

\* No interleaving of commands, deaths, adoptions and edits makes a ledger claim
\* a script the schema does not have, or leave one out (runner.ts:2564): what
\* `status' reports applied is applied.
THEOREM LedgerIsTrue == MigSpec => []LedgerTellsTruth
<1>1. LedgerInv => LedgerTellsTruth BY DEF LedgerInv
<1> QED BY <1>1, LedgerHolds, PTL

-----------------------------------------------------------------------------
(* The plan, and the reopening.                                            *)

\* An official process is bound to a plan that stays, and works on its lanes.
Bound ==
  \A o \in Ops : Official(o) /\ run[o].stage # "idle" =>
    plan[o] # NoPlan /\ run[o].todo \subseteq plan[o].lanes

\* What is left to do is untouched, and the lane in hand is not left to do.
Untouched ==
  \A o \in Ops :
    /\ Official(o) /\ run[o].stage \in {"checked", "adopted", "scripts", "recording"} =>
         \A l \in run[o].todo : StatusOf(db[l], plan[o].manifest) = plan[o].status[l]
    /\ run[o].stage \in {"adopted", "scripts", "recording"} => run[o].lane \notin run[o].todo

\* What an operation may do is on its record.
OnRecord ==
  \A o \in Ops :
    /\ run[o].stage = "taking" => "takeover" \in audit[o]
    /\ run[o].stage = "audited" =>
         /\ Official(o)
         /\ "success" \in audit[o]
         /\ \A l \in plan[o].lanes : Classify(db[l], plan[o].manifest) = "up_to_date"

PlanInv == Types /\ Fenced /\ Bound /\ Untouched /\ OnRecord

\* What the owner of the lock makes of its own record.
LEMMA OwnerKeeps ==
  ASSUME MigrationsTypeOK, NEW o \in Ops, OwnerSteps(o)
  PROVE  /\ run'[o].mode = run[o].mode /\ run'[o].todo \subseteq run[o].todo
         /\ run[o].stage # "idle"
         /\ UNCHANGED plan
<1>1. run[o] \in Run BY DEF MigrationsTypeOK
<1>2. ASSUME NEW l \in Lanes, Adopt(o, l) \/ BeginLane(o, l)
      PROVE  run'[o].mode = run[o].mode /\ run'[o].todo \subseteq run[o].todo
  BY <1>1, <1>2 DEF MigrationsTypeOK, Adopt, BeginLane, Run
<1>3. ASSUME \/ Establish(o) \/ DeclareTakeover(o) \/ TakeOver(o) \/ Check(o)
             \/ RunScript(o) \/ RecordScript(o) \/ FinishLane(o) \/ Succeed(o) \/ Unmark(o)
      PROVE  run'[o].mode = run[o].mode /\ run'[o].todo \subseteq run[o].todo
  BY <1>1, <1>3 DEF MigrationsTypeOK, Establish, DeclareTakeover, TakeOver, Check, RunScript,
                    RecordScript, FinishLane, Succeed, Unmark, Goes, Run
<1>4. run[o].stage # "idle"
  BY DEF OwnerSteps, Establish, DeclareTakeover, TakeOver, Check, Adopt, BeginLane, RunScript,
         RecordScript, FinishLane, Succeed, Unmark, At
<1>5. UNCHANGED plan
  BY DEF OwnerSteps, Establish, DeclareTakeover, TakeOver, Check, Adopt, BeginLane, RunScript,
         RecordScript, FinishLane, Succeed, Unmark
<1> QED BY <1>2, <1>3, <1>4, <1>5 DEF OwnerSteps

LEMMA PlanInit == MigInit => PlanInv
BY InitTypes, FencedInit DEF MigInit, PlanInv, Bound, Untouched, OnRecord, Idle

LEMMA BoundStep ==
  Types /\ Fenced /\ Bound /\ [MigNext]_migVars => Bound'
<1> SUFFICES ASSUME Types, Fenced, Bound, [MigNext]_migVars PROVE Bound' OBVIOUS
<1>a. MigrationsTypeOK BY DEF Types
<1>1. ASSUME NEW o \in Ops, OwnerSteps(o) PROVE Bound'
  BY <1>1, <1>a, OwnerKeeps, OwnersOwn DEF Bound, Official
<1>2. ASSUME \A o \in Ops : ~OwnerSteps(o) PROVE Bound'
  <2>1. \A p \in Ops : plan[p] # NoPlan => plan'[p] = plan[p] BY <1>2, <1>a, OutsideSteps
  <2>2. ASSUME NEW o \in Ops,
               \/ \E mode \in {"apply", "recover"}, prior \in Ops \cup {NoOp} : Start(o, mode, prior)
               \/ \E l \in Lanes, mode \in {"isolated_apply", "isolated_adopt"} :
                     StartIsolated(o, l, mode)
        PROVE  Bound'
    <3>1. UNCHANGED plan BY <2>2 DEF Start, StartIsolated
    <3> QED BY <2>2, <3>1, Starts, <1>a DEF Bound, Official, MigrationsTypeOK
  <2>3. ASSUME \A o \in Ops : ~(\/ \E mode \in {"apply", "recover"}, prior \in Ops \cup {NoOp} :
                                      Start(o, mode, prior)
                                \/ \E l \in Lanes, mode \in {"isolated_apply", "isolated_adopt"} :
                                      StartIsolated(o, l, mode))
        PROVE  \A p \in Ops : \/ run'[p].stage = "idle"
                             \/ /\ run'[p].mode = run[p].mode /\ run'[p].todo = run[p].todo
                                /\ run[p].stage # "idle" \/ run'[p].stage = run[p].stage
    <3>1. ASSUME NEW o \in Ops, AcquireLock(o) \/ Close(o)
          PROVE  \A p \in Ops : \/ run'[p].stage = "idle"
                               \/ /\ run'[p].mode = run[p].mode /\ run'[p].todo = run[p].todo
                                  /\ run[p].stage # "idle" \/ run'[p].stage = run[p].stage
      BY <3>1, <1>a DEF AcquireLock, Close, Goes, At, MigrationsTypeOK, Run, Idle
    <3>2. CASE UNCHANGED run BY <3>2
    <3> QED BY <1>2, <2>3, <3>1, <3>2
      DEF MigNext, Operation, OwnerSteps, Plan, Backup, Drain, Writing, Connect, TakeFence,
          PassMarker, Refuse, EndWrite, Disconnect, Moves, EditScript, migVars
  <2> QED BY <2>1, <2>2, <2>3 DEF Bound, Official
<1> QED BY <1>1, <1>2

LEMMA UntouchedStep ==
  Types /\ Fenced /\ Bound /\ Untouched /\ [MigNext]_migVars => Untouched'
<1> SUFFICES ASSUME Types, Fenced, Bound, Untouched, [MigNext]_migVars PROVE Untouched' OBVIOUS
<1>a. MigrationsTypeOK /\ \A o \in Ops : run[o] \in Placed BY DEF Types
<1> DEFINE Inside == {"checked", "adopted", "scripts", "recording"}
<1>1. ASSUME \A o \in Ops : ~OwnerSteps(o) PROVE Untouched'
  <2>1. ASSUME NEW p \in Ops
        PROVE  \/ run'[p] = run[p]
               \/ run'[p].stage \notin Inside
               \/ run'[p].stage = "checked" /\ run'[p].mode \notin {"apply", "recover"}
    <3>1. \/ run'[p] = run[p]
          \/ run'[p].stage \in {"idle", "started", "locked"}
          \/ run'[p].stage = "checked" /\ run'[p].mode \notin {"apply", "recover"}
      BY <1>1, <1>a, OutsideSteps
    <3> QED BY <3>1
  <2>2. db' = db /\ \A p \in Ops : plan[p] # NoPlan => plan'[p] = plan[p]
    BY <1>1, <1>a, OutsideSteps
  <2> QED BY <2>1, <2>2 DEF Untouched, Bound, Official
<1>2. ASSUME NEW o \in Ops, OwnerSteps(o) PROVE Untouched'
  <2>a. \A p \in Ops \ {o} : run'[p].stage \notin Inside
    BY <1>2, <1>a, Alone DEF Locked, Stages
  <2>b. run[o] \in Run /\ run'[o].mode = run[o].mode /\ plan' = plan
    BY <1>2, <1>a, OwnerKeeps DEF MigrationsTypeOK
  <2> DEFINE Mine ==
        /\ Official(o) /\ run'[o].stage \in Inside =>
             \A l \in run'[o].todo : StatusOf(db'[l], plan[o].manifest) = plan[o].status[l]
        /\ run'[o].stage \in {"adopted", "scripts", "recording"} => run'[o].lane \notin run'[o].todo
  <2>c. ASSUME Mine PROVE Untouched'
    <3> SUFFICES ASSUME NEW p \in Ops
                 PROVE  /\ run'[p].mode \in {"apply", "recover"} /\ run'[p].stage \in Inside =>
                             \A l \in run'[p].todo :
                               StatusOf(db'[l], plan'[p].manifest) = plan'[p].status[l]
                        /\ run'[p].stage \in {"adopted", "scripts", "recording"} =>
                             run'[p].lane \notin run'[p].todo
      BY DEF Untouched, Official
    <3>1. CASE p = o BY <3>1, <2>c, <2>b DEF Official
    <3>2. CASE p # o BY <3>2, <2>a
    <3> QED BY <3>1, <3>2
  <2> HIDE DEF Mine
  <2>e. run[o].todo \subseteq Lanes BY <2>b DEF Run
  <2>d. Official(o) => run[o].todo \subseteq plan[o].lanes
    BY <1>2, <1>a, OwnerKeeps DEF Bound
  <2>2. ASSUME NEW l \in Lanes, Adopt(o, l) PROVE Untouched'
    <3>1. /\ run'[o].todo = run[o].todo \ {l} /\ run[o].stage = "checked"
          /\ Official(o) => run'[o].lane = l
          /\ ~Official(o) => run'[o].stage = "checked"
      BY <2>2, <2>b, <1>a DEF Adopt, MigrationsTypeOK, Run, At
    <3>2. \A m \in run'[o].todo : db'[m] = db[m]
      BY <2>2, <2>e, <3>1, <1>a DEF Adopt, MigrationsTypeOK
    <3>3. Mine BY <3>1, <3>2 DEF Untouched, Mine
    <3> QED BY <3>3, <2>c
  <2>3. ASSUME NEW l \in Lanes, BeginLane(o, l) PROVE Untouched'
    <3>a. run'[o] = [run[o] EXCEPT !.stage = "scripts", !.lane = l,
                                   !.todo = run[o].todo \ {l}, !.next = FirstPending(db[l])]
      BY <2>3, <1>a DEF BeginLane, MigrationsTypeOK
    <3>1. /\ run'[o].todo = run[o].todo \ {l} /\ run[o].stage \in {"checked", "adopted"}
          /\ run'[o].lane = l /\ db' = db
      <4>1. run[o].stage \in {"checked", "adopted"} /\ db' = db BY <2>3 DEF BeginLane, At
      <4>2. run'[o].todo = run[o].todo \ {l} /\ run'[o].lane = l BY <2>b, <3>a DEF Run
      <4> QED BY <4>1, <4>2
    <3>3. Mine BY <3>1 DEF Untouched, Mine
    <3> QED BY <3>3, <2>c
  <2>4. ASSUME RunScript(o) \/ RecordScript(o) PROVE Untouched'
    <3>1. /\ run'[o].todo = run[o].todo /\ run'[o].lane = run[o].lane
          /\ run[o].stage \in {"scripts", "recording"}
      BY <2>4, <2>b, <1>a DEF RunScript, RecordScript, Goes, MigrationsTypeOK, Run, At
    <3>2. \A m \in run[o].todo : db'[m] = db[m]
      BY <2>4, <2>e, <3>1, <1>a DEF RunScript, RecordScript, Untouched, MigrationsTypeOK
    <3>3. Mine BY <3>1, <3>2 DEF Untouched, Mine
    <3> QED BY <3>3, <2>c
  <2>5. ASSUME FinishLane(o) PROVE Untouched'
    <3>1. /\ run'[o].todo = run[o].todo /\ run'[o].stage = "checked" /\ db' = db
          /\ run[o].stage = "scripts"
      BY <2>5, <2>b, <1>a DEF FinishLane, MigrationsTypeOK, Run, At
    <3>3. Mine BY <3>1 DEF Untouched, Mine
    <3> QED BY <3>3, <2>c
  <2>6. ASSUME Establish(o) \/ DeclareTakeover(o) \/ TakeOver(o) \/ Succeed(o) \/ Unmark(o)
        PROVE  Untouched'
    <3>1. run'[o].stage \notin Inside
      BY <2>6, <2>b, <1>a DEF Establish, DeclareTakeover, TakeOver, Succeed, Unmark, Goes,
                              MigrationsTypeOK, Run
    <3>2. Mine BY <3>1 DEF Mine
    <3> QED BY <3>2, <2>c
  <2>7. ASSUME Check(o) PROVE Untouched'
    <3>1. /\ run'[o].stage = "checked" /\ run'[o].todo = run[o].todo /\ db' = db /\ run[o].stage = "marked"
          /\ \A l \in plan[o].lanes : StatusOf(db[l], plan[o].manifest) = plan[o].status[l]
      BY <2>7, <2>b, <1>a DEF Check, AsPlanned, Goes, MigrationsTypeOK, Run, At
    <3>2. Mine BY <3>1, <2>d DEF Mine
    <3> QED BY <3>2, <2>c
  <2> QED BY <1>2, <2>2, <2>3, <2>4, <2>5, <2>6, <2>7 DEF OwnerSteps
<1> QED BY <1>1, <1>2

LEMMA OnRecordStep ==
  Types /\ Fenced /\ Bound /\ OnRecord /\ [MigNext]_migVars => OnRecord'
<1> SUFFICES ASSUME Types, Fenced, Bound, OnRecord, [MigNext]_migVars PROVE OnRecord' OBVIOUS
<1>a. MigrationsTypeOK BY DEF Types
<1>b. run \in [Ops -> Run] /\ audit \in [Ops -> SUBSET {"takeover", "success"}]
  BY <1>a DEF MigrationsTypeOK
<1>1. ASSUME \A o \in Ops : ~OwnerSteps(o) PROVE OnRecord'
  <2>1. /\ UNCHANGED <<db, audit>>
        /\ \A p \in Ops : run'[p] = run[p] \/ run'[p].stage \notin {"taking", "audited"}
        /\ \A p \in Ops : plan[p] # NoPlan => plan'[p] = plan[p]
    BY <1>1, <1>a, OutsideSteps
  <2> SUFFICES ASSUME NEW p \in Ops
               PROVE  /\ run'[p].stage = "taking" => "takeover" \in audit'[p]
                      /\ run'[p].stage = "audited" =>
                           /\ run'[p].mode \in {"apply", "recover"}
                           /\ "success" \in audit'[p]
                           /\ \A l \in plan'[p].lanes :
                                Classify(db'[l], plan'[p].manifest) = "up_to_date"
    BY DEF OnRecord, Official
  <2>2. CASE run'[p].stage \in {"taking", "audited"}
    <3>1. run'[p] = run[p] /\ audit' = audit /\ db' = db BY <2>1, <2>2
    <3>2. run[p].stage = "audited" => plan'[p] = plan[p]
      BY <2>1 DEF OnRecord, Bound
    <3> QED BY <3>1, <3>2 DEF OnRecord, Official
  <2> QED BY <2>2
<1>2. ASSUME NEW o \in Ops, OwnerSteps(o) PROVE OnRecord'
  <2>a. \A p \in Ops \ {o} : run'[p].stage \notin {"taking", "audited"}
    BY <1>2, <1>a, Alone DEF Locked, Stages
  <2>b. run[o] \in Run /\ plan' = plan BY <1>2, <1>a, OwnerKeeps DEF MigrationsTypeOK
  <2>c. ASSUME NEW s, Goes(o, s) PROVE run'[o].stage = s
    BY <2>c, <2>b, <1>b DEF Goes, Run
  <2>1. CASE DeclareTakeover(o)
    <3>1. run'[o].stage = "taking" /\ "takeover" \in audit'[o]
      BY <2>1, <2>c, <1>b DEF DeclareTakeover, Append
    <3> QED BY <3>1, <2>a DEF OnRecord
  <2>2. CASE Succeed(o)
    <3>1. /\ run'[o].stage = "audited" /\ "success" \in audit'[o] /\ db' = db
          /\ run'[o].mode \in {"apply", "recover"}
          /\ \A l \in plan[o].lanes : Classify(db[l], plan[o].manifest) = "up_to_date"
      <4>1. run'[o].stage = "audited" BY <2>2, <2>c DEF Succeed
      <4>2. run'[o].mode = run[o].mode BY <2>b, <1>2, <1>a, OwnerKeeps
      <4>3. "success" \in audit'[o] BY <2>2, <1>b DEF Succeed, Append
      <4> QED BY <2>2, <4>1, <4>2, <4>3 DEF Succeed, Official
    <3> SUFFICES ASSUME NEW p \in Ops
                 PROVE  /\ run'[p].stage = "taking" => "takeover" \in audit'[p]
                        /\ run'[p].stage = "audited" =>
                             /\ run'[p].mode \in {"apply", "recover"}
                             /\ "success" \in audit'[p]
                             /\ \A l \in plan'[p].lanes :
                                  Classify(db'[l], plan'[p].manifest) = "up_to_date"
      BY DEF OnRecord, Official
    <3>2. CASE p = o BY <3>1, <3>2, <2>b
    <3>3. CASE p # o BY <3>3, <2>a
    <3> QED BY <3>2, <3>3
  <2>3. CASE ~DeclareTakeover(o) /\ ~Succeed(o)
    <3>b. ASSUME Establish(o) \/ TakeOver(o) \/ Check(o) \/ RunScript(o) \/ Unmark(o)
          PROVE  run'[o].stage \notin {"taking", "audited"}
      <4>1. \E s \in Stages \ {"taking", "audited"} : Goes(o, s)
        BY <3>b DEF Establish, TakeOver, Check, RunScript, Unmark, Stages
      <4> QED BY <4>1, <2>c
    <3>c. ASSUME RecordScript(o) \/ FinishLane(o) \/ \E l \in Lanes : Adopt(o, l)
          PROVE  run'[o].stage \notin {"taking", "audited"}
      <4>1. run'[o].stage \in {"scripts", "checked", "adopted"}
        <5>1. ASSUME NEW l \in Lanes, Adopt(o, l) PROVE run'[o].stage \in {"checked", "adopted"}
          BY <5>1, <2>b, <1>b DEF Adopt, Run
        <5>2. ASSUME RecordScript(o) PROVE run'[o].stage = "scripts"
          BY <5>2, <2>b, <1>b DEF RecordScript, Run
        <5>3. ASSUME FinishLane(o) PROVE run'[o].stage = "checked"
          BY <5>3, <2>b, <1>b DEF FinishLane, Run
        <5> QED BY <3>c, <5>1, <5>2, <5>3
      <4> QED BY <4>1
    <3>d. ASSUME \E l \in Lanes : BeginLane(o, l)
          PROVE  run'[o].stage \notin {"taking", "audited"}
      <4>1. PICK l \in Lanes : BeginLane(o, l) BY <3>d
      <4>2. run'[o] = [run[o] EXCEPT !.stage = "scripts", !.lane = l,
                                     !.todo = run[o].todo \ {l}, !.next = FirstPending(db[l])]
        BY <4>1, <1>b DEF BeginLane
      <4>3. run'[o].stage = "scripts" BY <4>2, <2>b DEF Run
      <4> QED BY <4>3
    <3>1. run'[o].stage \notin {"taking", "audited"}
      BY <1>2, <2>3, <3>b, <3>c, <3>d DEF OwnerSteps
    <3> QED BY <3>1, <2>a DEF OnRecord
  <2> QED BY <2>1, <2>2, <2>3
<1> QED BY <1>1, <1>2

LEMMA PlanHolds == MigSpec => []PlanInv
<1>1. MigInit => PlanInv BY PlanInit
<1>2. PlanInv /\ [MigNext]_migVars => PlanInv'
  BY TypesStep, FencedStep, BoundStep, UntouchedStep, OnRecordStep DEF PlanInv, Types
<1> QED BY <1>1, <1>2, PTL DEF MigSpec

\* What an official run migrates is what was planned, dumped and verified
\* (official.ts:1512), whoever else tries to run meanwhile.
THEOREM PlannedIsMigrated == MigSpec => []MigratesWhatWasPlanned
<1>1. PlanInv => MigratesWhatWasPlanned BY DEF PlanInv, Untouched, MigratesWhatWasPlanned, At
<1> QED BY <1>1, PlanHolds, PTL

\* Who moves the marker: the owner of the lock, in three ways.
LEMMA MarkerMoves ==
  ASSUME MigrationsTypeOK, [MigNext]_migVars, marker' # marker
  PROVE  \E o \in Ops : Establish(o) \/ TakeOver(o) \/ Unmark(o)
<1>1. PICK o \in Ops : OwnerSteps(o) BY OutsideSteps
<1> QED BY <1>1 DEF OwnerSteps, DeclareTakeover, Check, Adopt, BeginLane, RunScript, RecordScript,
                    FinishLane, Succeed

\* The database reopens to writers only with the operation in the marker
\* successful on record and its lanes complete (official.ts:1880).
THEOREM ReopenedIsWhole == MigSpec => ReopensOnlyWhole
<1>1. PlanInv /\ [MigNext]_migVars
        => [marker # NoOp /\ marker' = NoOp =>
              /\ "success" \in audit[marker]
              /\ \A l \in plan[marker].lanes :
                   Classify(db[l], plan[marker].manifest) = "up_to_date"]_migVars
  <2> SUFFICES ASSUME PlanInv, [MigNext]_migVars, marker # NoOp, marker' = NoOp
               PROVE  /\ "success" \in audit[marker]
                      /\ \A l \in plan[marker].lanes :
                           Classify(db[l], plan[marker].manifest) = "up_to_date"
    OBVIOUS
  <2>1. PICK o \in Ops : Establish(o) \/ TakeOver(o) \/ Unmark(o)
    BY MarkerMoves DEF PlanInv, Types
  <2>2. Unmark(o) BY <2>1 DEF Establish, TakeOver
  <2> QED BY <2>2 DEF Unmark, At, PlanInv, OnRecord
<1> QED BY <1>1, PlanHolds, PTL DEF MigSpec, ReopensOnlyWhole

\* Recovery takes a marker over only with the takeover on record
\* (official.ts:1758): a successor can always tell whose work it inherits.
THEOREM TakeoversRecorded == MigSpec => TakeoverOnRecord
<1>1. PlanInv /\ [MigNext]_migVars
        => [marker # NoOp /\ marker' \notin {marker, NoOp} => "takeover" \in audit[marker']]_migVars
  <2> SUFFICES ASSUME PlanInv, [MigNext]_migVars, marker # NoOp, marker' \notin {marker, NoOp}
               PROVE  "takeover" \in audit[marker']
    OBVIOUS
  <2>1. PICK o \in Ops : Establish(o) \/ TakeOver(o) \/ Unmark(o)
    BY MarkerMoves DEF PlanInv, Types
  <2>2. TakeOver(o) BY <2>1 DEF Establish, Unmark
  <2> QED BY <2>2 DEF TakeOver, At, PlanInv, OnRecord
<1> QED BY <1>1, PlanHolds, PTL DEF MigSpec, TakeoverOnRecord
=============================================================================
