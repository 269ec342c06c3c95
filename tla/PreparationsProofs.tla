------------------------- MODULE PreparationsProofs -------------------------
(***************************************************************************)
(* Theorems about preparations, for any processes, files, batches,         *)
(* attempts and bounds.                                                    *)
(*                                                                         *)
(* Why a ready answer was true: an identity never comes back, so what was  *)
(* served before an edit never equals the tree after it; a verification    *)
(* that finds the two equal has read a build that was current at that      *)
(* moment (Sound).  A build is published with the identity its ingest      *)
(* resolved, which is no later than the tree it planned (Placed): if it is *)
(* the identity of the tree, that very tree was planned, and an ingest     *)
(* that left nothing over has written it.  All of it rests on the row      *)
(* having one holder (Exclusive).                                          *)
(***************************************************************************)
EXTENDS Preparations, FiniteSetTheorems, TLAPS

USE PreparationsAssumption

\* What a preparation is at its stage.
Placed(p) ==
  /\ At(p, "idle") => prep[p] = Idle
  /\ prep[p].stage \in {"verifying", "comparing"} /\ prep[p].result = "none" => prep[p].batch = 0
  /\ prep[p].read <= tree /\ prep[p].scanned <= tree
  /\ Ingesting(p) => prep[p].read <= prep[p].scanned

\* What a preparation may rely on.
Sound(p) ==
  /\ ~At(p, "idle") /\ served = tree => seen[p]
  /\ At(p, "comparing") /\ prep[p].read = tree => seen[p]
  /\ At(p, "writing") /\ prep[p].scanned = tree /\ prep[p].left = 0 => stale \subseteq prep[p].todo
  /\ At(p, "finishing") /\ prep[p].scanned = tree /\ Complete(p) => stale = {}

\* The inductive invariant.
PrepInv ==
  /\ PrepTypeOK
  /\ served <= tree
  /\ \A f \in Files : text[f] <= tree
  /\ served = tree => stale = {}
  /\ \A p \in Processes : Placed(p) /\ Sound(p)

LEMMA FileCount == Cardinality(Files) \in Nat
BY FS_CardinalityType

LEMMA IdleType == Idle \in Preps
BY FileCount DEF Idle, Preps, Stages, Trees

LEMMA InitInv == Init => PrepInv
<1> SUFFICES ASSUME Init PROVE PrepInv OBVIOUS
<1> USE DEF Init
<1>1. PrepTypeOK
  <2>1. prep \in [Processes -> Preps] BY IdleType
  <2>2. \A p \in Processes : ~Holding(p) /\ ~Ingesting(p) BY DEF Holding, Ingesting, Idle
  <2> QED BY <2>1, <2>2 DEF PrepTypeOK, Trees, NoJob, JobRows
<1>2. \A p \in Processes : Placed(p) /\ Sound(p)
  BY DEF Placed, Sound, At, Ingesting, Idle
<1> QED BY <1>1, <1>2 DEF PrepInv

-----------------------------------------------------------------------------
(* One preparation moves: what a step has to show.                         *)

\* The preparation of q is left alone, or told how the row it polls ended.
Kept(q) ==
  \/ prep'[q] = prep[q]
  \/ /\ prep[q].stage \in {"asking", "polling"}
     /\ \E how \in {"succeeded", "failed"} : prep'[q] = [prep[q] EXCEPT !.ended = how]

OthersKept(p) ==
  /\ prep' = [q \in Processes |-> prep'[q]]
  /\ \A q \in Processes \ {p} : Kept(q)

\* What Holding and Ingesting promise.
Exclusive(p) ==
  /\ Holding(p) => job.status = "running" /\ ~job.due
  /\ Ingesting(p) => gate = p /\ job.bound
  /\ \A q \in Processes \ {p} : ~(Holding(p) /\ Holding(q))

LEMMA KeptFields ==
  ASSUME prep \in [Processes -> Preps], NEW q \in Processes, Kept(q)
  PROVE  /\ prep'[q] \in Preps
         /\ prep'[q].stage = prep[q].stage
         /\ prep'[q].batch = prep[q].batch
         /\ prep'[q].read = prep[q].read
         /\ prep'[q].result = prep[q].result
         /\ prep'[q].scanned = prep[q].scanned
         /\ prep'[q].todo = prep[q].todo
         /\ prep'[q].errors = prep[q].errors
         /\ prep'[q].left = prep[q].left
         /\ prep[q].stage = "idle" => prep'[q] = prep[q]
BY DEF Kept, Preps

LEMMA Moves ==
  ASSUME PrepInv, NEW p \in Processes, UNCHANGED world, OthersKept(p),
         prep'[p] \in Preps, stale' \subseteq stale,
         served' \in Trees \cup {0}, served' <= tree, served' = tree => stale' = {},
         gate' \in Processes \cup {NoProcess}, job' \in JobRows,
         seen' \in [Processes -> BOOLEAN], failures' \in 0 .. MaxFailures,
         \A q \in Processes \ {p} : /\ seen[q] => seen'[q]
                                    /\ served' = tree /\ ~At(q, "idle") => seen'[q]
                                    /\ Holding(q) => job'.status = "running" /\ ~job'.due
                                    /\ Ingesting(q) => gate' = q /\ job'.bound,
         Exclusive(p)', Placed(p)', Sound(p)'
  PROVE  PrepInv'
<1> USE DEF PrepInv
<1>1. tree' = tree /\ text' = text BY DEF world
<1>2. prep' \in [Processes -> Preps] BY KeptFields DEF OthersKept, PrepTypeOK
<1>3. ASSUME NEW q \in Processes \ {p}
      PROVE  /\ Placed(q)' /\ Sound(q)'
             /\ Holding(q)' => Holding(q)
             /\ Ingesting(q)' => Ingesting(q)
             /\ Holding(q) => Holding(q)'
  <2> DEFINE r == prep[q]
             d == prep'[q]
  <2>1. /\ d.stage = r.stage /\ d.batch = r.batch /\ d.read = r.read /\ d.result = r.result
        /\ d.scanned = r.scanned /\ d.todo = r.todo /\ d.errors = r.errors /\ d.left = r.left
        /\ r.stage = "idle" => d = r
    BY KeptFields DEF OthersKept, PrepTypeOK
  <2>2. Placed(q) /\ Sound(q) OBVIOUS
  <2>3. Placed(q)' BY <1>1, <2>1, <2>2 DEF Placed, At, Ingesting
  <2>4. Sound(q)'
    <3>1. seen[q] => seen'[q] OBVIOUS
    <3>2. served' = tree /\ ~At(q, "idle") => seen'[q] OBVIOUS
    <3> QED BY <1>1, <2>1, <2>2, <3>1, <3>2 DEF Sound, At, Complete
  <2> QED BY <2>1, <2>3, <2>4 DEF Holding, Ingesting, At
<1>4. \A q \in Processes : Placed(q)' /\ Sound(q)' BY <1>3
<1>5. \A q \in Processes : Exclusive(q)'
  <2>1. \A q \in Processes : \A u \in Processes \ {q} : ~(Holding(q)' /\ Holding(u)')
    BY <1>3 DEF Exclusive, PrepTypeOK
  <2> QED BY <1>3, <2>1 DEF Exclusive
<1>6. PrepTypeOK' BY <1>1, <1>2, <1>5 DEF PrepTypeOK, Exclusive
<1> QED BY <1>1, <1>4, <1>6 DEF PrepTypeOK

\* A step that leaves everything but p's own preparation alone.
LEMMA MovesAlone ==
  ASSUME PrepInv, NEW p \in Processes, UNCHANGED <<world, index, job>>,
         failures' \in 0 .. MaxFailures,
         \E d \in Preps : prep' = [prep EXCEPT ![p] = d],
         seen' \in [Processes -> BOOLEAN],
         \A q \in Processes \ {p} : seen'[q] = seen[q],
         Holding(p)' => Holding(p), Ingesting(p)' => Ingesting(p),
         Placed(p)', Sound(p)'
  PROVE  PrepInv'
<1>1. UNCHANGED <<tree, text, stale, served, gate, job>> BY DEF world, index
<1>2. prep'[p] \in Preps /\ \A q \in Processes \ {p} : prep'[q] = prep[q]
  BY DEF PrepInv, PrepTypeOK
<1>3. OthersKept(p) BY <1>2 DEF OthersKept, Kept, PrepInv, PrepTypeOK
<1>4. Exclusive(p)'
  <2>1. \A q \in Processes \ {p} : Holding(q)' => Holding(q) BY <1>2 DEF Holding, Ingesting, At
  <2> QED BY <1>1, <2>1 DEF Exclusive, PrepInv, PrepTypeOK
<1>5. \A q \in Processes \ {p} :
        /\ seen[q] => seen'[q]
        /\ served' = tree /\ ~At(q, "idle") => seen'[q]
        /\ Holding(q) => job'.status = "running" /\ ~job'.due
        /\ Ingesting(q) => gate' = q /\ job'.bound
  BY <1>1 DEF PrepInv, PrepTypeOK, Sound
<1>6. /\ served' \in Trees \cup {0} /\ served' <= tree /\ (served' = tree => stale' = {})
      /\ gate' \in Processes \cup {NoProcess} /\ job' \in JobRows
      /\ failures' \in 0 .. MaxFailures /\ stale' \subseteq stale
  BY <1>1 DEF PrepInv, PrepTypeOK
<1> QED BY <1>2, <1>3, <1>4, <1>5, <1>6, Moves

-----------------------------------------------------------------------------
(* The steps of a preparation that hold nothing, or hold on.               *)

LEMMA BeginInv == ASSUME PrepInv, NEW p \in Processes, Begin(p) PROVE PrepInv'
<1> DEFINE d == [Idle EXCEPT !.stage = "verifying"]
<1>1. prep[p] = Idle BY DEF PrepInv, Placed, Begin
<1>2. prep' = [prep EXCEPT ![p] = d] BY <1>1 DEF Begin, Goes
<1>3. d \in Preps BY IdleType DEF Idle, Preps, Stages
<1>4. prep'[p] = d BY <1>2 DEF PrepInv, PrepTypeOK
<1>5. seen'[p] = Covered /\ seen' \in [Processes -> BOOLEAN]
      /\ \A q \in Processes \ {p} : seen'[q] = seen[q]
  BY DEF Begin, PrepInv, PrepTypeOK, Covered
<1>6. tree' = tree /\ served' = served /\ tree \in Nat
  BY DEF Begin, world, index, PrepInv, PrepTypeOK, Trees
<1>7. Placed(p)' BY <1>4, <1>6 DEF Placed, At, Ingesting, Idle
<1>8. Sound(p)'
  <2>1. served = tree => seen'[p] BY <1>5 DEF Covered, PrepInv
  <2> QED BY <1>4, <1>6, <2>1 DEF Sound, At, Idle
<1>9. ~Holding(p)' /\ ~Ingesting(p)' BY <1>4 DEF Holding, Ingesting, Idle
<1> QED BY <1>2, <1>3, <1>5, <1>7, <1>8, <1>9, MovesAlone DEF Begin, PrepInv, PrepTypeOK

\* A step of p alone that leaves its history alone: the record d is what counts.
LEMMA Goes1 ==
  ASSUME PrepInv, NEW p \in Processes, NEW d \in Preps, prep' = [prep EXCEPT ![p] = d],
         UNCHANGED <<world, index, job, seen, failures>>,
         d.stage # "idle", ~At(p, "idle"),
         d.stage \in {"rechecking", "recomparing", "scanning"} => Holding(p),
         d.stage \in {"claimed", "writing", "finishing"} => Ingesting(p),
         d.stage \in {"verifying", "comparing"} /\ d.result = "none" => d.batch = 0,
         d.read \in {0, prep[p].read, served, tree}, d.scanned \in {0, prep[p].scanned},
         d.stage \in {"claimed", "writing", "finishing"} => d.read = prep[p].read
                                                           /\ d.scanned = prep[p].scanned,
         d.stage = "comparing" => d.read \in {prep[p].read, served} /\ (d.read # served => At(p, "comparing")),
         d.stage = "writing" /\ d.left = 0 => stale \subseteq d.todo,
         d.stage # "finishing"
  PROVE  PrepInv'
<1>1. prep'[p] = d BY DEF PrepInv, PrepTypeOK
<1>2. tree' = tree /\ served' = served /\ stale' = stale /\ seen' = seen /\ tree \in Nat
  BY DEF world, index, PrepInv, PrepTypeOK, Trees
<1>3. Placed(p) /\ Sound(p) /\ served <= tree BY DEF PrepInv
<1>4. Placed(p)' BY <1>1, <1>2, <1>3 DEF Placed, At, Ingesting
<1>5. Sound(p)' BY <1>1, <1>2, <1>3 DEF Sound, At
<1>6. (Holding(p)' => Holding(p)) /\ (Ingesting(p)' => Ingesting(p))
  BY <1>1 DEF Holding, Ingesting, At
<1>7. seen' \in [Processes -> BOOLEAN] BY <1>2 DEF PrepInv, PrepTypeOK
<1> QED BY <1>2, <1>4, <1>5, <1>6, <1>7, MovesAlone DEF PrepInv, PrepTypeOK

LEMMA ReadServingInv == ASSUME PrepInv, NEW p \in Processes, ReadServing(p) PROVE PrepInv'
<1> DEFINE d == [prep[p] EXCEPT !.stage = IF @ = "verifying" THEN "comparing" ELSE "recomparing",
                                !.read = served]
<1>1. prep[p] \in Preps /\ served \in Trees \cup {0} BY DEF PrepInv, PrepTypeOK
<1>2. prep' = [prep EXCEPT ![p] = d] BY <1>1 DEF ReadServing, PrepInv, PrepTypeOK
<1>3. d \in Preps BY <1>1 DEF Preps, Stages
<1>4. Placed(p) BY DEF PrepInv
<1>5. /\ d.stage = IF At(p, "verifying") THEN "comparing" ELSE "recomparing"
      /\ d.read = served /\ d.result = prep[p].result /\ d.batch = prep[p].batch
      /\ d.scanned = prep[p].scanned
  BY <1>1 DEF Preps, At
<1>6. At(p, "verifying") \/ At(p, "rechecking") BY DEF ReadServing
<1> HIDE DEF d
<1> QED BY <1>2, <1>3, <1>4, <1>5, <1>6, Goes1 DEF ReadServing, Placed, At, Holding

LEMMA NextBatchInv == ASSUME PrepInv, NEW p \in Processes, NextBatch(p) PROVE PrepInv'
<1> DEFINE n == prep[p].batch + 1
           d == [prep[p] EXCEPT !.stage = "batch", !.batch = n, !.read = 0,
                                !.result = "none", !.left = 0, !.last = Remaining(p)]
<1>1. prep[p] \in Preps BY DEF PrepInv, PrepTypeOK
<1>2. Placed(p) BY DEF PrepInv
<1>3. n \in 0 .. MaxBatches
  BY <1>1, <1>2 DEF NextBatch, Placed, At, Preps
<1>4. Remaining(p) \in 0 .. Cardinality(Files) + 1 BY <1>1, FileCount DEF Preps, Remaining
<1>5. prep' = [prep EXCEPT ![p] = d] BY <1>1 DEF NextBatch, PrepInv, PrepTypeOK
<1>6. d \in Preps
  <2>1. 0 \in 0 .. Cardinality(Files) BY FileCount
  <2> HIDE DEF n
  <2> QED BY <1>1, <1>3, <1>4, <2>1 DEF Preps, Stages
<1>7. d.stage = "batch" /\ d.read = 0 /\ d.scanned = prep[p].scanned BY <1>1 DEF Preps
<1> HIDE DEF d
<1> QED BY <1>5, <1>6, <1>7, Goes1 DEF NextBatch, At

LEMMA WaitInv == ASSUME PrepInv, NEW p \in Processes, Wait(p) PROVE PrepInv'
<1> DEFINE d == [prep[p] EXCEPT !.stage = "polling"]
<1>1. prep[p] \in Preps BY DEF PrepInv, PrepTypeOK
<1>2. prep' = [prep EXCEPT ![p] = d] BY <1>1 DEF Wait, Goes, PrepInv, PrepTypeOK
<1>3. d \in Preps BY <1>1 DEF Preps, Stages
<1>4. d.stage = "polling" /\ d.read = prep[p].read /\ d.scanned = prep[p].scanned
  BY <1>1 DEF Preps
<1> HIDE DEF d
<1> QED BY <1>2, <1>3, <1>4, Goes1 DEF Wait, At

LEMMA LearnInv == ASSUME PrepInv, NEW p \in Processes, Learn(p) PROVE PrepInv'
<1> DEFINE how == IF prep[p].ended = "succeeded" THEN "completed" ELSE "review"
           d == [prep[p] EXCEPT !.stage = "verifying", !.ended = "no", !.result = how]
<1>1. prep[p] \in Preps BY DEF PrepInv, PrepTypeOK
<1>2. prep' = [prep EXCEPT ![p] = d] BY <1>1 DEF Learn, PrepInv, PrepTypeOK
<1>3. d \in Preps BY <1>1 DEF Preps, Stages
<1>4. /\ d.stage = "verifying" /\ d.result # "none"
      /\ d.read = prep[p].read /\ d.scanned = prep[p].scanned
  BY <1>1 DEF Preps
<1> HIDE DEF d
<1> QED BY <1>2, <1>3, <1>4, Goes1 DEF Learn, At

LEMMA GoOnInv == ASSUME PrepInv, NEW p \in Processes, GoOn(p) PROVE PrepInv'
<1> DEFINE d == [prep[p] EXCEPT !.stage = "scanning", !.read = tree]
<1>1. prep[p] \in Preps /\ tree \in Trees BY DEF PrepInv, PrepTypeOK
<1>2. prep' = [prep EXCEPT ![p] = d] BY <1>1 DEF GoOn, PrepInv, PrepTypeOK
<1>3. d \in Preps BY <1>1 DEF Preps, Stages, Trees
<1>4. d.stage = "scanning" /\ d.read = tree /\ d.scanned = prep[p].scanned BY <1>1 DEF Preps
<1> HIDE DEF d
<1> QED BY <1>2, <1>3, <1>4, Goes1 DEF GoOn, At, Holding

\* What is left of a set of files is counted by a number no larger than theirs.
LEMMA LeftOver ==
  ASSUME NEW T \in SUBSET Files
  PROVE  Cardinality(T) \in 0 .. Cardinality(Files) /\ (Cardinality(T) = 0 => T = {})
BY FS_Subset, FS_CardinalityType, FS_EmptySet, FileCount

LEMMA RescanInv ==
  ASSUME PrepInv, NEW p \in Processes, NEW S \in SUBSET Files, Rescan(p, S) PROVE PrepInv'
<1> DEFINE n == Cardinality(stale \ S)
           d == [prep[p] EXCEPT !.stage = "writing", !.todo = S, !.left = n]
<1>1. prep[p] \in Preps /\ stale \subseteq Files BY DEF PrepInv, PrepTypeOK
<1>2. n \in 0 .. Cardinality(Files) /\ (n = 0 => stale \subseteq S)
  <2>1. n = 0 => stale \ S = {} BY <1>1, LeftOver
  <2> QED BY <1>1, <2>1, LeftOver
<1>3. prep' = [prep EXCEPT ![p] = d] BY <1>1 DEF Rescan, PrepInv, PrepTypeOK
<1>4. d \in Preps BY <1>1, <1>2 DEF Preps, Stages
<1>5. /\ d.stage = "writing" /\ d.todo = S /\ d.left = n
      /\ d.read = prep[p].read /\ d.scanned = prep[p].scanned
  BY <1>1 DEF Preps
<1> HIDE DEF d, n
<1> QED BY <1>2, <1>3, <1>4, <1>5, Goes1 DEF Rescan, At, Ingesting

-----------------------------------------------------------------------------
(* Answers.                                                                *)

LEMMA IdleLocal ==
  ASSUME PrepInv, NEW p \in Processes, prep'[p] = Idle, tree' = tree
  PROVE  Placed(p)' /\ Sound(p)' /\ ~Holding(p)' /\ ~Ingesting(p)'
<1>1. tree \in Nat BY DEF PrepInv, PrepTypeOK, Trees
<1> QED BY <1>1 DEF Placed, Sound, At, Holding, Ingesting, Idle

LEMMA AnswerAlone ==
  ASSUME PrepInv, NEW p \in Processes, Answer(p), UNCHANGED <<world, index, job>>,
         failures' \in 0 .. MaxFailures
  PROVE  PrepInv'
<1>1. prep' = [prep EXCEPT ![p] = Idle] /\ seen' = [seen EXCEPT ![p] = FALSE] BY DEF Answer
<1>2. prep'[p] = Idle /\ seen' \in [Processes -> BOOLEAN]
      /\ \A q \in Processes \ {p} : seen'[q] = seen[q]
  BY <1>1 DEF PrepInv, PrepTypeOK
<1>3. tree' = tree BY DEF world
<1>4. Placed(p)' /\ Sound(p)' /\ ~Holding(p)' /\ ~Ingesting(p)' BY <1>2, <1>3, IdleLocal
<1> QED BY <1>1, <1>2, <1>4, IdleType, MovesAlone

LEMMA AnswerInv ==
  ASSUME PrepInv, NEW p \in Processes, AnswerReady(p) \/ AnswerUnready(p) \/ GiveUp(p)
  PROVE  PrepInv'
BY AnswerAlone DEF AnswerReady, AnswerUnready, GiveUp, PrepInv, PrepTypeOK

-----------------------------------------------------------------------------
(* The steps of the process that holds the row.                            *)

LEMMA HoldersAlone ==
  ASSUME PrepInv, NEW p \in Processes, Holding(p)
  PROVE  \A q \in Processes \ {p} : ~Holding(q) /\ ~Ingesting(q)
BY DEF PrepInv, PrepTypeOK, Holding

\* A preparation between two batches, or none.
Released(d) ==
  \/ d = Idle
  \/ d.stage = "verifying" /\ d.result # "none" /\ d.read = 0 /\ d.scanned = 0

\* The holder lets go of the row and of the snapshot.
LEMMA Leaves ==
  ASSUME PrepInv, NEW p \in Processes, Holding(p), UNCHANGED <<world, stale>>, OthersKept(p),
         prep'[p] \in Preps, Released(prep'[p]),
         served' \in Trees \cup {0}, served' <= tree, served' = tree => stale = {},
         gate' \in Processes \cup {NoProcess}, job' \in JobRows,
         seen' \in [Processes -> BOOLEAN], failures' \in 0 .. MaxFailures,
         \A q \in Processes \ {p} : /\ seen[q] => seen'[q]
                                    /\ served' = tree /\ ~At(q, "idle") => seen'[q],
         prep'[p] # Idle /\ served' = tree => seen'[p]
  PROVE  PrepInv'
<1>1. tree' = tree /\ tree \in Nat BY DEF world, PrepInv, PrepTypeOK, Trees
<1>2. /\ prep'[p].stage \in {"idle", "verifying"} /\ prep'[p].read = 0 /\ prep'[p].scanned = 0
      /\ prep'[p].stage = "idle" => prep'[p] = Idle
      /\ prep'[p].result = "none" => prep'[p] = Idle
      /\ prep'[p].stage = "verifying" => prep'[p] # Idle
  BY DEF Released, Idle
<1>3. Placed(p)' BY <1>1, <1>2 DEF Placed, At, Ingesting, Idle
<1>4. Sound(p)' BY <1>1, <1>2 DEF Sound, At
<1>5. Exclusive(p)' BY <1>2 DEF Exclusive, Holding, Ingesting, At
<1>6. \A q \in Processes \ {p} :
        /\ Holding(q) => job'.status = "running" /\ ~job'.due
        /\ Ingesting(q) => gate' = q /\ job'.bound
  BY HoldersAlone
<1> QED BY <1>1, <1>3, <1>4, <1>5, <1>6, Moves

LEMMA SettlesFacts ==
  ASSUME PrepInv, NEW p \in Processes, NEW how \in {"succeeded", "failed"}, NEW d,
         Settles(p, how, d)
  PROVE  OthersKept(p) /\ prep'[p] = d /\ job' \in JobRows
<1>1. prep' = [q \in Processes |-> IF q = p THEN d ELSE Told(prep[q], how)] BY DEF Settles
<1>2. \A q \in Processes \ {p} : Kept(q) BY <1>1 DEF Kept, Told
<1>3. NoJob \in JobRows BY DEF NoJob, JobRows
<1> QED BY <1>1, <1>2, <1>3 DEF OthersKept, Settles

LEMMA ReturnedFacts ==
  ASSUME PrepInv, NEW p \in Processes, NEW result \in {"completed", "partial", "gate", "review"},
         NEW left \in 0 .. Cardinality(Files)
  PROVE  /\ Returned(p, result, left) \in Preps /\ Released(Returned(p, result, left))
         /\ Returned(p, result, left) # Idle
<1>1. prep[p] \in Preps BY DEF PrepInv, PrepTypeOK
<1>2. Returned(p, result, left) \in Preps BY <1>1 DEF Returned, Preps, Stages
<1>3. /\ Returned(p, result, left).stage = "verifying"
      /\ Returned(p, result, left).result = result
      /\ Returned(p, result, left).read = 0 /\ Returned(p, result, left).scanned = 0
  BY <1>1 DEF Returned, Preps
<1> QED BY <1>2, <1>3 DEF Released, Idle

\* A batch comes back and nothing was published.
LEMMA ComesBack ==
  ASSUME PrepInv, NEW p \in Processes, Holding(p), UNCHANGED <<world, stale, served, seen, failures>>,
         OthersKept(p), job' \in JobRows, gate' \in Processes \cup {NoProcess},
         NEW result \in {"completed", "partial", "gate", "review"},
         NEW left \in 0 .. Cardinality(Files), prep'[p] = Returned(p, result, left)
  PROVE  PrepInv'
<1>1. prep'[p] \in Preps /\ Released(prep'[p]) BY ReturnedFacts
<1>2. \A q \in Processes : /\ seen[q] => seen'[q]
                           /\ served' = tree /\ ~At(q, "idle") => seen'[q]
  BY DEF PrepInv, Sound
<1>3. ~At(p, "idle") BY DEF Holding, Ingesting, At
<1> QED BY <1>1, <1>2, <1>3, Leaves DEF PrepInv, PrepTypeOK

LEMMA ZeroLeft == 0 \in 0 .. Cardinality(Files)
BY FileCount

LEMMA AlreadyReadyInv == ASSUME PrepInv, NEW p \in Processes, AlreadyReady(p) PROVE PrepInv'
<1>1. OthersKept(p) /\ prep'[p] = Returned(p, "completed", 0) /\ job' \in JobRows
  BY SettlesFacts DEF AlreadyReady
<1>2. Holding(p) BY DEF AlreadyReady, Holding, At
<1> QED BY <1>1, <1>2, ZeroLeft, ComesBack DEF AlreadyReady, index, PrepInv, PrepTypeOK

LEMMA ReviewInv == ASSUME PrepInv, NEW p \in Processes, Review(p) PROVE PrepInv'
<1>1. OthersKept(p) /\ prep'[p] = Returned(p, "review", 0)
  BY DEF Review, OthersKept, Kept, PrepInv, PrepTypeOK
<1>2. job' \in JobRows BY DEF Review, ForReview, JobRows
<1>3. Holding(p) BY DEF Review, Holding, At
<1> QED BY <1>1, <1>2, <1>3, ZeroLeft, ComesBack DEF Review, index, PrepInv, PrepTypeOK

LEMMA RefuseInv == ASSUME PrepInv, NEW p \in Processes, Refuse(p) PROVE PrepInv'
<1>1. OthersKept(p) /\ prep'[p] = Returned(p, "gate", 0) /\ job' \in JobRows
  BY SettlesFacts DEF Refuse
<1>2. Holding(p) BY DEF Refuse, Holding, At
<1> QED BY <1>1, <1>2, ZeroLeft, ComesBack DEF Refuse, index, PrepInv, PrepTypeOK

LEMMA DriftedInv == ASSUME PrepInv, NEW p \in Processes, Drifted(p) PROVE PrepInv'
<1>1. OthersKept(p) /\ prep'[p] = Returned(p, "gate", 0) /\ job' \in JobRows
  BY SettlesFacts DEF Drifted
<1>2. Holding(p) BY DEF Drifted, Holding, Ingesting, At
<1> QED BY <1>1, <1>2, ZeroLeft, ComesBack DEF Drifted

LEMMA EndPartialInv == ASSUME PrepInv, NEW p \in Processes, EndPartial(p) PROVE PrepInv'
<1> DEFINE n == prep[p].left
           result == IF n > 0 THEN "partial" ELSE "gate"
<1>1. OthersKept(p) /\ prep'[p] = Returned(p, result, n) /\ job' \in JobRows
  BY SettlesFacts DEF EndPartial
<1>2. Holding(p) BY DEF EndPartial, Holding, Ingesting, At
<1>3. n \in 0 .. Cardinality(Files) BY DEF PrepInv, PrepTypeOK, Preps
<1>4. result \in {"completed", "partial", "gate", "review"} OBVIOUS
<1> HIDE DEF n, result
<1> QED BY <1>1, <1>2, <1>3, <1>4, ComesBack DEF EndPartial

LEMMA PublishInv == ASSUME PrepInv, NEW p \in Processes, Publish(p) PROVE PrepInv'
<1>1. OthersKept(p) /\ prep'[p] = Returned(p, "completed", 0) /\ job' \in JobRows
  BY SettlesFacts DEF Publish
<1>2. Holding(p) /\ ~At(p, "idle") BY DEF Publish, Holding, Ingesting, At
<1>3. prep'[p] \in Preps /\ Released(prep'[p]) BY <1>1, ZeroLeft, ReturnedFacts
<1>4. /\ served' = prep[p].read /\ prep[p].read \in Trees \cup {0}
      /\ prep[p].read <= tree
      /\ prep[p].read = tree => stale = {}
  <2>1. /\ served' = prep[p].read /\ prep[p].read \in Trees \cup {0}
        /\ prep[p].scanned \in Trees \cup {0} /\ tree \in Trees
    BY DEF Publish, PrepInv, PrepTypeOK, Preps
  <2>2. /\ prep[p].read <= prep[p].scanned /\ prep[p].scanned <= tree
        /\ prep[p].read <= tree
    BY DEF Publish, PrepInv, Placed, Ingesting, At
  <2>3. prep[p].scanned = tree => stale = {} BY DEF Publish, PrepInv, Sound
  <2> QED BY <2>1, <2>2, <2>3 DEF Trees
<1>5. tree' = tree /\ stale' = stale BY DEF Publish, world
<1>6. /\ seen' \in [Processes -> BOOLEAN]
      /\ \A q \in Processes : /\ seen[q] => seen'[q]
                              /\ served' = tree /\ ~At(q, "idle") => seen'[q]
  BY <1>4, <1>5 DEF Publish, Covered, PrepInv, PrepTypeOK
<1> QED BY <1>1, <1>2, <1>3, <1>4, <1>5, <1>6, Leaves DEF Publish, PrepInv, PrepTypeOK

\* The attempt throws; \E closes: its row is told, or stays as it is.
LEMMA ThrowsFacts ==
  ASSUME PrepInv, NEW p \in Processes, NEW closes \in BOOLEAN, Throws(p, closes)
  PROVE  OthersKept(p) /\ prep'[p] = Idle /\ job' \in JobRows
<1> USE DEF PrepInv, PrepTypeOK
<1>1. CASE ~closes
  <2>1. job' = job /\ prep' = [prep EXCEPT ![p] = Idle] BY <1>1 DEF Throws
  <2> QED BY <2>1 DEF OthersKept, Kept
<1>2. CASE closes /\ job.attempts < MaxAttempts
  <2>1. job' = [job EXCEPT !.status = "retry-wait"] /\ prep' = [prep EXCEPT ![p] = Idle]
    BY <1>2 DEF Throws
  <2> QED BY <2>1 DEF OthersKept, Kept, JobRows
<1>3. CASE closes /\ ~(job.attempts < MaxAttempts)
  <2>1. Settles(p, "failed", Idle) BY <1>3 DEF Throws
  <2> QED BY <2>1, SettlesFacts
<1> QED BY <1>1, <1>2, <1>3

\* The attempt of the holder ends in an error.
LEMMA HolderThrows ==
  ASSUME PrepInv, NEW p \in Processes, Holding(p), NEW closes \in BOOLEAN, Throws(p, closes),
         UNCHANGED <<world, stale, served>>, seen' = [seen EXCEPT ![p] = FALSE],
         gate' \in Processes \cup {NoProcess}, failures' \in 0 .. MaxFailures
  PROVE  PrepInv'
<1>1. OthersKept(p) /\ prep'[p] = Idle /\ job' \in JobRows BY ThrowsFacts
<1>2. /\ seen' \in [Processes -> BOOLEAN]
      /\ \A q \in Processes \ {p} : /\ seen[q] => seen'[q]
                                    /\ served' = tree /\ ~At(q, "idle") => seen'[q]
  BY DEF PrepInv, PrepTypeOK, Sound
<1> QED BY <1>1, <1>2, IdleType, Leaves DEF Released, PrepInv, PrepTypeOK

LEMMA BindThrowsInv == ASSUME PrepInv, NEW p \in Processes, BindThrows(p) PROVE PrepInv'
<1>1. Holding(p) BY DEF BindThrows, Holding, At
<1> QED BY <1>1, HolderThrows DEF BindThrows, PrepInv, PrepTypeOK

LEMMA AbortInv ==
  ASSUME PrepInv, NEW p \in Processes, NEW fails \in BOOLEAN, NEW closes \in BOOLEAN,
         Abort(p, fails, closes)
  PROVE  PrepInv'
<1>1. failures' \in 0 .. MaxFailures BY DEF Abort, PrepInv, PrepTypeOK
<1>2. gate' \in Processes \cup {NoProcess} BY DEF Abort, PrepInv, PrepTypeOK
<1>3. CASE Holding(p)
  BY <1>1, <1>2, <1>3, HolderThrows DEF Abort
<1>4. CASE ~Holding(p)
  <2>1. ~fails /\ ~closes BY <1>4 DEF Abort, Holding
  <2>2. Answer(p) /\ UNCHANGED <<world, index, job>>
    BY <2>1 DEF Abort, Answer, Throws, index
  <2> QED BY <1>1, <2>2, AnswerAlone
<1> QED BY <1>3, <1>4

-----------------------------------------------------------------------------
(* The row and the snapshot are taken.                                     *)

\* p takes a step that changes its row or its snapshot, while nobody else holds it.
LEMMA Takes ==
  ASSUME PrepInv, NEW p \in Processes, NEW d \in Preps, prep' = [prep EXCEPT ![p] = d],
         UNCHANGED <<world, served, seen>>, stale' \subseteq stale,
         \A q \in Processes \ {p} : ~Holding(q), ~At(p, "idle"),
         gate' \in Processes \cup {NoProcess}, job' \in JobRows, failures' \in 0 .. MaxFailures,
         d.stage \notin {"idle", "verifying", "comparing"},
         d.read \in {0, prep[p].read}, d.scanned \in {0, prep[p].scanned, tree},
         Ingesting(p)' => d.read <= d.scanned,
         Holding(p)' => job'.status = "running" /\ ~job'.due,
         Ingesting(p)' => gate' = p /\ job'.bound,
         d.stage = "writing" => stale' \subseteq d.todo,
         d.stage = "finishing" /\ d.scanned = tree /\ ~d.errors /\ d.left = 0 => stale' = {}
  PROVE  PrepInv'
<1>1. prep'[p] = d /\ \A q \in Processes \ {p} : prep'[q] = prep[q]
  BY DEF PrepInv, PrepTypeOK
<1>2. OthersKept(p) BY <1>1 DEF OthersKept, Kept, PrepInv, PrepTypeOK
<1>3. tree' = tree /\ served' = served /\ seen' = seen /\ tree \in Nat
  BY DEF world, PrepInv, PrepTypeOK, Trees
<1>4. Placed(p)' BY <1>1, <1>3 DEF Placed, At, PrepInv
<1>5. Sound(p)' BY <1>1, <1>3 DEF Sound, At, Complete, PrepInv
<1>6. \A q \in Processes \ {p} : ~Holding(q)' BY <1>1 DEF Holding, Ingesting, At
<1>7. Exclusive(p)' BY <1>6 DEF Exclusive
<1>8. \A q \in Processes \ {p} : /\ seen[q] => seen'[q]
                                 /\ served' = tree /\ ~At(q, "idle") => seen'[q]
                                 /\ ~Holding(q) /\ ~Ingesting(q)
  BY <1>3 DEF PrepInv, Sound, Holding
<1>9. /\ served' \in Trees \cup {0} /\ served' <= tree /\ (served' = tree => stale' = {})
      /\ seen' \in [Processes -> BOOLEAN]
  BY <1>3 DEF PrepInv, PrepTypeOK
<1> QED BY <1>1, <1>2, <1>4, <1>5, <1>7, <1>8, <1>9, Moves

LEMMA ClaimInv == ASSUME PrepInv, NEW p \in Processes, Claim(p) PROVE PrepInv'
<1> DEFINE d == [prep[p] EXCEPT !.stage = "rechecking"]
<1>1. prep[p] \in Preps /\ job \in JobRows BY DEF PrepInv, PrepTypeOK
<1>2. prep' = [prep EXCEPT ![p] = d] BY <1>1 DEF Claim, Goes
<1>3. d \in Preps BY <1>1 DEF Preps, Stages
<1>4. /\ d.stage = "rechecking" /\ d.read = prep[p].read /\ d.scanned = prep[p].scanned
  BY <1>1 DEF Preps
<1>5. job' \in JobRows /\ job'.status = "running" /\ ~job'.due
  <2> DEFINE n == job.attempts + 1
  <2>1. n \in 0 .. MaxAttempts BY <1>1 DEF Claim, Claimable, JobRows
  <2>2. job' = [job EXCEPT !.status = "running", !.due = FALSE, !.attempts = n] BY DEF Claim
  <2> HIDE DEF n
  <2> QED BY <1>1, <2>1, <2>2 DEF JobRows
<1>6. \A q \in Processes : ~Holding(q) BY DEF Claim, Claimable, PrepInv, PrepTypeOK
<1>7. ~Ingesting(p)' BY <1>2, <1>4 DEF Ingesting, PrepInv, PrepTypeOK
<1>8. ~At(p, "idle") BY DEF Claim, At
<1> HIDE DEF d
<1> QED BY <1>2, <1>3, <1>4, <1>5, <1>6, <1>7, <1>8, Takes DEF Claim, index, PrepInv, PrepTypeOK

LEMMA EnqueueInv == ASSUME PrepInv, NEW p \in Processes, Enqueue(p) PROVE PrepInv'
<1> DEFINE d == [prep[p] EXCEPT !.stage = "asking"]
<1>1. prep[p] \in Preps /\ job \in JobRows BY DEF PrepInv, PrepTypeOK
<1>2. prep' = [prep EXCEPT ![p] = d] BY <1>1 DEF Enqueue, Goes
<1>3. d \in Preps BY <1>1 DEF Preps, Stages
<1>4. /\ d.stage = "asking" /\ d.read = prep[p].read /\ d.scanned = prep[p].scanned
  BY <1>1 DEF Preps
<1>5. job' \in JobRows BY <1>1 DEF Enqueue, Fresh, JobRows
<1>6. prep'[p] = d /\ \A q \in Processes \ {p} : prep'[q] = prep[q]
  BY <1>2 DEF PrepInv, PrepTypeOK
<1> HIDE DEF d
<1>7. CASE job = NoJob
  <2>1. \A q \in Processes : ~Holding(q) BY <1>7 DEF NoJob, PrepInv, PrepTypeOK
  <2>2. ~Holding(p)' /\ ~Ingesting(p)' BY <1>4, <1>6 DEF Holding, Ingesting, At
  <2>3. ~At(p, "idle") BY DEF Enqueue, At
  <2> QED BY <1>2, <1>3, <1>4, <1>5, <2>1, <2>2, <2>3, Takes
          DEF Enqueue, index, PrepInv, PrepTypeOK
<1>8. CASE job # NoJob
  <2>1. job' = job BY <1>8 DEF Enqueue
  <2>2. ~At(p, "idle") BY DEF Enqueue, At
  <2> QED BY <1>2, <1>3, <1>4, <2>1, <2>2, Goes1 DEF Enqueue
<1> QED BY <1>7, <1>8

LEMMA ClaimSnapshotInv == ASSUME PrepInv, NEW p \in Processes, ClaimSnapshot(p) PROVE PrepInv'
<1> DEFINE d == [prep[p] EXCEPT !.stage = "claimed", !.scanned = tree]
<1>1. prep[p] \in Preps /\ job \in JobRows /\ tree \in Trees BY DEF PrepInv, PrepTypeOK
<1>2. prep' = [prep EXCEPT ![p] = d] BY <1>1 DEF ClaimSnapshot, PrepInv, PrepTypeOK
<1>3. d \in Preps BY <1>1 DEF Preps, Stages
<1>4. /\ d.stage = "claimed" /\ d.read = prep[p].read /\ d.scanned = tree
      /\ d.read <= d.scanned
  BY <1>1 DEF Preps, PrepInv, Placed
<1>5. Holding(p) /\ ~At(p, "idle") BY DEF ClaimSnapshot, Holding, At
<1>6. job' \in JobRows /\ job'.status = "running" /\ ~job'.due /\ job'.bound
  BY <1>1, <1>5 DEF ClaimSnapshot, JobRows, PrepInv, PrepTypeOK
<1>7. \A q \in Processes \ {p} : ~Holding(q) BY <1>5, HoldersAlone
<1> HIDE DEF d
<1> QED BY <1>2, <1>3, <1>4, <1>5, <1>6, <1>7, Takes DEF ClaimSnapshot, PrepInv, PrepTypeOK

LEMMA WriteInv ==
  ASSUME PrepInv, NEW p \in Processes, NEW failing \in SUBSET Files, Write(p, failing)
  PROVE  PrepInv'
<1> DEFINE done == prep[p].todo \ failing
           errs == failing # {}
           got == prep[p].gained \/ done # {}
           d == [prep[p] EXCEPT !.stage = "finishing", !.todo = {}, !.errors = errs,
                                !.gained = got]
<1>1. prep[p] \in Preps BY DEF PrepInv, PrepTypeOK
<1>2. prep' = [prep EXCEPT ![p] = d] BY <1>1 DEF Write, PrepInv, PrepTypeOK
<1>3. d \in Preps
  <2>1. errs \in BOOLEAN /\ got \in BOOLEAN OBVIOUS
  <2> HIDE DEF errs, got
  <2> QED BY <1>1, <2>1 DEF Preps, Stages
<1>4. /\ d.stage = "finishing" /\ d.errors = errs /\ d.left = prep[p].left
      /\ d.read = prep[p].read /\ d.scanned = prep[p].scanned
  BY <1>1 DEF Preps
<1>5. Holding(p) /\ Ingesting(p) /\ ~At(p, "idle") /\ d.read <= d.scanned
  BY <1>4 DEF Write, Holding, Ingesting, At, PrepInv, Placed
<1>6. \A q \in Processes \ {p} : ~Holding(q) BY <1>5, HoldersAlone
<1>7. stale' = stale \ {f \in done : text[f] <= prep[p].scanned} BY DEF Write
<1>8. ASSUME prep[p].scanned = tree, ~errs, prep[p].left = 0 PROVE stale' = {}
  <2>1. stale \subseteq prep[p].todo BY <1>8 DEF Write, PrepInv, Sound
  <2>2. done = prep[p].todo BY <1>8
  <2>3. \A f \in stale : f \in done /\ text[f] <= tree
    BY <2>1, <2>2 DEF PrepInv, PrepTypeOK
  <2> QED BY <1>7, <1>8, <2>3
<1>9. failures' \in 0 .. MaxFailures
  <2>1. CASE failing = {} BY <2>1 DEF Write, PrepInv, PrepTypeOK
  <2>2. CASE failing # {}
    <3>1. failures < MaxFailures /\ failures' = failures + 1 BY <2>2 DEF Write
    <3> QED BY <3>1 DEF PrepInv, PrepTypeOK
  <2> QED BY <2>1, <2>2
<1>10. job'.status = "running" /\ ~job'.due /\ gate' = p /\ job'.bound
  BY <1>5 DEF Write, PrepInv, PrepTypeOK
<1> HIDE DEF d, errs, done, got
<1>11. UNCHANGED <<world, served, seen, gate, job>> /\ stale' \subseteq stale
  BY <1>7 DEF Write
<1> QED BY <1>2, <1>3, <1>4, <1>5, <1>6, <1>8, <1>9, <1>10, <1>11, Takes
        DEF PrepInv, PrepTypeOK

-----------------------------------------------------------------------------
(* The world.                                                              *)

LEMMA EditInv == ASSUME PrepInv, NEW f \in Files, Edit(f) PROVE PrepInv'
<1> USE DEF PrepInv
<1>1. /\ tree' = tree + 1 /\ tree \in Nat /\ tree' \in Trees
      /\ UNCHANGED <<served, gate, job, prep, seen, failures>>
  BY DEF Edit, PrepTypeOK, Trees
<1>2. text' \in [Files -> Trees] /\ \A g \in Files : text'[g] <= tree'
  BY <1>1 DEF Edit, PrepTypeOK, Trees
<1>3. served' <= tree' /\ served' # tree' BY <1>1 DEF PrepTypeOK, Trees
<1>4. \A p \in Processes : /\ prep[p].read <= tree /\ prep[p].scanned <= tree
                           /\ prep[p].read \in Nat /\ prep[p].scanned \in Nat
  BY DEF PrepTypeOK, Preps, Placed, Trees
<1>5. \A p \in Processes : prep[p].read # tree' /\ prep[p].scanned # tree'
                           /\ prep[p].read <= tree' /\ prep[p].scanned <= tree'
  BY <1>1, <1>4
<1>6. \A p \in Processes : Placed(p)' BY <1>1, <1>5 DEF Placed, At, Ingesting
<1>7. \A p \in Processes : Sound(p)' BY <1>1, <1>3, <1>5 DEF Sound, At
<1>8. PrepTypeOK' BY <1>1, <1>2 DEF PrepTypeOK, Edit, Holding, Ingesting, At
<1> QED BY <1>2, <1>3, <1>6, <1>7, <1>8

\* Time passes for the row or for the snapshot.
LEMMA TimeInv == ASSUME PrepInv, BecomesDue \/ GateLapses PROVE PrepInv'
<1> USE DEF PrepInv
<1>1. UNCHANGED <<tree, text, stale, served, prep, seen, failures>>
  BY DEF BecomesDue, GateLapses, world, index
<1>2. \A p \in Processes : Placed(p)' /\ Sound(p)' /\ (Holding(p)' <=> Holding(p))
                           /\ (Ingesting(p)' <=> Ingesting(p))
  BY <1>1 DEF Placed, Sound, At, Complete, Holding, Ingesting
<1>3. job' \in JobRows /\ gate' \in Processes \cup {NoProcess}
  BY DEF BecomesDue, GateLapses, index, PrepTypeOK, JobRows
<1>4. \A p \in Processes : /\ Holding(p) => job'.status = "running" /\ ~job'.due
                           /\ Ingesting(p) => gate' = p /\ job'.bound
  <2>1. CASE BecomesDue
    <3>1. \A p \in Processes : ~Holding(p) BY <2>1 DEF BecomesDue, PrepTypeOK
    <3> QED BY <3>1 DEF Holding
  <2>2. CASE GateLapses BY <2>2 DEF GateLapses, PrepTypeOK
  <2> QED BY <2>1, <2>2
<1>5. PrepTypeOK' BY <1>1, <1>2, <1>3, <1>4 DEF PrepTypeOK
<1> QED BY <1>1, <1>2, <1>5

LEMMA NextInv == ASSUME PrepInv, [Next]_vars PROVE PrepInv'
<1>1. CASE UNCHANGED vars
  BY <1>1 DEF vars, PrepInv, PrepTypeOK, Placed, Sound, At, Complete, Holding, Ingesting
<1>2. ASSUME NEW p \in Processes, Step(p) PROVE PrepInv'
  BY <1>2, BeginInv, ReadServingInv, AnswerInv, NextBatchInv, EnqueueInv, ClaimInv, WaitInv,
     LearnInv, AlreadyReadyInv, GoOnInv, ReviewInv, RefuseInv, ClaimSnapshotInv, BindThrowsInv,
     RescanInv, WriteInv, DriftedInv, PublishInv, EndPartialInv DEF Step
<1>3. ASSUME NEW p \in Processes, \E fails, closes \in BOOLEAN : Abort(p, fails, closes)
      PROVE  PrepInv'
  BY <1>3, AbortInv
<1> QED BY <1>1, <1>2, <1>3, EditInv, TimeInv DEF Next

-----------------------------------------------------------------------------
\* The types of a preparation and of the row it waits for, that one process holds the
\* row, and that whoever ingests has the project's snapshot.
THEOREM PreparationTypes == Spec => []PrepTypeOK
<1>1. PrepInv => PrepTypeOK BY DEF PrepInv
<1> QED BY <1>1, InitInv, NextInv, PTL DEF Spec

\* "Ready" is said only when the serving index has had the whole tree at some moment of
\* the preparation (the comparison of executePreparation's last verification).
THEOREM ReadyIsTrue == Spec => ReadyWasTrue
<1>1. PrepInv => [\A p \in Processes : AnswerReady(p) => seen[p]]_vars
  BY DEF PrepInv, Sound, AnswerReady, Verified, At
<1> QED BY <1>1, InitInv, NextInv, PTL DEF Spec, ReadyWasTrue
=============================================================================
