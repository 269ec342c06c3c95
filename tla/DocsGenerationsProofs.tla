------------------------ MODULE DocsGenerationsProofs ------------------------
(***************************************************************************)
(* Theorems about the generations of a source, for any number of runs of   *)
(* either program, paths, versions and generations.                        *)
(*                                                                         *)
(* That what serves is whole rests on the counts being compared: the paths *)
(* staged in a generation are paths of its manifest (RowGood), because a   *)
(* run stages nothing but the paths of the manifest it took its key from   *)
(* and works on the generation of that key (RunGood); a subset as large as *)
(* the whole is the whole.                                                 *)
(*                                                                         *)
(* That what serves is one snapshot needs more, because the external sync  *)
(* reads its files twice: as long as no run has replaced a clone that      *)
(* another still reads (raced), every run has what it scanned (Faithful).  *)
(***************************************************************************)
EXTENDS DocsGenerations, FiniteSetTheorems, TLAPS

\* A generation: its documents are of its manifest, and the corpus ingest's
\* have the contents the manifest was made of; a published one is whole.
RowGood(row) ==
  /\ FilesOf(row.docs) \subseteq FilesOf(row.key.manifest)
  /\ ~row.key.external => \A f \in FilesOf(row.docs) : row.docs[f] = row.key.manifest[f]
  /\ row.status = "published" =>
       /\ row.scan = "complete"
       /\ FilesOf(row.docs) = FilesOf(row.key.manifest)

\* A process: it works on a row of its key, and on paths of its manifest.
RunGood(w, r, rows) ==
  /\ r.stage \in {"idle", "fetched", "scanned"} => r.gen = NoGen
  /\ r.stage \in {"staging", "publishing", "collecting"} =>
       /\ r.gen \in Gens /\ rows[r.gen].status # "absent"
       /\ rows[r.gen].key = r.key
  /\ r.todo \subseteq FilesOf(r.key.manifest)
  /\ r.stage \in {"fetched", "scanned"} => r.todo = {}
  /\ r.stage = "idle" => r = Out
  /\ r.stage # "idle" => (r.key.external <=> w \in External)
  /\ w \notin External => r.stage # "fetched" /\ r.got = r.key.manifest

ServesPublished == pointer # NoGen => gen[pointer].status = "published"

DocsInv ==
  /\ DocsTypeOK
  /\ \A g \in Gens : RowGood(gen[g])
  /\ \A w \in Syncs : RunGood(w, at[w], gen)
  /\ ServesPublished

-----------------------------------------------------------------------------
\* No step takes a row away or changes its key.
Kept ==
  \A g \in Gens : gen[g].status # "absent" =>
    gen'[g].status # "absent" /\ gen'[g].key = gen[g].key

LEMMA EmptyTree == Empty \in Trees /\ FilesOf(Empty) = {}
<1>1. Versions \in Nat BY DocsAssumption
<1> QED BY <1>1 DEF Empty, Trees, FilesOf, Absent

\* A process that stays good where rows are kept leaves all processes good.
LEMMA RunStep ==
  ASSUME DocsInv, Kept, NEW w \in Syncs, NEW r \in Run,
         at' = [at EXCEPT ![w] = r], RunGood(w, r, gen')
  PROVE  /\ at' \in [Syncs -> Run]
         /\ \A v \in Syncs : RunGood(v, at'[v], gen')
<1>1. at \in [Syncs -> Run] BY DEF DocsInv, DocsTypeOK
<1>2. at' \in [Syncs -> Run] BY <1>1
<1>3. ASSUME NEW v \in Syncs PROVE RunGood(v, at'[v], gen')
  <2>1. CASE v = w
    <3>1. at'[v] = r BY <1>1, <2>1
    <3> QED BY <2>1, <3>1
  <2>2. CASE v # w
    <3>1. at'[v] = at[v] BY <1>1, <2>2
    <3>2. RunGood(v, at[v], gen) BY DEF DocsInv
    <3>3. RunGood(v, at[v], gen') BY <3>2 DEF RunGood, Kept
    <3> QED BY <3>1, <3>3
  <2> QED BY <2>1, <2>2
<1> QED BY <1>2, <1>3

\* A good row in the place of one of its key, or of none.
LEMMA RowStep ==
  ASSUME DocsInv, NEW g \in Gens, NEW row \in Gen,
         gen' = [gen EXCEPT ![g] = row], RowGood(row),
         gen[g].status # "absent" => row.status # "absent" /\ row.key = gen[g].key
  PROVE  /\ gen' \in [Gens -> Gen] /\ gen'[g] = row
         /\ \A h \in Gens \ {g} : gen'[h] = gen[h]
         /\ \A h \in Gens : RowGood(gen'[h])
         /\ Kept
<1>1. gen \in [Gens -> Gen] BY DEF DocsInv, DocsTypeOK
<1>2. gen' \in [Gens -> Gen] /\ gen'[g] = row BY <1>1
<1>3. \A h \in Gens \ {g} : gen'[h] = gen[h] BY <1>1
<1>4. ASSUME NEW h \in Gens PROVE RowGood(gen'[h])
  <2>1. CASE h = g BY <1>2, <2>1
  <2>2. CASE h # g BY <1>3, <2>2 DEF DocsInv
  <2> QED BY <2>1, <2>2
<1>5. Kept
  <2> SUFFICES ASSUME NEW h \in Gens, gen[h].status # "absent"
               PROVE  gen'[h].status # "absent" /\ gen'[h].key = gen[h].key
    BY DEF Kept
  <2>1. CASE h = g BY <1>2, <2>1
  <2>2. CASE h # g BY <1>3, <2>2
  <2> QED BY <2>1, <2>2
<1> QED BY <1>2, <1>3, <1>4, <1>5

\* Steps that leave the rows alone.
LEMMA SameRows ==
  ASSUME DocsInv, UNCHANGED gen
  PROVE  /\ Kept /\ gen' \in [Gens -> Gen]
         /\ \A g \in Gens : RowGood(gen'[g])
BY DEF DocsInv, DocsTypeOK, Kept

LEMMA SamePointer ==
  ASSUME DocsInv, UNCHANGED pointer,
         pointer # NoGen => gen'[pointer].status = "published"
  PROVE  ServesPublished' /\ pointer' \in Gens \cup {NoGen}
BY DEF DocsInv, DocsTypeOK, ServesPublished

\* Any step of one process that keeps the rows good.
LEMMA StepOfOne ==
  ASSUME DocsInv, Kept, gen' \in [Gens -> Gen], \A g \in Gens : RowGood(gen'[g]),
         NEW w \in Syncs, NEW r \in Run, at' = [at EXCEPT ![w] = r], RunGood(w, r, gen'),
         clone' \in Trees, processed' \in Trees, raced' \in BOOLEAN,
         pointer' \in Gens \cup {NoGen}, ServesPublished'
  PROVE  DocsInv'
<1>1. /\ at' \in [Syncs -> Run]
      /\ \A v \in Syncs : RunGood(v, at'[v], gen')
  BY RunStep
<1> QED BY <1>1 DEF DocsInv, DocsTypeOK

\* Any step of one process that leaves rows and pointer alone.
LEMMA RunAlone ==
  ASSUME DocsInv, UNCHANGED <<gen, pointer, processed>>,
         clone' \in Trees, raced' \in BOOLEAN,
         NEW w \in Syncs, NEW r \in Run, at' = [at EXCEPT ![w] = r], RunGood(w, r, gen)
  PROVE  DocsInv'
<1>1. /\ Kept /\ gen' \in [Gens -> Gen]
      /\ \A g \in Gens : RowGood(gen'[g])
  BY SameRows
<1>2. ServesPublished' /\ pointer' \in Gens \cup {NoGen} BY SamePointer DEF DocsInv, ServesPublished
<1>3. processed' \in Trees BY DEF DocsInv, DocsTypeOK
<1> QED BY <1>1, <1>2, <1>3, StepOfOne

\* Quitting is always good.
LEMMA OutGood ==
  ASSUME NEW w \in Syncs, NEW rows
  PROVE  Out \in Run /\ RunGood(w, Out, rows)
<1>1. Out \in Run BY EmptyTree DEF Out, Run, NoKey, Keys
<1>2. FilesOf(Out.key.manifest) = {} BY EmptyTree DEF Out, NoKey
<1>3. RunGood(w, Out, rows) BY <1>2 DEF Out, RunGood, NoKey
<1> QED BY <1>1, <1>3

-----------------------------------------------------------------------------
LEMMA DocsInitGood == DocsInit => DocsInv
<1> SUFFICES ASSUME DocsInit PROVE DocsInv OBVIOUS
<1>1. NoRow \in Gen BY EmptyTree DEF NoRow, Gen, NoKey, Keys
<1>2. RowGood(NoRow) BY EmptyTree DEF NoRow, RowGood, NoKey
<1>3. \A w \in Syncs : Out \in Run /\ RunGood(w, Out, gen) BY OutGood
<1>4. gen \in [Gens -> Gen] /\ \A g \in Gens : RowGood(gen[g]) BY <1>1, <1>2 DEF DocsInit
<1>5. at \in [Syncs -> Run] /\ \A w \in Syncs : RunGood(w, at[w], gen) BY <1>3 DEF DocsInit
<1> QED BY <1>4, <1>5, EmptyTree DEF DocsInit, DocsInv, DocsTypeOK, ServesPublished

-----------------------------------------------------------------------------
(* The actions, by what they change.                                        *)

\* What the inductive invariant says of one process and its row.
LEMMA Facts ==
  ASSUME DocsInv, NEW w \in Syncs
  PROVE  /\ clone \in Trees /\ processed \in Trees
         /\ gen \in [Gens -> Gen] /\ at \in [Syncs -> Run]
         /\ pointer \in Gens \cup {NoGen}
         /\ at[w] \in Run /\ RunGood(w, at[w], gen) /\ raced \in BOOLEAN
         /\ \A g \in Gens : gen[g] \in Gen /\ RowGood(gen[g])
BY DEF DocsInv, DocsTypeOK

LEMMA ScanSteps ==
  ASSUME DocsInv, NEW w \in Syncs, NEW tree \in Trees,
         CopyInProgress(w, tree) \/ Fetch(w, tree) \/ ScanClone(w) \/ ScanCorpus(w)
  PROVE  DocsInv'
<1> USE Facts
<1>1. CASE CopyInProgress(w, tree)
  <2>1. at[w] \in Run /\ RunGood(w, at[w], gen) /\ at' = [at EXCEPT ![w] = at[w]]
    BY <1>1 DEF CopyInProgress
  <2> QED BY <1>1, <2>1, RunAlone DEF CopyInProgress, Replaces
<1>2. CASE Fetch(w, tree)
  <2> DEFINE k == [at[w].key EXCEPT !.revision = tree, !.external = TRUE]
             r == [at[w] EXCEPT !.stage = "fetched", !.key = k]
  <2>1. at[w] = Out BY <1>2 DEF RunGood, Fetch, MayStart, Stage
  <2>2. at[w] \in Run /\ at[w].gen = NoGen /\ at[w].todo = {} BY <2>1 DEF Out
  <2>3. at[w].key \in Keys BY <2>2 DEF Run
  <2>4. k \in Keys /\ k.external = TRUE BY <2>3 DEF Keys
  <2> HIDE DEF k
  <2>5. r \in Run /\ r.stage = "fetched" /\ r.key = k /\ r.gen = NoGen /\ r.todo = {}
    BY <2>2, <2>4 DEF Run
  <2>6. RunGood(w, r, gen) BY <1>2, <2>4, <2>5 DEF RunGood, Fetch
  <2>7. at' = [at EXCEPT ![w] = r] BY <1>2 DEF Fetch, Run, Keys, k
  <2> HIDE DEF r
  <2> QED BY <1>2, <2>5, <2>6, <2>7, RunAlone DEF Fetch, Replaces
<1>3. CASE ScanClone(w)
  <2> DEFINE k == [at[w].key EXCEPT !.manifest = clone]
             r == [at[w] EXCEPT !.stage = "scanned", !.key = k]
  <2>1. w \in External /\ at[w].key.external /\ at[w].gen = NoGen
    BY <1>3 DEF RunGood, ScanClone, Stage, Run, Keys
  <2>2. k \in Keys /\ k.external /\ k.manifest = clone BY <2>1 DEF Run, Keys
  <2>3. /\ r.stage = "scanned" /\ r.key = k /\ r.gen = NoGen /\ r.todo = at[w].todo
        /\ r \in Run
    BY <2>1, <2>2 DEF Run
  <2>4. r.todo = {} BY <1>3, <2>3 DEF RunGood, ScanClone, Stage
  <2>5. RunGood(w, r, gen) BY <2>1, <2>2, <2>3, <2>4 DEF RunGood
  <2>6. at' = [at EXCEPT ![w] = r] BY <1>3 DEF ScanClone, Run, Keys
  <2> HIDE DEF r
  <2> QED BY <1>3, <2>3, <2>5, <2>6, RunAlone DEF ScanClone
<1>4. CASE ScanCorpus(w)
  <2> DEFINE k == [NoKey EXCEPT !.manifest = processed]
             r == [at[w] EXCEPT !.stage = "scanned", !.key = k, !.got = processed]
  <2>1. at[w] = Out BY <1>4 DEF RunGood, ScanCorpus, MayStart, Stage
  <2>2. k \in Keys /\ ~k.external /\ k.manifest = processed
    BY EmptyTree DEF NoKey, Keys
  <2>3. at[w] \in Run /\ at[w].gen = NoGen /\ at[w].todo = {} BY <2>1 DEF Out
  <2> HIDE DEF k
  <2>4. /\ r \in Run /\ r.stage = "scanned" /\ r.key = k /\ r.gen = NoGen /\ r.todo = {}
        /\ r.got = processed
    BY <2>2, <2>3 DEF Run
  <2>5. RunGood(w, r, gen) BY <1>4, <2>2, <2>4 DEF RunGood, ScanCorpus
  <2>6. at' = [at EXCEPT ![w] = r] BY <1>4 DEF ScanCorpus, k
  <2> HIDE DEF r
  <2> QED BY <1>4, <2>4, <2>5, <2>6, RunAlone DEF ScanCorpus
<1> QED BY <1>1, <1>2, <1>3, <1>4

\* A process that has scanned gets the row of its key.
LEMMA GenerationSteps ==
  ASSUME DocsInv, NEW w \in Syncs, FindPublished(w) \/ JoinStaging(w) \/ CreateGen(w)
  PROVE  DocsInv'
<1> USE Facts
<1>1. /\ Stage(w, "scanned") /\ UNCHANGED <<clone, raced, processed, pointer>>
      /\ at[w].key \in Keys
  BY DEF FindPublished, JoinStaging, CreateGen, Run
<1>2. CASE FindPublished(w)
  <2>1. PICK g \in Gens :
          /\ gen[g].status = "published" /\ gen[g].key = at[w].key
          /\ at' = [at EXCEPT ![w].stage = IF w \in External THEN "staging" ELSE "collecting",
                              ![w].gen = g]
    BY <1>2 DEF FindPublished, Known
  <2> DEFINE st == IF w \in External THEN "staging" ELSE "collecting"
             r == [at[w] EXCEPT !.stage = st, !.gen = g]
  <2>2. st \in {"staging", "collecting"} OBVIOUS
  <2>3. at' = [at EXCEPT ![w] = r] BY <2>1 DEF Run
  <2> HIDE DEF st
  <2>4. /\ r \in Run /\ r.stage = st /\ r.gen = g /\ r.key = at[w].key
        /\ r.todo = at[w].todo /\ r.got = at[w].got
    BY <2>2 DEF Run
  <2>5. RunGood(w, r, gen) BY <1>1, <2>1, <2>2, <2>4 DEF RunGood, Stage
  <2> HIDE DEF r
  <2> QED BY <1>2, <2>3, <2>4, <2>5, RunAlone DEF FindPublished
<1>3. ASSUME NEW g \in Gens, NEW row \in Gen, gen' = [gen EXCEPT ![g] = row], RowGood(row),
             row.status = "staging", row.key = at[w].key,
             gen[g].status # "absent" => row.key = gen[g].key,
             gen[g].status # "published", StartsStaging(w, g)
      PROVE  DocsInv'
  <2> DEFINE r == [at[w] EXCEPT !.stage = "staging", !.gen = g,
                                !.todo = FilesOf(at[w].key.manifest)]
  <2>1. /\ gen' \in [Gens -> Gen] /\ gen'[g] = row
        /\ \A h \in Gens \ {g} : gen'[h] = gen[h]
        /\ \A h \in Gens : RowGood(gen'[h])
        /\ Kept
    BY <1>3, RowStep
  <2>2. at' = [at EXCEPT ![w] = r] BY <1>3 DEF StartsStaging, Run
  <2>3. FilesOf(at[w].key.manifest) \subseteq Paths BY DEF FilesOf
  <2>4. /\ r \in Run /\ r.stage = "staging" /\ r.gen = g /\ r.key = at[w].key
        /\ r.todo = FilesOf(at[w].key.manifest) /\ r.got = at[w].got
    BY <2>3 DEF Run
  <2>5. RunGood(w, r, gen') BY <1>1, <1>3, <2>1, <2>4 DEF RunGood, Stage
  <2>6. ServesPublished' /\ pointer' \in Gens \cup {NoGen}
    BY <1>1, <1>3, <2>1, SamePointer DEF DocsInv, ServesPublished
  <2> HIDE DEF r
  <2> QED BY <1>1, <2>1, <2>2, <2>4, <2>5, <2>6, StepOfOne
<1>4. CASE JoinStaging(w)
  <2>1. PICK g \in Gens :
          /\ gen[g].status = "staging" /\ gen[g].key = at[w].key
          /\ gen' = [gen EXCEPT ![g].scan = "pending"]
          /\ StartsStaging(w, g)
    BY <1>4 DEF JoinStaging, Known
  <2> DEFINE row == [gen[g] EXCEPT !.scan = "pending"]
  <2>2. /\ row \in Gen /\ row.status = "staging" /\ row.key = gen[g].key /\ row.docs = gen[g].docs
    BY <2>1 DEF Gen
  <2>3. gen' = [gen EXCEPT ![g] = row] BY <2>1
  <2>4. RowGood(row) BY <2>2 DEF RowGood
  <2> HIDE DEF row
  <2> QED BY <1>3, <2>1, <2>2, <2>3, <2>4
<1>5. CASE CreateGen(w)
  <2>1. PICK g \in Gens :
          /\ gen[g].status = "absent"
          /\ gen' = [gen EXCEPT ![g] = [NoRow EXCEPT !.status = "staging", !.key = at[w].key]]
          /\ StartsStaging(w, g)
    BY <1>5 DEF CreateGen
  <2> DEFINE row == [NoRow EXCEPT !.status = "staging", !.key = at[w].key]
  <2>2. NoRow \in Gen /\ NoRow.docs = Empty BY EmptyTree DEF NoRow, Gen, NoKey, Keys
  <2>3. row \in Gen /\ row.status = "staging" /\ row.key = at[w].key /\ row.docs = Empty
    BY <1>1, <2>2 DEF Gen
  <2>4. RowGood(row) BY <1>1, <2>3, EmptyTree DEF RowGood, RunGood, Stage
  <2>5. gen' = [gen EXCEPT ![g] = row] BY <2>1
  <2> HIDE DEF row
  <2> QED BY <1>3, <2>1, <2>3, <2>4, <2>5
<1> QED BY <1>2, <1>4, <1>5

\* A process at work on its generation: what RunGood says then.
LEMMA AtWork ==
  ASSUME DocsInv, NEW w \in Syncs, Stage(w, "staging") \/ Stage(w, "publishing")
  PROVE  /\ at[w].gen \in Gens /\ gen[at[w].gen] \in Gen
         /\ gen[at[w].gen].status # "absent" /\ gen[at[w].gen].key = at[w].key
         /\ RowGood(gen[at[w].gen])
         /\ at[w].todo \subseteq FilesOf(at[w].key.manifest)
         /\ at[w].key.external <=> w \in External
         /\ w \notin External => at[w].got = at[w].key.manifest
BY Facts DEF Stage, RunGood

\* Steps of a process at work that leave its row and its key.
LEMMA WorkAlone ==
  ASSUME DocsInv, UNCHANGED <<clone, raced, gen, pointer, processed>>,
         NEW w \in Syncs, NEW r \in Run,
         Stage(w, "staging") \/ Stage(w, "publishing"),
         at' = [at EXCEPT ![w] = r], r.stage \in {"staging", "publishing", "collecting"},
         r.gen = at[w].gen, r.key = at[w].key, r.todo \subseteq at[w].todo,
         w \notin External => r.got = at[w].got
  PROVE  DocsInv'
<1>1. RunGood(w, r, gen) BY AtWork DEF RunGood
<1>2. clone' \in Trees /\ raced' \in BOOLEAN BY Facts
<1> QED BY <1>1, <1>2, RunAlone

LEMMA DocumentSteps ==
  ASSUME DocsInv, NEW w \in Syncs, NEW f \in Paths,
         ReadAgain(w, f) \/ Upsert(w, f) \/ SkipDocument(w, f) \/ DocumentFails(w, f)
  PROVE  DocsInv'
<1> USE Facts
<1>1. Stage(w, "staging") /\ at[w] \in Run /\ f \in at[w].todo
  BY DEF ReadAgain, Upsert, SkipDocument, DocumentFails, Read
<1>2. CASE ReadAgain(w, f)
  <2> DEFINE tree == [at[w].got EXCEPT ![f] = clone[f]]
             r == [at[w] EXCEPT !.got = tree]
  <2>1. tree \in Trees BY <1>1 DEF Run, Trees
  <2>2. at' = [at EXCEPT ![w] = r] BY <1>2 DEF ReadAgain, Run
  <2> HIDE DEF tree
  <2>3. /\ r \in Run /\ r.stage = "staging" /\ r.gen = at[w].gen /\ r.key = at[w].key
        /\ r.todo = at[w].todo
    BY <1>1, <2>1 DEF Run, Stage
  <2> HIDE DEF r
  <2> QED BY <1>1, <1>2, <2>2, <2>3, WorkAlone DEF ReadAgain
<1> DEFINE done == [at[w] EXCEPT !.todo = @ \ {f}]
<1>3. /\ done \in Run /\ done.stage = "staging" /\ done.gen = at[w].gen /\ done.key = at[w].key
      /\ done.todo = at[w].todo \ {f} /\ done.got = at[w].got
  BY <1>1 DEF Run, Stage
<1>4. CASE Upsert(w, f)
  <2> DEFINE g == at[w].gen
             docs == [gen[g].docs EXCEPT ![f] = at[w].got[f]]
             row == [gen[g] EXCEPT !.docs = docs]
  <2>1. /\ g \in Gens /\ gen[g] \in Gen /\ gen[g].key = at[w].key /\ RowGood(gen[g])
        /\ f \in FilesOf(at[w].key.manifest)
        /\ at[w].key.external <=> w \in External
        /\ w \notin External => at[w].got = at[w].key.manifest
    BY <1>1, AtWork
  <2>2. gen[g].status = "staging" /\ gen[g].docs \in Trees /\ at[w].got \in Trees
    BY <1>1, <1>4, <2>1 DEF Upsert, Staging, Gen, Run
  <2>3. docs \in Trees /\ docs[f] = at[w].got[f] /\ \A e \in Paths \ {f} : docs[e] = gen[g].docs[e]
    BY <2>2 DEF Trees
  <2>4. gen' = [gen EXCEPT ![g] = row] BY <1>4, <2>1 DEF Upsert, Gen
  <2> HIDE DEF docs
  <2>5. row \in Gen /\ row.status = "staging" /\ row.key = gen[g].key /\ row.docs = docs
    BY <2>1, <2>2, <2>3 DEF Gen
  <2> HIDE DEF row
  <2>6. RowGood(row) BY <2>1, <2>3, <2>5 DEF RowGood, FilesOf
  <2>7. /\ gen' \in [Gens -> Gen] /\ gen'[g] = row
        /\ \A h \in Gens \ {g} : gen'[h] = gen[h]
        /\ \A h \in Gens : RowGood(gen'[h])
        /\ Kept
    BY <2>1, <2>4, <2>5, <2>6, RowStep
  <2>8. at' = [at EXCEPT ![w] = done] BY <1>4 DEF Upsert, Run
  <2>9. RunGood(w, done, gen') BY <1>3, <2>1, <2>5, <2>7 DEF RunGood
  <2>10. ServesPublished' /\ pointer' \in Gens \cup {NoGen}
    BY <1>4, <2>2, <2>7, SamePointer DEF DocsInv, ServesPublished, Upsert
  <2> HIDE DEF done, g
  <2> QED BY <1>3, <1>4, <2>7, <2>8, <2>9, <2>10, StepOfOne DEF Upsert
<1>5. CASE SkipDocument(w, f)
  <2>1. at' = [at EXCEPT ![w] = done] BY <1>5 DEF SkipDocument, Run
  <2> HIDE DEF done
  <2> QED BY <1>1, <1>3, <1>5, <2>1, WorkAlone DEF SkipDocument
<1>6. CASE DocumentFails(w, f)
  <2> DEFINE r == [at[w] EXCEPT !.todo = @ \ {f}, !.failed = TRUE]
  <2>1. at' = [at EXCEPT ![w] = r] BY <1>6 DEF DocumentFails, Run
  <2>2. /\ r \in Run /\ r.stage = "staging" /\ r.gen = at[w].gen /\ r.key = at[w].key
        /\ r.todo = at[w].todo \ {f} /\ r.got = at[w].got
    BY <1>1 DEF Run, Stage
  <2> HIDE DEF r
  <2> QED BY <1>1, <1>6, <2>1, <2>2, WorkAlone DEF DocumentFails
<1> QED BY <1>2, <1>4, <1>5, <1>6

\* The row keeps its key and documents, and was or becomes whole.
LEMMA CloseSteps ==
  ASSUME DocsInv, NEW w \in Syncs, GiveUp(w) \/ Finalize(w) \/ Publish(w) \/ PublishAgain(w)
  PROVE  DocsInv'
<1> USE Facts
<1> DEFINE g == at[w].gen
<1>1. at[w] \in Run /\ (Stage(w, "staging") \/ Stage(w, "publishing"))
  BY DEF GiveUp, Finalize, Publish, PublishAgain, Staged
<1>2. /\ g \in Gens /\ gen[g] \in Gen /\ gen[g].status # "absent" /\ gen[g].key = at[w].key
      /\ RowGood(gen[g])
  BY <1>1, AtWork
<1>3. CASE GiveUp(w)
  <2> DEFINE sc == IF Staging(w) THEN "incomplete" ELSE gen[g].scan
             row == [gen[g] EXCEPT !.scan = sc]
  <2>1. sc \in {"pending", "complete", "incomplete"} BY <1>2 DEF Gen
  <2>2. gen' = [gen EXCEPT ![g] = row] BY <1>2, <1>3 DEF GiveUp
  <2>3. gen[g].status = "published" => sc = gen[g].scan BY DEF Staging
  <2> HIDE DEF sc
  <2>4. /\ row \in Gen /\ row.status = gen[g].status /\ row.key = gen[g].key
        /\ row.docs = gen[g].docs /\ row.scan = sc
    BY <1>2, <2>1 DEF Gen
  <2>5. RowGood(row) BY <1>2, <2>3, <2>4 DEF RowGood
  <2> HIDE DEF row
  <2>6. /\ gen' \in [Gens -> Gen] /\ gen'[g] = row
        /\ \A h \in Gens \ {g} : gen'[h] = gen[h]
        /\ \A h \in Gens : RowGood(gen'[h])
        /\ Kept
    BY <1>2, <2>2, <2>4, <2>5, RowStep
  <2>7. at' = [at EXCEPT ![w] = Out] BY <1>3 DEF GiveUp, Quits
  <2>8. Out \in Run /\ RunGood(w, Out, gen') BY OutGood
  <2>9. ServesPublished' /\ pointer' \in Gens \cup {NoGen}
    BY <1>3, <2>4, <2>6, SamePointer DEF DocsInv, ServesPublished, GiveUp
  <2> QED BY <1>3, <2>6, <2>7, <2>8, <2>9, StepOfOne DEF GiveUp
<1>4. CASE Finalize(w)
  <2> DEFINE row == [gen[g] EXCEPT !.scan = "complete"]
             r == [at[w] EXCEPT !.stage = "publishing"]
  <2>1. gen' = [gen EXCEPT ![g] = row] BY <1>2, <1>4 DEF Finalize
  <2>2. /\ row \in Gen /\ row.status = gen[g].status /\ row.key = gen[g].key
        /\ row.docs = gen[g].docs /\ row.scan = "complete"
    BY <1>2 DEF Gen
  <2>3. RowGood(row) BY <1>2, <2>2 DEF RowGood
  <2> HIDE DEF row
  <2>4. /\ gen' \in [Gens -> Gen] /\ gen'[g] = row
        /\ \A h \in Gens \ {g} : gen'[h] = gen[h]
        /\ \A h \in Gens : RowGood(gen'[h])
        /\ Kept
    BY <1>2, <2>1, <2>2, <2>3, RowStep
  <2>5. at' = [at EXCEPT ![w] = r] BY <1>4 DEF Finalize
  <2>6. /\ r \in Run /\ r.stage = "publishing" /\ r.gen = g /\ r.key = at[w].key
        /\ r.todo = at[w].todo /\ r.got = at[w].got
    BY <1>1 DEF Run
  <2>7. RunGood(w, r, gen') BY <1>1, <1>2, <2>2, <2>4, <2>6, AtWork DEF RunGood
  <2>8. ServesPublished' /\ pointer' \in Gens \cup {NoGen}
    BY <1>4, <2>2, <2>4, SamePointer DEF DocsInv, ServesPublished, Finalize
  <2> HIDE DEF r
  <2> QED BY <1>4, <2>4, <2>5, <2>6, <2>7, <2>8, StepOfOne DEF Finalize
<1> DEFINE last == [at[w] EXCEPT !.stage = "collecting"]
<1>5. /\ last \in Run /\ last.stage = "collecting" /\ last.gen = g /\ last.key = at[w].key
      /\ last.todo = at[w].todo /\ last.got = at[w].got
  BY <1>1 DEF Run
<1>6. CASE Publish(w)
  <2> DEFINE row == [gen[g] EXCEPT !.status = "published"]
  <2>1. gen' = [gen EXCEPT ![g] = row] /\ Publishable(g) BY <1>2, <1>6 DEF Publish
  <2>2. /\ row \in Gen /\ row.status = "published" /\ row.key = gen[g].key
        /\ row.docs = gen[g].docs /\ row.scan = gen[g].scan
    BY <1>2 DEF Gen
  <2>3. gen[g].scan = "complete" BY <2>1 DEF Publishable
  <2>4. FilesOf(gen[g].docs) = FilesOf(gen[g].key.manifest)
    <3>1. IsFiniteSet(Paths) BY DocsAssumption
    <3>2. FilesOf(gen[g].key.manifest) \subseteq Paths BY DEF FilesOf
    <3>3. IsFiniteSet(FilesOf(gen[g].key.manifest)) BY <3>1, <3>2, FS_Subset
    <3>4. FilesOf(gen[g].docs) \subseteq FilesOf(gen[g].key.manifest) BY <1>2 DEF RowGood
    <3>5. Cardinality(FilesOf(gen[g].docs)) = Cardinality(FilesOf(gen[g].key.manifest))
      BY <2>1 DEF Publishable
    <3> QED BY <3>3, <3>4, <3>5, FS_Subset
  <2>5. RowGood(row) BY <1>2, <2>2, <2>3, <2>4 DEF RowGood
  <2> HIDE DEF row
  <2>6. /\ gen' \in [Gens -> Gen] /\ gen'[g] = row
        /\ \A h \in Gens : RowGood(gen'[h])
        /\ Kept
    BY <1>2, <2>1, <2>2, <2>5, RowStep
  <2>7. at' = [at EXCEPT ![w] = last] BY <1>6 DEF Publish
  <2>8. RunGood(w, last, gen') BY <1>1, <1>2, <1>5, <2>2, <2>6, AtWork DEF RunGood
  <2>9. ServesPublished' /\ pointer' \in Gens \cup {NoGen}
    BY <1>2, <1>6, <2>2, <2>6 DEF ServesPublished, Publish
  <2> HIDE DEF last
  <2> QED BY <1>5, <1>6, <2>6, <2>7, <2>8, <2>9, StepOfOne DEF Publish
<1>7. CASE PublishAgain(w)
  <2>1. at' = [at EXCEPT ![w] = last] BY <1>7 DEF PublishAgain
  <2> HIDE DEF last
  <2> QED BY <1>1, <1>5, <1>7, <2>1, WorkAlone DEF PublishAgain
<1> QED BY <1>3, <1>4, <1>6, <1>7

\* A collection takes published rows that do not serve, and all of what they hold.
LEMMA Collected ==
  ASSUME DocsInv, NEW w \in Syncs, Collect(w)
  PROVE  /\ \A g \in Gens :
              \/ gen'[g] = gen[g]
              \/ /\ gen[g].status = "published" /\ g # pointer
                 /\ gen'[g] \in Gen /\ gen'[g].status = "deleted"
                 /\ gen'[g].key = gen[g].key /\ gen'[g].docs = Empty
         /\ gen' \in [Gens -> Gen]
<1>1. PICK kept \in SUBSET Superseded :
        gen' = [g \in Gens |-> IF g \in Superseded \ kept THEN Swept(g) ELSE gen[g]]
  BY DEF Collect
<1>2. ASSUME NEW g \in Gens
      PROVE  /\ Swept(g) \in Gen /\ Swept(g).status = "deleted"
             /\ Swept(g).key = gen[g].key /\ Swept(g).docs = Empty
  BY Facts, EmptyTree DEF Swept, Gen
<1>3. \A g \in Gens : gen[g] \in Gen BY Facts
<1>4. \A g \in Superseded : gen[g].status = "published" /\ g # pointer BY DEF Superseded
<1> HIDE DEF Superseded
<1> QED BY <1>1, <1>2, <1>3, <1>4

LEMMA CollectSteps ==
  ASSUME DocsInv, NEW w \in Syncs, Collect(w)
  PROVE  DocsInv'
<1>1. ASSUME NEW g \in Gens PROVE RowGood(gen'[g])
  <2>1. RowGood(gen[g]) BY Facts
  <2>2. CASE gen'[g] = gen[g] BY <2>1, <2>2
  <2>3. CASE gen'[g].status = "deleted" /\ gen'[g].key = gen[g].key /\ gen'[g].docs = Empty
    <3>1. FilesOf(gen'[g].docs) = {} BY <2>3, EmptyTree
    <3> QED BY <2>1, <2>3, <3>1 DEF RowGood
  <2> QED BY <2>2, <2>3, Collected
<1>2. Kept BY Collected DEF Kept
<1>3. Out \in Run /\ RunGood(w, Out, gen') BY OutGood
<1>4. at' = [at EXCEPT ![w] = Out] /\ UNCHANGED <<clone, raced, processed, pointer>>
  BY DEF Collect, Quits
<1>5. pointer # NoGen => gen'[pointer].status = "published"
  BY Collected, Facts DEF DocsInv, ServesPublished
<1>6. ServesPublished' /\ pointer' \in Gens \cup {NoGen} BY <1>4, <1>5, SamePointer
<1>7. clone' \in Trees /\ processed' \in Trees /\ raced' \in BOOLEAN BY <1>4, Facts
<1> QED BY Collected, <1>1, <1>2, <1>3, <1>4, <1>6, <1>7, StepOfOne

LEMMA LeaveStep ==
  ASSUME DocsInv, NEW w \in Syncs, Leave(w)
  PROVE  DocsInv'
<1>1. Out \in Run /\ RunGood(w, Out, gen) BY OutGood
<1>2. clone' \in Trees /\ raced' \in BOOLEAN BY Facts DEF Leave
<1> QED BY <1>1, <1>2, RunAlone DEF Leave, Quits

LEMMA EditStep ==
  ASSUME DocsInv, NEW f \in Paths, NEW version \in 0 .. Versions, Edit(f, version)
  PROVE  DocsInv'
<1>1. processed \in Trees BY DEF DocsInv, DocsTypeOK
<1>2. processed' \in Trees BY <1>1 DEF Edit, Trees
<1> QED BY <1>2 DEF Edit, DocsInv, DocsTypeOK, ServesPublished

LEMMA DocsStep == DocsInv /\ [DocsNext]_docsVars => DocsInv'
<1> SUFFICES ASSUME DocsInv, [DocsNext]_docsVars PROVE DocsInv' OBVIOUS
<1>1. ASSUME NEW w \in Syncs, SyncStep(w) PROVE DocsInv'
  <2>0. \A revision \in Upstream : revision \in Trees BY DocsAssumption DEF Trees
  <2>1. CASE \/ \E tree \in Trees : CopyInProgress(w, tree)
             \/ \E revision \in Upstream : Fetch(w, revision)
    BY <2>0, <2>1, ScanSteps
  <2>2. CASE ScanClone(w) \/ ScanCorpus(w) BY <2>2, ScanSteps, EmptyTree
  <2>3. CASE FindPublished(w) \/ JoinStaging(w) \/ CreateGen(w) BY <2>3, GenerationSteps
  <2>4. CASE \E f \in Paths :
               ReadAgain(w, f) \/ Upsert(w, f) \/ SkipDocument(w, f) \/ DocumentFails(w, f)
    BY <2>4, DocumentSteps
  <2>5. CASE GiveUp(w) \/ Finalize(w) \/ Publish(w) \/ PublishAgain(w) BY <2>5, CloseSteps
  <2>6. CASE Collect(w) BY <2>6, CollectSteps
  <2>7. CASE Leave(w) BY <2>7, LeaveStep
  <2> QED BY <1>1, <2>1, <2>2, <2>3, <2>4, <2>5, <2>6, <2>7 DEF SyncStep
<1>2. ASSUME NEW f \in Paths, NEW version \in 0 .. Versions, Edit(f, version) PROVE DocsInv'
  BY <1>2, EditStep
<1>3. CASE UNCHANGED docsVars
  BY <1>3 DEF docsVars, DocsInv, DocsTypeOK, ServesPublished
<1> QED BY <1>1, <1>2, <1>3 DEF DocsNext

-----------------------------------------------------------------------------
(* The theorems.                                                            *)

\* The inductive invariant: whatever the runs of either program do, documents
\* are of their generation's manifest, and a published generation is whole.
THEOREM DocsInvariant == DocsSpec => []DocsInv
BY DocsInitGood, DocsStep, PTL DEF DocsSpec

\* Every variable keeps its type: no operation leaves a status, a scan state or
\* a reference the schema does not have.
THEOREM DocsTypes == DocsSpec => []DocsTypeOK
<1>1. DocsInv => DocsTypeOK BY DEF DocsInv
<1> QED BY <1>1, DocsInvariant, PTL

\* Searches are served a published generation with a document for each file of
\* its manifest, for any number of runs that stage, fail and collect.
THEOREM SearchesSeeWhole == DocsSpec => []ServesWhole
<1>1. DocsInv => ServesWhole
  BY Facts DEF DocsInv, DocsTypeOK, ServesPublished, ServesWhole, RowGood
<1> QED BY <1>1, DocsInvariant, PTL

\* What a corpus ingest has published has the contents its key was made of: it
\* reads its files once, which the external sync does not.
CorpusIsSnapshot ==
  \A g \in Gens :
    gen[g].status = "published" /\ ~gen[g].key.external => gen[g].docs = gen[g].key.manifest

LEMMA CorpusInvariant == DocsInv => CorpusIsSnapshot
<1>1. ASSUME DocsInv, NEW g \in Gens, gen[g].status = "published", ~gen[g].key.external
      PROVE  gen[g].docs = gen[g].key.manifest
  <2>1. RowGood(gen[g]) /\ gen[g] \in Gen BY <1>1 DEF DocsInv, DocsTypeOK
  <2>2. gen[g].docs \in Trees /\ gen[g].key.manifest \in Trees BY <2>1 DEF Gen, Keys
  <2>3. ASSUME NEW f \in Paths PROVE gen[g].docs[f] = gen[g].key.manifest[f]
    BY <1>1, <2>1 DEF RowGood, FilesOf
  <2> QED BY <2>2, <2>3 DEF Trees
<1> QED BY <1>1 DEF CorpusIsSnapshot

\* A published generation of a corpus ingest is a snapshot of the processed tree,
\* whatever edits and external syncs ran beside it.
THEOREM CorpusPublishesSnapshots == DocsSpec => []CorpusIsSnapshot
BY CorpusInvariant, DocsInvariant, PTL

-----------------------------------------------------------------------------
(* One snapshot.  The external sync reads every file of the clone a second  *)
(* time.  What it reads is what its key was made of as long as no other     *)
(* replaces the clone in between; a run that is under way does not fetch.   *)

RowFaithful(row) == \A f \in FilesOf(row.docs) : row.docs[f] = row.key.manifest[f]

\* From its scan to its last document a run has the clone it scanned, and what it
\* has read of it.
RunFaithful(r) ==
  /\ r.stage = "fetched" => \A f \in Paths : r.got[f] = Absent
  /\ r.stage \in {"scanned", "staging"} =>
       /\ r.key.manifest = clone
       /\ \A f \in Paths : r.got[f] # Absent => r.got[f] = clone[f]

Faithful ==
  /\ \A g \in Gens : RowFaithful(gen[g])
  /\ \A w \in External : RunFaithful(at[w])

LEMMA FaithfulInit == DocsInit => Faithful
<1>1. FilesOf(NoRow.docs) = {} BY EmptyTree DEF NoRow
<1>2. Out.stage = "idle" BY DEF Out
<1>3. External \subseteq Syncs BY DocsAssumption
<1>4. RowFaithful(NoRow) BY <1>1 DEF RowFaithful
<1> QED BY <1>2, <1>3, <1>4 DEF DocsInit, Faithful, RunFaithful

\* What is staged has the contents of the manifest, and nothing else changes a document.
LEMMA RowsStayFaithful ==
  ASSUME DocsInv, Faithful, NEW w \in Syncs, SyncStep(w), NEW g \in Gens
  PROVE  RowFaithful(gen'[g])
<1> USE Facts
<1>0. RowFaithful(gen[g]) BY DEF Faithful
<1>1. CASE gen'[g].docs = gen[g].docs /\ gen'[g].key = gen[g].key
  BY <1>0, <1>1 DEF RowFaithful
<1>2. CASE gen'[g].docs = Empty BY <1>2, EmptyTree DEF RowFaithful
<1>3. ASSUME NEW f \in Paths, Upsert(w, f) PROVE RowFaithful(gen'[g])
  <2> DEFINE h == at[w].gen
  <2>1. /\ h \in Gens /\ gen[h] \in Gen /\ gen[h].key = at[w].key
        /\ w \notin External => at[w].got = at[w].key.manifest
    BY <1>3, AtWork DEF Upsert, Read
  <2>2. at[w].got[f] = at[w].key.manifest[f]
    <3>1. CASE w \in External
      BY <1>3, <3>1 DEF Faithful, RunFaithful, Upsert, Read, Stage
    <3> QED BY <2>1, <3>1
  <2>3. gen' = [gen EXCEPT ![h].docs[f] = at[w].got[f]] BY <1>3 DEF Upsert
  <2>4. CASE g # h BY <1>0, <2>1, <2>3, <2>4
  <2>5. CASE g = h
    <3>1. gen[g].docs \in Trees BY <2>1, <2>5 DEF Gen
    <3>2. /\ gen'[g].key = gen[g].key
          /\ gen'[g].docs = [gen[g].docs EXCEPT ![f] = at[w].got[f]]
      BY <2>1, <2>3, <2>5 DEF Gen
    <3> QED BY <1>0, <2>1, <2>2, <2>5, <3>1, <3>2 DEF RowFaithful, FilesOf, Trees
  <2> QED BY <2>4, <2>5
<1>4. CASE JoinStaging(w) BY <1>1, <1>4 DEF JoinStaging, Gen
<1>5. CASE CreateGen(w)
  <2>1. PICK h \in Gens :
          gen' = [gen EXCEPT ![h] = [NoRow EXCEPT !.status = "staging", !.key = at[w].key]]
    BY <1>5 DEF CreateGen
  <2>2. CASE g = h BY <1>2, <2>1, <2>2 DEF NoRow
  <2>3. CASE g # h BY <1>1, <2>1, <2>3
  <2> QED BY <2>2, <2>3
<1>6. CASE GiveUp(w) \/ Finalize(w) \/ Publish(w)
  BY <1>1, <1>6 DEF GiveUp, Finalize, Publish, Gen
<1>7. CASE Collect(w) BY <1>1, <1>2, <1>7, Collected
<1>8. \/ UNCHANGED gen \/ JoinStaging(w) \/ CreateGen(w) \/ \E f \in Paths : Upsert(w, f)
      \/ GiveUp(w) \/ Finalize(w) \/ Publish(w) \/ Collect(w)
  BY DEF SyncStep, CopyInProgress, Fetch, ScanClone, ScanCorpus, FindPublished, ReadAgain,
         SkipDocument, DocumentFails, PublishAgain, Leave
<1> QED BY <1>1, <1>3, <1>4, <1>5, <1>6, <1>7, <1>8

\* The step of an external sync itself.
LEMMA OwnRunFaithful ==
  ASSUME DocsInv, Faithful, NEW w \in External, w \in Syncs, SyncStep(w)
  PROVE  RunFaithful(at[w])'
<1> USE Facts
<1>0. RunFaithful(at[w]) BY DEF Faithful
<1>1. CASE \E tree \in Trees : CopyInProgress(w, tree)
  BY <1>1 DEF CopyInProgress, Stage, RunFaithful
<1>2. CASE \E revision \in Upstream : Fetch(w, revision)
  <2>1. at[w] = Out BY <1>2 DEF Fetch, MayStart, Stage, RunGood
  <2>2. at'[w].stage = "fetched" /\ at'[w].got = at[w].got
    BY <1>2 DEF Fetch, Run
  <2> QED BY <2>1, <2>2 DEF RunFaithful, Out, Empty
<1>3. CASE ScanClone(w)
  <2>1. \A f \in Paths : at[w].got[f] = Absent BY <1>0, <1>3 DEF ScanClone, Stage, RunFaithful
  <2>2. /\ at'[w].stage = "scanned" /\ at'[w].got = at[w].got
        /\ at'[w].key.manifest = clone /\ clone' = clone
    BY <1>3 DEF ScanClone, Run, Keys
  <2> QED BY <2>1, <2>2 DEF RunFaithful
<1>4. CASE /\ clone' = clone /\ at'[w].key = at[w].key /\ at'[w].got = at[w].got
           /\ at'[w].stage \in {"scanned", "staging"} => at[w].stage \in {"scanned", "staging"}
           /\ at'[w].stage # "fetched"
  BY <1>0, <1>4 DEF RunFaithful
<1>5. CASE FindPublished(w) \/ JoinStaging(w) \/ CreateGen(w)
  <2>1. at[w].stage = "scanned" /\ clone' = clone
    BY <1>5 DEF FindPublished, JoinStaging, CreateGen, Stage
  <2>2. CASE FindPublished(w)
    <3>1. PICK g \in Gens : at' = [at EXCEPT ![w].stage = "staging", ![w].gen = g]
      BY <2>2 DEF FindPublished
    <3>2. at'[w] = [at[w] EXCEPT !.stage = "staging", !.gen = g] BY <3>1
    <3> QED BY <1>4, <2>1, <3>2 DEF Run
  <2>3. ASSUME NEW g \in Gens, StartsStaging(w, g)
        PROVE  at'[w].stage = "staging" /\ at'[w].key = at[w].key /\ at'[w].got = at[w].got
    BY <2>3 DEF StartsStaging, Run
  <2>4. CASE JoinStaging(w) \/ CreateGen(w)
    BY <1>4, <2>1, <2>3, <2>4 DEF JoinStaging, CreateGen
  <2> QED BY <1>5, <2>2, <2>4
<1>6. ASSUME NEW f \in Paths, ReadAgain(w, f) PROVE RunFaithful(at[w])'
  <2>1. at[w].stage = "staging" /\ at[w].got \in Trees BY <1>6 DEF ReadAgain, Stage, Run
  <2>2. /\ at'[w].stage = "staging" /\ at'[w].key = at[w].key /\ clone' = clone
        /\ at'[w].got = [at[w].got EXCEPT ![f] = clone[f]]
    BY <1>6, <2>1 DEF ReadAgain, Run
  <2> QED BY <1>0, <2>1, <2>2 DEF RunFaithful, Trees
<1>7. CASE \E f \in Paths : Upsert(w, f) \/ SkipDocument(w, f) \/ DocumentFails(w, f)
  BY <1>4, <1>7 DEF Upsert, SkipDocument, DocumentFails, Read, Stage, Run
<1>8. CASE Finalize(w) \/ Publish(w) \/ PublishAgain(w)
  BY <1>4, <1>8 DEF Finalize, Publish, PublishAgain, Run
<1>9. CASE GiveUp(w) \/ Collect(w) \/ Leave(w)
  <2>1. at'[w] = Out BY <1>9 DEF GiveUp, Collect, Leave, Quits
  <2> QED BY <2>1 DEF RunFaithful, Out
<1>10. ~ScanCorpus(w) BY DEF ScanCorpus
<1> QED BY <1>1, <1>2, <1>3, <1>5, <1>6, <1>7, <1>8, <1>9, <1>10 DEF SyncStep

\* A step of another process that does not race for the clone leaves a run what it has.
LEMMA OthersKeepClone ==
  ASSUME DocsInv, ~raced', NEW w \in Syncs, SyncStep(w),
         NEW v \in External, v \in Syncs, v # w, RunFaithful(at[v])
  PROVE  RunFaithful(at[v])'
<1>1. at'[v] = at[v]
  BY Facts
     DEF SyncStep, CopyInProgress, Fetch, ScanClone, ScanCorpus, FindPublished, JoinStaging,
         CreateGen, StartsStaging, ReadAgain, Upsert, SkipDocument, DocumentFails, GiveUp,
         Finalize, Publish, PublishAgain, Collect, Leave, Quits
<1>2. clone' = clone \/ \E tree \in Trees \cup Upstream : Replaces(tree)
  BY DEF SyncStep, CopyInProgress, Fetch, ScanClone, ScanCorpus, FindPublished, JoinStaging,
         CreateGen, ReadAgain, Upsert, SkipDocument, DocumentFails, GiveUp,
         Finalize, Publish, PublishAgain, Collect, Leave
<1>3. ASSUME NEW tree, Replaces(tree), at[v].stage \in {"scanned", "staging"}
      PROVE  clone' = clone
  <2>1. ~(tree # clone /\ \E u \in External : at[u].stage \in {"scanned", "staging"})
    BY <1>3 DEF Replaces
  <2> QED BY <1>3, <2>1 DEF Replaces
<1>4. at[v].stage \in {"scanned", "staging"} => clone' = clone BY <1>2, <1>3
<1> QED BY <1>1, <1>4 DEF RunFaithful

\* A race is not forgotten.
LEMMA RacedStays == [DocsNext]_docsVars /\ ~raced' => ~raced
BY DEF DocsNext, SyncStep, CopyInProgress, Fetch, Replaces, ScanClone, ScanCorpus, FindPublished,
       JoinStaging, CreateGen, ReadAgain, Upsert, SkipDocument, DocumentFails, GiveUp,
       Finalize, Publish, PublishAgain, Collect, Leave, Edit, docsVars

LEMMA FaithfulStep ==
  DocsInv /\ (~raced => Faithful) /\ [DocsNext]_docsVars => (~raced => Faithful)'
<1> SUFFICES ASSUME DocsInv, ~raced => Faithful, [DocsNext]_docsVars, ~raced'
             PROVE  Faithful'
  OBVIOUS
<1>f. Faithful BY RacedStays
<1>0. External \subseteq Syncs BY DocsAssumption
<1>1. ASSUME NEW w \in Syncs, SyncStep(w) PROVE Faithful'
  <2>1. \A g \in Gens : RowFaithful(gen'[g]) BY <1>1, <1>f, RowsStayFaithful
  <2>2. ASSUME NEW v \in External PROVE RunFaithful(at[v])'
    <3>1. v \in Syncs BY <1>0
    <3>2. CASE v = w BY <1>1, <1>f, <3>1, <3>2, OwnRunFaithful
    <3>3. CASE v # w
      <4>1. RunFaithful(at[v]) BY <1>f DEF Faithful
      <4> QED BY <1>1, <3>1, <3>3, <4>1, OthersKeepClone
    <3> QED BY <3>2, <3>3
  <2> QED BY <2>1, <2>2 DEF Faithful, RowFaithful
<1>2. CASE UNCHANGED <<clone, gen, at, raced>> BY <1>2, <1>f DEF Faithful, RowFaithful, RunFaithful
<1> QED BY <1>1, <1>2 DEF DocsNext, Edit, docsVars

\* With any number of syncs and ingests of a source, only one thing can make searches
\* see a mixture: an external sync that replaces the clone under another that still
\* reads it.  Until one does, what serves has the contents its key was made of,
\* whatever edits run beside and wherever runs fail, die and are joined by later ones.
THEOREM OnlyCloneRacesMixSnapshots == DocsSpec => []ServesOneSnapshot
<1>1. DocsSpec => [](~raced => Faithful)
  <2>1. DocsInit => (~raced => Faithful) BY FaithfulInit
  <2> QED BY <2>1, FaithfulStep, DocsInvariant, PTL DEF DocsSpec
<1>2. ASSUME DocsInv, Faithful, pointer # NoGen
      PROVE  gen[pointer].docs = gen[pointer].key.manifest
  <2>1. pointer \in Gens /\ gen[pointer].status = "published"
    BY <1>2 DEF DocsInv, DocsTypeOK, ServesPublished
  <2>2. RowGood(gen[pointer]) /\ gen[pointer] \in Gen /\ RowFaithful(gen[pointer])
    BY <1>2, <2>1 DEF DocsInv, DocsTypeOK, Faithful
  <2>3. gen[pointer].docs \in Trees /\ gen[pointer].key.manifest \in Trees
    BY <2>2 DEF Gen, Keys
  <2>4. ASSUME NEW f \in Paths PROVE gen[pointer].docs[f] = gen[pointer].key.manifest[f]
    BY <2>1, <2>2 DEF RowGood, RowFaithful, FilesOf
  <2> QED BY <2>3, <2>4 DEF Trees
<1>3. DocsInv /\ (~raced => Faithful) => ServesOneSnapshot BY <1>2 DEF ServesOneSnapshot
<1> QED BY <1>1, <1>3, DocsInvariant, PTL

-----------------------------------------------------------------------------
\* No operation of a late, retried or failed run reaches a published generation,
\* and the one that serves is never collected.
THEOREM PublishedStays == DocsSpec => PublishedIsImmutable
<1> DEFINE Stays(g) ==
      gen'[g] = gen[g] \/ (gen'[g].status = "deleted" /\ g \notin {pointer, pointer'})
<1>1. ASSUME DocsInv, [DocsNext]_docsVars, NEW g \in Gens, gen[g].status = "published"
      PROVE  Stays(g)
  <2>1. gen \in [Gens -> Gen] /\ gen[g] \in Gen /\ gen[g].scan = "complete"
    BY <1>1, Facts DEF DocsInv, DocsTypeOK, RowGood
  <2>2. ASSUME NEW w \in Syncs, SyncStep(w) PROVE Stays(g)
    <3>1. CASE UNCHANGED gen BY <3>1
    <3>2. CASE JoinStaging(w) \/ CreateGen(w)
      BY <1>1, <2>1, <3>2 DEF JoinStaging, CreateGen
    <3>3. CASE \E f \in Paths : Upsert(w, f)
      BY <1>1, <2>1, <3>3 DEF Upsert, Staging
    <3>4. CASE GiveUp(w) BY <1>1, <2>1, <3>4 DEF GiveUp, Staging, Gen
    <3>5. CASE Finalize(w) BY <1>1, <2>1, <3>5 DEF Finalize, Gen
    <3>6. CASE Publish(w) BY <1>1, <2>1, <3>6 DEF Publish, Publishable
    <3>7. CASE Collect(w)
      <4>1. pointer' = pointer BY <3>7 DEF Collect
      <4> QED BY <1>1, <3>7, <4>1, Collected
    <3>8. \/ UNCHANGED gen \/ JoinStaging(w) \/ CreateGen(w) \/ \E f \in Paths : Upsert(w, f)
          \/ GiveUp(w) \/ Finalize(w) \/ Publish(w) \/ Collect(w)
      BY <2>2 DEF SyncStep, CopyInProgress, Fetch, ScanClone, ScanCorpus, FindPublished, ReadAgain,
                  SkipDocument, DocumentFails, PublishAgain, Leave
    <3> QED BY <3>1, <3>2, <3>3, <3>4, <3>5, <3>6, <3>7, <3>8
  <2>3. CASE \E f \in Paths, version \in 0 .. Versions : Edit(f, version) BY <2>3 DEF Edit
  <2>4. CASE UNCHANGED docsVars BY <2>4 DEF docsVars
  <2> QED BY <1>1, <2>2, <2>3, <2>4 DEF DocsNext
<1>2. DocsInv /\ [DocsNext]_docsVars =>
        [\A g \in Gens : gen[g].status = "published" => Stays(g)]_docsVars
  BY <1>1
<1> QED BY <1>2, DocsInvariant, PTL DEF PublishedIsImmutable, DocsSpec

-----------------------------------------------------------------------------
(* The pointer does not go back.  A run that finds the key of its content   *)
(* published stages and publishes nothing.                                  *)

\* The generation has been published and does not serve any more.
Replaced(g) == g # pointer /\ gen[g].status \in {"published", "deleted"}

LEMMA ReplacedStays ==
  ASSUME DocsInv, [DocsNext]_docsVars, NEW g \in Gens, Replaced(g)
  PROVE  Replaced(g)'
<1>1. gen \in [Gens -> Gen] /\ gen[g] \in Gen BY DEF DocsInv, DocsTypeOK
<1>2. CASE UNCHANGED <<gen, pointer>> BY <1>2 DEF Replaced
<1>3. ASSUME NEW w \in Syncs, SyncStep(w) PROVE Replaced(g)'
  <2> USE Facts
  <2>1. CASE JoinStaging(w) \/ CreateGen(w)
    BY <1>1, <2>1 DEF JoinStaging, CreateGen, Replaced
  <2>2. CASE \E f \in Paths : Upsert(w, f) BY <1>1, <2>2 DEF Upsert, Staging, Replaced
  <2>3. CASE GiveUp(w) \/ Finalize(w) BY <1>1, <2>3 DEF GiveUp, Finalize, Replaced, Gen
  <2>4. CASE Publish(w) BY <1>1, <2>4 DEF Publish, Publishable, Replaced
  <2>5. CASE Collect(w)
    <3>1. pointer' = pointer BY <2>5 DEF Collect
    <3> QED BY <2>5, <3>1, Collected DEF Replaced
  <2>6. \/ UNCHANGED <<gen, pointer>> \/ JoinStaging(w) \/ CreateGen(w)
        \/ \E f \in Paths : Upsert(w, f)
        \/ GiveUp(w) \/ Finalize(w) \/ Publish(w) \/ Collect(w)
    BY <1>3 DEF SyncStep, CopyInProgress, Fetch, ScanClone, ScanCorpus, FindPublished, ReadAgain,
                SkipDocument, DocumentFails, PublishAgain, Leave
  <2> QED BY <1>2, <2>1, <2>2, <2>3, <2>4, <2>5, <2>6
<1> QED BY <1>2, <1>3 DEF DocsNext, Edit, docsVars

\* A generation that was replaced never serves again, not even when the source
\* returns to its content: createDocsRagSourceGeneration finds it published, and
\* publishDocsRagSourceGeneration then moves nothing.
THEOREM ReplacedNeverReturns ==
  ASSUME NEW g \in Gens
  PROVE  DocsSpec => [](Replaced(g) => [](g # pointer))
<1>1. DocsInv /\ Replaced(g) /\ [DocsNext]_docsVars => Replaced(g)' BY ReplacedStays
<1>2. Replaced(g) => g # pointer BY DEF Replaced
<1> QED BY <1>1, <1>2, DocsInvariant, PTL DEF DocsSpec

=============================================================================
