--------------------------- MODULE DocsGenerations ---------------------------
(***************************************************************************)
(* The generations of one documentation source of Docs RAG                 *)
(* (docs_source_generations and its serving pointer) and the two programs  *)
(* that fill them:                                                         *)
(*                                                                         *)
(*   - the external sync (scripts/sync-external-docs.ts) fetches upstream  *)
(*     into a clone directory shared by all its runs, hashes the clone,    *)
(*     and reads every file of it again when its turn comes;               *)
(*   - the corpus ingest (scripts/docs-rag/store.ts) builds its documents  *)
(*     in memory from the processed tree before it asks for a generation.  *)
(*                                                                         *)
(* A generation is known by its key, a hash of the manifest of the tree    *)
(* and, for the external sync, of the upstream revision.  Its documents    *)
(* are staged one by one, each behind a slow embedding; it is finalized,   *)
(* published together with the move of the pointer, and collected when     *)
(* newer ones have replaced it.  Every statement of it is a transaction    *)
(* that locks the generation's row or, where the pointer is concerned, the *)
(* source's advisory lock.  Nothing keeps two runs of a source apart.      *)
(*                                                                         *)
(* Two hashes are equal when what they hash is; a revision is the tree it  *)
(* names.  Abstracted: cleaning and refinement, chunks and embeddings (a   *)
(* document owns them), the processing profile, content exclusions, legacy *)
(* rows and other sources.                                                 *)
(***************************************************************************)
EXTENDS Naturals, FiniteSets

CONSTANTS
  Paths,     \* paths a document can have
  Versions,  \* bound: contents a file can have
  NumGens,   \* bound: generation rows ever inserted
  Syncs,     \* processes
  External,  \* those of them that are external syncs; the others ingest the corpus
  Keep,      \* keepSupersededPerSource
  Upstream,  \* bound: trees a fetch can find upstream
  MaxRuns    \* bound: runs under way at a time

ASSUME DocsAssumption ==
  /\ IsFiniteSet(Paths) /\ Versions \in Nat /\ NumGens \in Nat
  /\ External \subseteq Syncs /\ Keep \in Nat
  /\ Upstream \subseteq [Paths -> 0 .. Versions] /\ MaxRuns \in Nat

VARIABLES
  clone,      \* the clone directory
  processed,  \* the processed tree
  gen,        \* docs_source_generations with the documents of each row
  pointer,    \* docs_source_generation_pointers
  at,         \* [Syncs -> Run]: where each process is
  raced       \* history: a sync has replaced the clone that another still reads

docsVars == <<clone, processed, gen, pointer, at, raced>>

Gens == 1 .. NumGens
NoGen == 0
Absent == 0
Trees == [Paths -> 0 .. Versions]
Empty == [f \in Paths |-> Absent]
FilesOf(t) == {f \in Paths : t[f] # Absent}

Keys == [manifest: Trees, revision: Trees, external: BOOLEAN]
Gen == [status: {"absent", "staging", "published", "deleted"}, key: Keys,
        scan: {"pending", "complete", "incomplete"}, docs: Trees]
Run == [stage: {"idle", "fetched", "scanned", "staging", "publishing", "collecting"},
        key: Keys, gen: Gens \cup {NoGen}, got: Trees, todo: SUBSET Paths, failed: BOOLEAN]

NoKey == [manifest |-> Empty, revision |-> Empty, external |-> FALSE]
NoRow == [status |-> "absent", key |-> NoKey, scan |-> "pending", docs |-> Empty]
Out == [stage |-> "idle", key |-> NoKey, gen |-> NoGen, got |-> Empty, todo |-> {},
        failed |-> FALSE]

DocsInit ==
  /\ clone = Empty
  /\ processed = Empty
  /\ gen = [g \in Gens |-> NoRow]
  /\ pointer = NoGen
  /\ at = [w \in Syncs |-> Out]
  /\ raced = FALSE

Stage(w, stage) == at[w].stage = stage
Quits(w) == at' = [at EXCEPT ![w] = Out]
Exists(g) == gen[g].status \in {"staging", "published"}
Staging(w) == gen[at[w].gen].status = "staging"

-----------------------------------------------------------------------------
(* Scans.                                                                   *)

MayStart(w) == Stage(w, "idle") /\ Cardinality({v \in Syncs : ~Stage(v, "idle")}) < MaxRuns

\* The directory is shared, and another sync may be between its manifest and its
\* second read.
Replaces(tree) ==
  /\ clone' = tree
  /\ raced' = (raced \/ (/\ tree # clone
                        /\ \E v \in External : at[v].stage \in {"scanned", "staging"}))

\* cloneRepo empties and copies: other runs see the trees in between.
CopyInProgress(w, tree) ==
  /\ w \in External /\ Stage(w, "idle")
  /\ Replaces(tree)
  /\ UNCHANGED <<processed, gen, pointer, at>>

\* ... and ends with the clone at the revision found upstream.
Fetch(w, revision) ==
  /\ w \in External /\ MayStart(w)
  /\ Replaces(revision)
  /\ at' = [at EXCEPT ![w].stage = "fetched", ![w].key.revision = revision,
                      ![w].key.external = TRUE]
  /\ UNCHANGED <<processed, gen, pointer>>

\* The inventory of the clone and its manifest hash.
ScanClone(w) ==
  /\ Stage(w, "fetched")
  /\ at' = [at EXCEPT ![w].stage = "scanned", ![w].key.manifest = clone]
  /\ UNCHANGED <<clone, raced, processed, gen, pointer>>

\* The corpus ingest reads all documents; without any it has no source to fill.
ScanCorpus(w) ==
  /\ w \notin External /\ MayStart(w)
  /\ FilesOf(processed) # {}
  /\ at' = [at EXCEPT ![w].stage = "scanned", ![w].key = [NoKey EXCEPT !.manifest = processed],
                      ![w].got = processed]
  /\ UNCHANGED <<clone, raced, processed, gen, pointer>>

-----------------------------------------------------------------------------
(* The generation.                                                          *)

\* Mutant: the manifest is left out of the key.
Known_ByRevision(w, g) ==
  Exists(g) /\ [gen[g].key EXCEPT !.manifest = Empty] = [at[w].key EXCEPT !.manifest = Empty]

\* The row of a run's key, if there is one; deleted rows leave their key free.
Known(w, g) == Exists(g) /\ gen[g].key = at[w].key

\* createDocsRagSourceGeneration finds the key published: nothing to stage.
FindPublished(w) ==
  /\ Stage(w, "scanned")
  /\ \E g \in Gens :
       /\ gen[g].status = "published" /\ Known(w, g)
       /\ at' = [at EXCEPT ![w].stage = IF w \in External THEN "staging" ELSE "collecting",
                           ![w].gen = g]
  /\ UNCHANGED <<clone, raced, processed, gen, pointer>>

StartsStaging(w, g) ==
  at' = [at EXCEPT ![w].stage = "staging", ![w].gen = g, ![w].todo = FilesOf(at[w].key.manifest)]

\* ... or still staging, from a run that failed, died or has not finished.
JoinStaging(w) ==
  /\ Stage(w, "scanned")
  /\ \E g \in Gens :
       /\ gen[g].status = "staging" /\ Known(w, g)
       /\ gen' = [gen EXCEPT ![g].scan = "pending"]
       /\ StartsStaging(w, g)
  /\ UNCHANGED <<clone, raced, processed, pointer>>

CreateGen(w) ==
  /\ Stage(w, "scanned")
  /\ \A g \in Gens : ~Known(w, g)
  /\ \E g \in Gens :
       /\ gen[g].status = "absent" /\ \A h \in 1 .. (g - 1) : gen[h].status # "absent"
       /\ gen' = [gen EXCEPT ![g] = [NoRow EXCEPT !.status = "staging", !.key = at[w].key]]
       /\ StartsStaging(w, g)
  /\ UNCHANGED <<clone, raced, processed, pointer>>

-----------------------------------------------------------------------------
(* Documents.                                                               *)

\* processFile reads its file for the second time, long after the manifest.
ReadAgain(w, f) ==
  /\ w \in External /\ Stage(w, "staging") /\ f \in at[w].todo
  /\ at[w].got[f] = Absent /\ clone[f] # Absent
  /\ at' = [at EXCEPT ![w].got[f] = clone[f]]
  /\ UNCHANGED <<clone, raced, processed, gen, pointer>>

Read(w, f) == Stage(w, "staging") /\ f \in at[w].todo /\ at[w].got[f] # Absent

\* Mutant: the status of the generation is not read again.
Upsert_Late(w, f) ==
  /\ Read(w, f)
  /\ gen' = [gen EXCEPT ![at[w].gen].docs[f] = at[w].got[f]]
  /\ at' = [at EXCEPT ![w].todo = @ \ {f}]
  /\ UNCHANGED <<clone, raced, processed, pointer>>

\* One document, its chunks and embeddings, into a generation that is staging.
Upsert(w, f) ==
  /\ Read(w, f) /\ Staging(w)
  /\ gen' = [gen EXCEPT ![at[w].gen].docs[f] = at[w].got[f]]
  /\ at' = [at EXCEPT ![w].todo = @ \ {f}]
  /\ UNCHANGED <<clone, raced, processed, pointer>>

\* The external sync finds the document in the generation and skips it.
SkipDocument(w, f) ==
  /\ w \in External /\ Read(w, f)
  /\ Exists(at[w].gen) /\ gen[at[w].gen].docs[f] = at[w].got[f]
  /\ at' = [at EXCEPT ![w].todo = @ \ {f}]
  /\ UNCHANGED <<clone, raced, processed, gen, pointer>>

\* A missing file, the provider, the database, or a generation that is immutable.
DocumentFails(w, f) ==
  /\ Stage(w, "staging") /\ f \in at[w].todo
  /\ at' = [at EXCEPT ![w].todo = @ \ {f}, ![w].failed = TRUE]
  /\ UNCHANGED <<clone, raced, processed, gen, pointer>>

Staged(w) == Stage(w, "staging") /\ at[w].todo = {}

\* A run with a failed document leaves its generation incomplete.
GiveUp(w) ==
  /\ Staged(w) /\ at[w].failed
  /\ gen' = [gen EXCEPT ![at[w].gen].scan = IF Staging(w) THEN "incomplete" ELSE @]
  /\ Quits(w)
  /\ UNCHANGED <<clone, raced, processed, pointer>>

\* finalizeDocsRagSourceGeneration: a published generation stays as it is.
Finalize(w) ==
  /\ Staged(w) /\ ~at[w].failed
  /\ Exists(at[w].gen)
  /\ gen' = [gen EXCEPT ![at[w].gen].scan = "complete"]
  /\ at' = [at EXCEPT ![w].stage = "publishing"]
  /\ UNCHANGED <<clone, raced, processed, pointer>>

\* What the transaction, and the triggers behind it, ask of a generation.
Publishable(g) ==
  /\ gen[g].status = "staging" /\ gen[g].scan = "complete"
  /\ Cardinality(FilesOf(gen[g].docs)) = Cardinality(FilesOf(gen[g].key.manifest))

\* Status and pointer change together.
Publish(w) ==
  /\ Stage(w, "publishing") /\ Publishable(at[w].gen)
  /\ gen' = [gen EXCEPT ![at[w].gen].status = "published"]
  /\ pointer' = at[w].gen
  /\ at' = [at EXCEPT ![w].stage = "collecting"]
  /\ UNCHANGED <<clone, raced, processed>>

\* publishDocsRagSourceGeneration returns {published: false}, which its caller
\* does not read.
PublishAgain(w) ==
  /\ Stage(w, "publishing") /\ gen[at[w].gen].status = "published"
  /\ at' = [at EXCEPT ![w].stage = "collecting"]
  /\ UNCHANGED <<clone, raced, processed, gen, pointer>>

-----------------------------------------------------------------------------
(* Retention.                                                               *)

\* Mutant: the serving generation is counted and collected like the others.
Superseded_All == {g \in Gens : gen[g].status = "published"}

Superseded == {g \in Gens : gen[g].status = "published" /\ g # pointer}

\* Mutant: the row is retired and never deleted.
Swept_Retired(g) == [gen[g] EXCEPT !.status = "retired"]

\* Retired and deleted in one transaction; the documents go in cascade.
Swept(g) == [gen[g] EXCEPT !.status = "deleted", !.docs = Empty]

\* All but Keep of the superseded generations go, with their documents.  Which
\* ones are kept goes by the start of the transactions that published them, not
\* by the order in which the pointer moved: any of them here.
Collect(w) ==
  /\ Stage(w, "collecting")
  /\ \E kept \in SUBSET Superseded :
       /\ Cardinality(kept) = Keep \/ (kept = Superseded /\ Cardinality(kept) < Keep)
       /\ gen' = [g \in Gens |-> IF g \in Superseded \ kept THEN Swept(g) ELSE gen[g]]
  /\ Quits(w)
  /\ UNCHANGED <<clone, raced, processed, pointer>>

\* The process dies, or throws where nothing is closed.
Leave(w) ==
  /\ ~Stage(w, "idle")
  /\ Quits(w)
  /\ UNCHANGED <<clone, raced, processed, gen, pointer>>

\* The processed tree: edited by hand and by the external sync.
Edit(f, version) ==
  /\ processed' = [processed EXCEPT ![f] = version]
  /\ UNCHANGED <<clone, raced, gen, pointer, at>>

-----------------------------------------------------------------------------
SyncStep(w) ==
  \/ \E tree \in Trees : CopyInProgress(w, tree)
  \/ \E revision \in Upstream : Fetch(w, revision)
  \/ ScanClone(w) \/ ScanCorpus(w)
  \/ FindPublished(w) \/ JoinStaging(w) \/ CreateGen(w)
  \/ \E f \in Paths : ReadAgain(w, f) \/ Upsert(w, f) \/ SkipDocument(w, f) \/ DocumentFails(w, f)
  \/ GiveUp(w) \/ Finalize(w) \/ Publish(w) \/ PublishAgain(w)
  \/ Collect(w)
  \/ Leave(w)

DocsNext ==
  \/ \E w \in Syncs : SyncStep(w)
  \/ \E f \in Paths, version \in 0 .. Versions : Edit(f, version)

DocsSpec == DocsInit /\ [][DocsNext]_docsVars

-----------------------------------------------------------------------------
(* Properties.                                                              *)

\* Every variable has its type.
DocsTypeOK ==
  /\ clone \in Trees /\ processed \in Trees
  /\ gen \in [Gens -> Gen]
  /\ pointer \in Gens \cup {NoGen}
  /\ at \in [Syncs -> Run] /\ raced \in BOOLEAN

\* Searches see a published generation with a document for every file of its
\* manifest, however many runs staged it, failed at it, or collect around it.
ServesWhole ==
  pointer # NoGen =>
    /\ gen[pointer].status = "published" /\ gen[pointer].scan = "complete"
    /\ FilesOf(gen[pointer].docs) = FilesOf(gen[pointer].key.manifest)

\* 004-source-generations.sql: "A source generation is a complete, immutable
\* snapshot of one external source": what is served are the contents the
\* generation's key was made of, whoever staged, failed at and finished it, unless
\* a sync has replaced the clone under another.
ServesOneSnapshot ==
  pointer # NoGen /\ ~raced => gen[pointer].docs = gen[pointer].key.manifest

\* No late upsert, retry or finalization reaches a published generation; it
\* leaves whole, and only when it does not serve.
PublishedIsImmutable ==
  [][\A g \in Gens :
       gen[g].status = "published" =>
         gen'[g] = gen[g] \/ (gen'[g].status = "deleted" /\ g \notin {pointer, pointer'})]_docsVars

=============================================================================
