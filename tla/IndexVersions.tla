---------------------------- MODULE IndexVersions ----------------------------
(***************************************************************************)
(* The rows of the project index: files, their versions and the builds     *)
(* that publish them, under one ingest at a time (GatedIngest shows that   *)
(* the snapshot fence leaves only one writer), the deferred collector, a   *)
(* work tree that is edited meanwhile and a reader that binds a build,     *)
(* checks that it covers the work tree and then reads a file of it.        *)
(*                                                                         *)
(* A content stands for a file's text with its hash, its chunks and its    *)
(* symbols; the identity of the work tree is the tree itself.  Embeddings  *)
(* decide only which pending versions a promotion finds complete.          *)
(***************************************************************************)
EXTENDS Integers, FiniteSets

CONSTANTS Files, Contents,
          Blocked,            \* files the security check refuses by their path
          Calling, Defining,  \* contents that call, or define, one symbol
          Absent, NoFile, Unverified,
          Checkouts,          \* the trees the work tree may start from
          Baselines,          \* the indexes migration 007 may find
          Asked,              \* the files the reader may ask for
          MaxVersions, MaxBuilds, MaxEdits

ASSUME IndexAssumption ==
  /\ Blocked \subseteq Files
  /\ Calling \subseteq Contents /\ Defining \subseteq Contents
  /\ Absent \notin Contents /\ NoFile \notin Files
  /\ Checkouts \subseteq [Files -> Contents \cup {Absent}]
  /\ Asked \subseteq Files
  /\ MaxVersions \in Nat /\ MaxBuilds \in Nat \ {0} /\ MaxEdits \in Nat

VARIABLES disk,     \* the work tree
          edits,    \* how often it was edited
          file,     \* project_files
          version,  \* project_file_versions with their chunks, symbols, edges
          build,    \* project_index_builds with project_index_build_files
          run,      \* the ingest
          reader    \* one MCP read

vars == <<disk, edits, file, version, build, run, reader>>

VersionIds == 1 .. MaxVersions
BuildIds == 1 .. MaxBuilds
States == Contents \cup {Absent}
Trees == [Files -> States]
NoTree == [f \in Files |-> Absent]

FileRows == [status : {"none", "indexed", "blocked", "deleted"}, hash : States,
             latest : 0 .. MaxVersions, active : 0 .. MaxVersions]

(* "gone" is a row the collector deleted; numbers are never given twice.   *)
VersionRows ==
  [status : {"none", "pending", "ready", "failed", "replaced", "gone"},
   of : Files \cup {NoFile}, content : States, target : Files \cup {NoFile}]

(* tree is the identity of the revision the build was published with.      *)
BuildRows ==
  [status : {"none", "published", "retired", "garbage_collected"},
   tree : Trees \cup {Unverified}, files : [Files -> 0 .. MaxVersions]]

(* drop, todo: what is left to delete and to write; done: the files to be  *)
(* promoted; errors: the run is partial and must not publish.              *)
Runs ==
  [stage : {"idle", "resolved", "writing", "linked", "promoted"},
   full : BOOLEAN, scope : SUBSET Files, tree : Trees, scanned : Trees,
   drop : SUBSET Files, todo : SUBSET Files, done : SUBSET Files,
   errors : BOOLEAN]

(* expect is what the build showed of the file when it was bound.          *)
Readers ==
  [stage : {"idle", "bound", "covered", "located", "answered"},
   build : 0 .. MaxBuilds, file : Files \cup {NoFile},
   expect : States, got : States]

NoVersion == [status |-> "none", of |-> NoFile, content |-> Absent, target |-> NoFile]
NoFileRow == [status |-> "none", hash |-> Absent, latest |-> 0, active |-> 0]
NoFiles == [f \in Files |-> 0]
NoBuild == [status |-> "none", tree |-> Unverified, files |-> NoFiles]
Idle == [stage |-> "idle", full |-> FALSE, scope |-> {}, tree |-> NoTree,
         scanned |-> NoTree, drop |-> {}, todo |-> {}, done |-> {}, errors |-> FALSE]
NoReader == [stage |-> "idle", build |-> 0, file |-> NoFile,
             expect |-> Absent, got |-> Absent]

(* A tree as the index may hold it: the blocked files are never in it.     *)
View(tree) == [f \in Files |-> IF f \in Blocked THEN Absent ELSE tree[f]]

Held == {"published", "retired"}   \* builds whose file rows exist

(* What build b shows of a file: its row joined with the version.          *)
Shown(b) ==
  [f \in Files |-> IF build[b].files[f] = 0 THEN Absent
                   ELSE version[build[b].files[f]].content]

IsNextVersion(v) ==
  /\ version[v].status = "none"
  /\ \A w \in VersionIds : w < v => version[w].status # "none"

IsNextBuild(b) ==
  /\ build[b].status = "none"
  /\ \A c \in BuildIds : c < b => build[c].status # "none"

(* An index from before the builds: the active version of each file, 0 for *)
(* one that has none; versions are numbered as they were written.  What a  *)
(* file row says of blocked and deleted files does not change its version. *)
IsBaseline(old) ==
  /\ old \in [active : [Files -> 0 .. MaxVersions], text : [Files -> Contents],
              deleted : SUBSET Files]
  /\ \E f \in Files : old.active[f] = 1
  /\ \A f, g \in Files : old.active[f] = old.active[g] /\ old.active[f] # 0 => f = g
  /\ \A f \in Files : \A v \in 1 .. old.active[f] : \E g \in Files : old.active[g] = v

ASSUME BaselineAssumption == \A old \in Baselines : IsBaseline(old)

LegacyStatus(old, f) ==
  IF f \in old.deleted THEN "deleted" ELSE IF f \in Blocked THEN "blocked" ELSE "indexed"

LegacyFile(old, f) ==
  IF old.active[f] = 0 THEN NoFileRow
  ELSE [status |-> LegacyStatus(old, f), hash |-> old.text[f],
        latest |-> old.active[f], active |-> old.active[f]]

LegacyVersion(old, v) ==
  IF \A f \in Files : old.active[f] # v THEN NoVersion
  ELSE LET owner == CHOOSE f \in Files : old.active[f] = v
       IN [status |-> "ready", of |-> owner, content |-> old.text[owner], target |-> NoFile]

(* Every active version is entered, whatever the status of its file.       *)
LegacyBuild(old) ==
  [status |-> "published", tree |-> Unverified, files |-> old.active]

(***************************************************************************)
(* Initial states: nothing indexed, or an older index in the one build     *)
(* that migration 007 publishes for it, with no identity to verify.        *)
(***************************************************************************)
Init ==
  /\ disk \in Checkouts
  /\ edits = 0
  /\ run = Idle
  /\ reader = NoReader
  /\ \/ /\ file = [f \in Files |-> NoFileRow]
        /\ version = [v \in VersionIds |-> NoVersion]
        /\ build = [b \in BuildIds |-> NoBuild]
     \/ \E old \in Baselines :
          /\ file = [f \in Files |-> LegacyFile(old, f)]
          /\ version = [v \in VersionIds |-> LegacyVersion(old, v)]
          /\ build = [b \in BuildIds |-> IF b = 1 THEN LegacyBuild(old) ELSE NoBuild]

(***************************************************************************)
(* The work tree.                                                          *)
(***************************************************************************)
Edit(f, c) ==
  /\ edits < MaxEdits
  /\ c # disk[f]
  /\ disk' = [disk EXCEPT ![f] = c]
  /\ edits' = edits + 1
  /\ UNCHANGED <<file, version, build, run, reader>>

(***************************************************************************)
(* The ingest.                                                             *)
(***************************************************************************)

(* A full ingest, or one of a single file, first resolves the workspace    *)
(* identity: the revision a publication will carry.                        *)
Resolve(full, scope) ==
  /\ run.stage = "idle"
  /\ IF full THEN scope = Files ELSE \E f \in Files : scope = {f} /\ disk[f] # Absent
  /\ run' = [Idle EXCEPT !.stage = "resolved", !.full = full, !.scope = scope, !.tree = disk]
  /\ UNCHANGED <<disk, edits, file, version, build, reader>>

LatestStatus(f) == IF file[f].latest = 0 THEN "none" ELSE version[file[f].latest].status

Candidates == {f \in run.scope : disk[f] # Absent}

(* Mutant: a version that was written counts, promoted or not.             *)
Current_Written(f) ==
  /\ file[f].hash = disk[f]
  /\ file[f].status = IF f \in Blocked THEN "blocked" ELSE "indexed"

(* The file's row answers for the text on disk, and nothing is to be done. *)
Current(f) ==
  /\ file[f].hash = disk[f]
  /\ IF f \in Blocked THEN file[f].status = "blocked"
     ELSE file[f].status = "indexed" /\ LatestStatus(f) = "ready"

(* Written by an earlier run that never promoted it.                       *)
Recoverable(f) ==
  /\ f \notin Blocked
  /\ file[f].status = "indexed" /\ file[f].hash = disk[f] /\ LatestStatus(f) = "pending"

(* Tracked files that a complete scan did not find.                        *)
Vanished ==
  IF run.full THEN {f \in Files : file[f].status \notin {"none", "deleted"} /\ disk[f] = Absent}
  ELSE {}

(* The scan after the claim.  An operation budget (maxFiles) takes the     *)
(* deletions first and leaves the run partial when something is left.      *)
Scan(force, budget) ==
  /\ run.stage = "resolved"
  /\ run.full \/ Candidates # {}
  /\ LET stale == {f \in Candidates : force \/ ~Current(f)}
         recover == {f \in stale : ~force /\ Recoverable(f)}
     IN /\ budget \subseteq Vanished \cup stale
        /\ budget \cap stale # {} => Vanished \subseteq budget
        /\ run' = [run EXCEPT !.stage = "writing", !.scanned = disk,
                              !.drop = Vanished \cap budget,
                              !.todo = (stale \ recover) \cap budget,
                              !.done = recover \cap budget,
                              !.errors = ~(Vanished \cup stale \subseteq budget)]
  /\ UNCHANGED <<disk, edits, file, version, build, reader>>

Delete(f) ==
  /\ run.stage = "writing"
  /\ f \in run.drop
  /\ file' = [file EXCEPT ![f].status = "deleted"]
  /\ run' = [run EXCEPT !.drop = @ \ {f}]
  /\ UNCHANGED <<disk, edits, version, build, reader>>

Writing(f) == run.stage = "writing" /\ run.drop = {} /\ f \in run.todo

(* A file is written as a pending version, with its chunks, symbols and    *)
(* edges, if its text is still the scanned one; a text that does not parse *)
(* fails the version and makes the run partial.                            *)
Write(f, v, parses) ==
  /\ Writing(f) /\ f \notin Blocked
  /\ disk[f] = run.scanned[f]
  /\ IsNextVersion(v)
  /\ version' = [version EXCEPT ![v] =
       [status |-> IF parses THEN "pending" ELSE "failed",
        of |-> f, content |-> disk[f], target |-> NoFile]]
  /\ file' = [file EXCEPT ![f] = [@ EXCEPT !.status = "indexed", !.hash = disk[f], !.latest = v]]
  /\ run' = [run EXCEPT !.todo = @ \ {f},
                        !.done = IF parses THEN @ \cup {f} ELSE @,
                        !.errors = @ \/ ~parses]
  /\ UNCHANGED <<disk, edits, build, reader>>

(* Mutant: a status no other statement knows.                              *)
Supersede_Misspelt(v) == IF version[v].status = "ready" THEN "superseded" ELSE version[v].status

(* What a row that becomes active leaves of the one that was.              *)
Supersede(v) == IF version[v].status = "ready" THEN "replaced" ELSE version[v].status

(* A blocked file gets a version that owns no rows and is active at once.  *)
Block(f, v) ==
  /\ Writing(f) /\ f \in Blocked
  /\ disk[f] # Absent
  /\ IsNextVersion(v)
  /\ version' = [w \in VersionIds |->
       CASE w = v -> [status |-> "ready", of |-> f, content |-> disk[f], target |-> NoFile]
         [] w = file[f].active -> [version[w] EXCEPT !.status = Supersede(w)]
         [] OTHER -> version[w]]
  /\ file' = [file EXCEPT ![f] =
       [status |-> "blocked", hash |-> disk[f], latest |-> v, active |-> v]]
  /\ run' = [run EXCEPT !.todo = @ \ {f}]
  /\ UNCHANGED <<disk, edits, build, reader>>

(* Any other failure of one file is recorded, and the run goes on.         *)
FileError(f) ==
  /\ Writing(f)
  /\ run' = [run EXCEPT !.todo = @ \ {f}, !.errors = TRUE]
  /\ UNCHANGED <<disk, edits, file, version, build, reader>>

(* Blocked and failed versions own neither symbols nor edges.              *)
Parsed(v) == version[v].status \in {"pending", "ready", "replaced"} /\ version[v].of \notin Blocked
Calls(v) == Parsed(v) /\ version[v].content \in Calling
Defines(v) == Parsed(v) /\ version[v].content \in Defining

(* The file a call from f resolves to among some definitions: f itself, or *)
(* the one with the lowest symbol number.                                  *)
BestDefiner(f, definers) ==
  IF definers = {} THEN NoFile
  ELSE IF \E v \in definers : version[v].of = f THEN f
  ELSE LET lowest == CHOOSE v \in definers : \A w \in definers : v <= w
       IN version[lowest].of

(* The edges of the whole project that have no target get one: those of    *)
(* earlier versions too, and by the symbols of versions no build holds.    *)
Link ==
  /\ run.stage = "writing" /\ run.drop = {} /\ run.todo = {} /\ run.done # {}
  /\ version' = [v \in VersionIds |->
       IF Calls(v) /\ version[v].target = NoFile
       THEN [version[v] EXCEPT !.target =
               BestDefiner(version[v].of, {w \in VersionIds : Defines(w)})]
       ELSE version[v]]
  /\ run' = [run EXCEPT !.stage = "linked"]
  /\ UNCHANGED <<disk, edits, file, build, reader>>

(* The files of done whose chunks all have valid embeddings, S, are        *)
(* promoted in one unit.                                                   *)
Promote(S) ==
  /\ run.stage = "linked"
  /\ S \subseteq {f \in run.done : LatestStatus(f) = "pending" /\ file[f].latest # file[f].active}
  /\ version' = [v \in VersionIds |->
       CASE \E f \in S : v = file[f].latest -> [version[v] EXCEPT !.status = "ready"]
         [] \E f \in S : v = file[f].active -> [version[v] EXCEPT !.status = Supersede(v)]
         [] OTHER -> version[v]]
  /\ file' = [f \in Files |-> IF f \in S THEN [file[f] EXCEPT !.active = file[f].latest] ELSE file[f]]
  /\ run' = [run EXCEPT !.stage = "promoted", !.errors = @ \/ S # run.done]
  /\ UNCHANGED <<disk, edits, build, reader>>

Applied ==
  \/ run.stage = "promoted"
  \/ run.stage = "writing" /\ run.drop = {} /\ run.todo = {} /\ run.done = {}

BuildFiles == [f \in Files |-> IF file[f].status = "indexed" THEN file[f].active ELSE 0]

(* An empty build needs a complete scan that found no file.                *)
MayPublish == (\E f \in Files : BuildFiles[f] # 0) \/ (run.full /\ run.scanned = NoTree)

(* Mutant: the build that was published stays published.                   *)
Publish_Beside(b) ==
  /\ Applied /\ ~run.errors /\ MayPublish
  /\ IsNextBuild(b)
  /\ build' = [build EXCEPT ![b] =
       [status |-> "published", tree |-> run.tree, files |-> BuildFiles]]
  /\ run' = Idle
  /\ UNCHANGED <<disk, edits, file, version, reader>>

(* The active versions become the published build, with the identity that  *)
(* was resolved when the ingest began.                                     *)
Publish(b) ==
  /\ Applied /\ ~run.errors /\ MayPublish
  /\ IsNextBuild(b)
  /\ build' = [c \in BuildIds |->
       CASE c = b -> [status |-> "published", tree |-> run.tree, files |-> BuildFiles]
         [] build[c].status = "published" -> [build[c] EXCEPT !.status = "retired"]
         [] OTHER -> build[c]]
  /\ run' = Idle
  /\ UNCHANGED <<disk, edits, file, version, reader>>

(* A crash, a lost lease, a drifted text, a partial run: the snapshot is   *)
(* failed and nothing is published.                                        *)
Abandon ==
  /\ run.stage # "idle"
  /\ run' = Idle
  /\ UNCHANGED <<disk, edits, file, version, build, reader>>

(***************************************************************************)
(* The collector: all retired builds but the newest `retain`, and then the *)
(* replaced and failed versions nothing refers to any more.                *)
(***************************************************************************)
Retired == {b \in BuildIds : build[b].status = "retired"}

(* Mutant: an offset one too small.                                        *)
Collectable_OneShort(retain) ==
  {b \in Retired : Cardinality({c \in Retired : c > b}) >= retain - 1}

Collectable(retain) ==
  {b \in Retired : Cardinality({c \in Retired : c > b}) >= retain}

Pointed == {file[f].active : f \in Files} \cup {file[f].latest : f \in Files}

(* Mutant: only the file rows are asked.                                   *)
Referenced_ByFiles(old) == Pointed

(* Versions a file row or a build that stays still refers to.              *)
Referenced(old) ==
  Pointed \cup {build[b].files[f] :
                b \in {c \in BuildIds : build[c].status \in Held} \ old, f \in Files}

Collect(retain) ==
  LET old == Collectable(retain)
      referenced == Referenced(old)
  IN /\ old # {}
     /\ build' = [b \in BuildIds |->
          IF b \in old THEN [build[b] EXCEPT !.status = "garbage_collected", !.files = NoFiles]
          ELSE build[b]]
     /\ version' = [v \in VersionIds |->
          IF version[v].status \in {"replaced", "failed"} /\ v \notin referenced
          THEN [NoVersion EXCEPT !.status = "gone"]
          ELSE version[v]]
     /\ UNCHANGED <<disk, edits, file, run, reader>>

(***************************************************************************)
(* A read: search_project_code and get_project_file.                       *)
(***************************************************************************)

(* The serving state names the build all later queries are bound to.       *)
Bind(f, b) ==
  /\ reader.stage = "idle"
  /\ build[b].status = "published"
  /\ reader' = [NoReader EXCEPT !.stage = "bound", !.build = b, !.file = f,
                                !.expect = Shown(b)[f]]
  /\ UNCHANGED <<disk, edits, file, version, build, run>>

(* The overlay: a build whose identity is unknown or differs from the work *)
(* tree's is refused.                                                      *)
Covers(b) == build[b].tree # Unverified /\ build[b].tree = disk

Check ==
  /\ reader.stage = "bound"
  /\ reader' = IF Covers(reader.build)
               THEN [reader EXCEPT !.stage = "covered"]
               ELSE NoReader
  /\ UNCHANGED <<disk, edits, file, version, build, run>>

(* A search is one query over the rows of the bound build.                 *)
Search ==
  /\ reader.stage = "covered"
  /\ reader' = [reader EXCEPT !.stage = "answered", !.got = Shown(reader.build)[reader.file]]
  /\ UNCHANGED <<disk, edits, file, version, build, run>>

(* A file is read by two: its row in the build, then the chunks of the     *)
(* version that row names by then.                                         *)
Locate ==
  /\ reader.stage = "covered"
  /\ reader' = IF build[reader.build].files[reader.file] = 0 THEN NoReader
               ELSE [reader EXCEPT !.stage = "located"]
  /\ UNCHANGED <<disk, edits, file, version, build, run>>

Fetch ==
  /\ reader.stage = "located"
  /\ reader' = [reader EXCEPT !.stage = "answered", !.got = Shown(reader.build)[reader.file]]
  /\ UNCHANGED <<disk, edits, file, version, build, run>>

Finish ==
  /\ reader.stage = "answered"
  /\ reader' = NoReader
  /\ UNCHANGED <<disk, edits, file, version, build, run>>

Ingest ==
  \/ \E full \in BOOLEAN, scope \in {Files} \cup {{f} : f \in Files} : Resolve(full, scope)
  \/ \E force \in BOOLEAN, budget \in SUBSET Files : Scan(force, budget)
  \/ \E f \in Files : Delete(f) \/ FileError(f)
  \/ \E f \in Files, v \in VersionIds, parses \in BOOLEAN : Write(f, v, parses)
  \/ \E f \in Files, v \in VersionIds : Block(f, v)
  \/ Link
  \/ \E S \in SUBSET Files : Promote(S)
  \/ \E b \in BuildIds : Publish(b)
  \/ Abandon

Read ==
  \/ \E f \in Asked, b \in BuildIds : Bind(f, b)
  \/ Check \/ Search \/ Locate \/ Fetch \/ Finish

Next ==
  \/ \E f \in Files, c \in States : Edit(f, c)
  \/ Ingest
  \/ \E retain \in 1 .. MaxBuilds : Collect(retain)
  \/ Read

Spec == Init /\ [][Next]_vars

(***************************************************************************)
(* Properties.                                                             *)
(***************************************************************************)

(* Every row has the shape the schema gives it.                            *)
IndexTypeOK ==
  /\ disk \in Trees
  /\ edits \in 0 .. MaxEdits
  /\ file \in [Files -> FileRows]
  /\ version \in [VersionIds -> VersionRows]
  /\ build \in [BuildIds -> BuildRows]
  /\ run \in Runs
  /\ reader \in Readers

(* The versions a published or retained build names exist, belong to the   *)
(* file they are named for and were ready when it was published: neither a *)
(* promotion, nor an abandoned run, nor the collector takes one away (the  *)
(* joins of store-read-models.ts have no row for a missing one).  A build  *)
(* an ingest published names no blocked file; the legacy one may.          *)
BuildsAreWhole ==
  \A b \in BuildIds, f \in Files :
    build[b].status \in Held /\ build[b].files[f] # 0 =>
      LET v == version[build[b].files[f]]
      IN /\ v.status \in {"ready", "replaced"} /\ v.of = f
         /\ build[b].tree # Unverified => f \notin Blocked

(* A reader that bound a build gets what the build showed then, whatever   *)
(* is written, promoted or published meanwhile, unless two builds were     *)
(* published and the collector took the bound one: the reason for          *)
(* retaining at least one retired build.                                   *)
AnswersSurviveOneSwap ==
  reader.stage = "answered" /\ reader.got # reader.expect =>
    /\ build[reader.build].status = "garbage_collected"
    /\ \E b, c \in BuildIds : reader.build < b /\ b < c /\ build[c].status # "none"

(* A full ingest whose scan saw the tree it had resolved publishes exactly *)
(* that tree without the blocked files: no stale version, no deleted file, *)
(* whatever earlier runs left half done.                                   *)
FullIngestPublishesTheTree ==
  [][\A b \in BuildIds :
       /\ build[b].status = "none" /\ build'[b].status = "published"
       /\ run.full /\ run.scanned = run.tree
       => Shown(b)' = View(run.tree)]_vars

(* What readers are promised: published content is fixed, one build is     *)
(* published, the collector leaves the newest retired one.                 *)
Builds == INSTANCE PublishedBuilds WITH
  Builds <- BuildIds,
  Views <- Trees,
  Nothing <- NoTree,
  state <- [b \in BuildIds |->
              IF build[b].status = "garbage_collected" THEN "collected" ELSE build[b].status],
  shown <- [b \in BuildIds |-> Shown(b)]

RefinesBuilds == Builds!Spec

(* project-invariants.ts:226 of a read that passed the overlay: "The       *)
(* serving index identity covers the current scoped workspace."            *)
CoveredMeansCurrent ==
  [][reader.stage = "bound" /\ reader'.stage = "covered" =>
       reader.expect = View(disk)[reader.file]]_vars

(* Where get_navigation_paths leads from file f in build b: the target     *)
(* bound to the call if the build has that file, else the best definition  *)
(* of the build, and never f itself.                                       *)
Navigation(b, f) ==
  LET v == build[b].files[f]
      target == IF version[v].target # NoFile
                THEN IF build[b].files[version[v].target] # 0 THEN version[v].target ELSE NoFile
                ELSE BestDefiner(f, {w \in VersionIds :
                       Defines(w) /\ build[b].files[version[w].of] = w})
  IN IF v = 0 THEN {} ELSE IF ~Calls(v) THEN {} ELSE {target} \ {NoFile, f}

(* 007-index-build-publication.sql:3: "A published build is the sole read  *)
(* boundary.  Ingest may create pending file versions freely, but readers  *)
(* keep using the prior published build".                                  *)
PublishedGraphIsFixed ==
  [][\A b \in BuildIds, f \in Files :
       build[b].status = "published" /\ build'[b].status = "published" =>
         Navigation(b, f)' = Navigation(b, f)]_vars
=============================================================================
