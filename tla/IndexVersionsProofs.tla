------------------------ MODULE IndexVersionsProofs ------------------------
(***************************************************************************)
(* Theorems about the index rows, for any files, contents, security        *)
(* verdicts and bounds.                                                    *)
(*                                                                         *)
(* Everything rests on how a single version may change (VersionsEvolve):   *)
(* its text and its file are fixed from the step that inserts it, and only *)
(* a version no file row and no kept build refers to is deleted.  So what  *)
(* a held build shows is fixed, which gives the reader's promise and the   *)
(* refinement; and the rows a run leaves (Rows, RunProgress) are those of  *)
(* the tree it scanned, which gives the completeness of a full ingest.     *)
(***************************************************************************)
EXTENDS IndexVersions, FiniteSetTheorems, WellFoundedInduction, TLAPS

USE IndexAssumption DEF IndexAssumption

(* A file's active version is ready, its latest one is the text the row    *)
(* records, and a latest version that is ready is the active one.          *)
Rows ==
  /\ \A v \in VersionIds : version[v].status \notin {"none", "gone"} => version[v].of \in Files
  /\ \A f \in Files :
       /\ file[f].status # IF f \in Blocked THEN "indexed" ELSE "blocked"
       /\ file[f].status = "none" => file[f] = NoFileRow
       /\ file[f].active # 0 =>
            version[file[f].active].status = "ready" /\ version[file[f].active].of = f
       /\ file[f].latest # 0 =>
            /\ version[file[f].latest].status \in {"pending", "ready", "failed"}
            /\ version[file[f].latest].of = f
            /\ version[file[f].latest].content = file[f].hash
            /\ version[file[f].latest].status = "ready" => file[f].active = file[f].latest

(* Builds are numbered without gaps, one newer than every retired or       *)
(* collected one is published, and only the held ones have rows.           *)
BuildOrder ==
  /\ \A b, c \in BuildIds : b < c /\ build[b].status = "none" => build[c].status = "none"
  /\ \A b \in BuildIds : build[b].status \in {"retired", "garbage_collected"} =>
       \E c \in BuildIds : b < c /\ build[c].status = "published"
  /\ \A b \in BuildIds : build[b].status \notin Held => build[b].files = NoFiles

(* What is left to do of a run, and what it has done.                      *)
Scanned == run.stage \in {"writing", "linked", "promoted"}
RunPlan ==
  /\ run.full => run.scope = Files
  /\ Scanned => /\ \A f \in run.todo : run.scanned[f] # Absent
                /\ \A f \in run.drop : run.scanned[f] = Absent
  /\ run.stage \in {"linked", "promoted"} => run.drop = {} /\ run.todo = {}

Written(f) ==
  /\ file[f].status = "indexed" /\ file[f].hash = run.scanned[f]
  /\ \/ LatestStatus(f) = "ready"
     \/ f \in run.done /\ LatestStatus(f) = "pending" /\ run.stage # "promoted"

RunProgress ==
  Scanned /\ run.full /\ ~run.errors =>
    \A f \in Files \ Blocked :
      IF run.scanned[f] = Absent
      THEN f \in run.drop \/ file[f].status \in {"none", "deleted"}
      ELSE f \in run.todo \/ Written(f)

(* The reader's build was published, and while its rows exist it shows     *)
(* what it showed when it was bound.                                       *)
ReaderBound ==
  reader.stage # "idle" =>
    /\ reader.build \in BuildIds /\ reader.file \in Files
    /\ build[reader.build].status # "none"
    /\ build[reader.build].status \in Held => Shown(reader.build)[reader.file] = reader.expect
    /\ build[reader.build].status = "garbage_collected" =>
         \E b, c \in BuildIds : reader.build < b /\ b < c /\ build[c].status # "none"
    /\ reader.stage = "answered" /\ reader.got # reader.expect =>
         build[reader.build].status = "garbage_collected"

IndexInv ==
  /\ IndexTypeOK
  /\ Rows /\ BuildsAreWhole /\ BuildOrder
  /\ RunPlan /\ RunProgress
  /\ ReaderBound

-----------------------------------------------------------------------------
(* Types.                                                                  *)

LEMMA NullRows ==
  /\ Idle \in Runs /\ NoReader \in Readers
  /\ NoFileRow \in FileRows /\ NoVersion \in VersionRows
  /\ NoFiles \in [Files -> 0 .. MaxVersions] /\ NoBuild \in BuildRows
<1>1. NoTree \in Trees BY DEF NoTree, Trees, States
<1>2. Idle \in Runs BY <1>1 DEF Idle, Runs
<1>3. NoReader \in Readers BY DEF NoReader, Readers, States
<1>4. NoFileRow \in FileRows BY DEF NoFileRow, FileRows, States
<1>5. NoVersion \in VersionRows BY DEF NoVersion, VersionRows, States
<1>6. NoFiles \in [Files -> 0 .. MaxVersions] BY DEF NoFiles
<1>7. NoBuild \in BuildRows BY <1>6 DEF NoBuild, BuildRows
<1> QED BY <1>2, <1>3, <1>4, <1>5, <1>6, <1>7

\* The rows of an index from before the builds: numbers are of one file each.
LEMMA LegacyRows ==
  ASSUME NEW old \in Baselines
  PROVE  /\ \A f \in Files : LegacyFile(old, f) \in FileRows
         /\ \A v \in VersionIds : LegacyVersion(old, v) \in VersionRows
         /\ \A v \in VersionIds : LegacyVersion(old, v) = NoVersion \/ LegacyVersion(old, v).of \in Files
         /\ LegacyBuild(old) \in BuildRows
         /\ \A f \in Files : old.active[f] # 0 =>
              /\ old.active[f] \in VersionIds
              /\ LegacyVersion(old, old.active[f]) =
                   [status |-> "ready", of |-> f, content |-> old.text[f], target |-> NoFile]
<1>1. /\ IsBaseline(old)
      /\ old.active \in [Files -> 0 .. MaxVersions] /\ old.text \in [Files -> Contents]
  BY BaselineAssumption DEF IsBaseline
<1>2. ASSUME NEW f \in Files PROVE LegacyFile(old, f) \in FileRows
  BY <1>1, NullRows DEF LegacyFile, LegacyStatus, FileRows, States
<1>3. ASSUME NEW v \in VersionIds
      PROVE  /\ LegacyVersion(old, v) \in VersionRows
             /\ LegacyVersion(old, v) = NoVersion \/ LegacyVersion(old, v).of \in Files
  <2>1. CASE \A f \in Files : old.active[f] # v BY <2>1, NullRows DEF LegacyVersion
  <2>2. CASE \E f \in Files : old.active[f] = v
    <3> DEFINE owner == CHOOSE f \in Files : old.active[f] = v
    <3>1. owner \in Files BY <2>2
    <3> HIDE DEF owner
    <3>2. old.text[owner] \in States BY <1>1, <3>1 DEF States
    <3>3. LegacyVersion(old, v) =
            [status |-> "ready", of |-> owner, content |-> old.text[owner], target |-> NoFile]
      BY <2>2 DEF LegacyVersion, owner
    <3> QED BY <3>1, <3>2, <3>3 DEF VersionRows
  <2> QED BY <2>1, <2>2
<1>4. LegacyBuild(old) \in BuildRows BY <1>1 DEF LegacyBuild, BuildRows
<1>5. ASSUME NEW f \in Files, old.active[f] # 0
      PROVE  /\ old.active[f] \in VersionIds
             /\ LegacyVersion(old, old.active[f]) =
                  [status |-> "ready", of |-> f, content |-> old.text[f], target |-> NoFile]
  <2> DEFINE owner == CHOOSE g \in Files : old.active[g] = old.active[f]
  <2>1. old.active[f] \in VersionIds BY <1>1, <1>5 DEF VersionIds
  <2>2. owner \in Files /\ old.active[owner] = old.active[f] OBVIOUS
  <2>3. owner = f BY <1>1, <1>5, <2>2 DEF IsBaseline
  <2> HIDE DEF owner
  <2>4. LegacyVersion(old, old.active[f]) =
          [status |-> "ready", of |-> owner, content |-> old.text[owner], target |-> NoFile]
    BY DEF LegacyVersion, owner
  <2> QED BY <2>1, <2>3, <2>4
<1> QED BY <1>2, <1>3, <1>4, <1>5

LEMMA InitTypes == Init => IndexTypeOK
<1> SUFFICES ASSUME Init PROVE IndexTypeOK OBVIOUS
<1>1. disk \in Trees /\ edits \in 0 .. MaxEdits BY DEF Init, Trees, States
<1>2. run \in Runs /\ reader \in Readers BY NullRows DEF Init
<1>3. file \in [Files -> FileRows] BY NullRows, LegacyRows DEF Init
<1>4. version \in [VersionIds -> VersionRows] BY NullRows, LegacyRows DEF Init
<1>5. build \in [BuildIds -> BuildRows] BY NullRows, LegacyRows DEF Init
<1> QED BY <1>1, <1>2, <1>3, <1>4, <1>5 DEF IndexTypeOK

\* A set of numbers that is not empty has a least one.
LEMMA Least ==
  ASSUME NEW D, D \subseteq Nat, D # {}
  PROVE  \E v \in D : \A w \in D : v <= w
<1> DEFINE R == OpToRel(<, Nat)
<1>1. IsWellFoundedOn(R, Nat) BY NatLessThanWellFounded
<1>2. \A x, y \in Nat : x < y => <<x, y>> \in R BY DEF OpToRel
<1> HIDE DEF R
<1>3. PICK x \in D : \A y \in D : ~(<<y, x>> \in R) BY <1>1, WFMin
<1>4. ASSUME NEW w \in D PROVE x <= w
  <2>1. x \in Nat /\ w \in Nat OBVIOUS
  <2>2. ~(<<w, x>> \in R) BY <1>3
  <2>3. ~(w < x) BY <2>1, <2>2, <1>2
  <2> QED BY <2>1, <2>3
<1> QED BY <1>4

\* What BestDefiner returns is a file or none.
LEMMA DefinerType ==
  ASSUME IndexTypeOK, NEW f \in Files
  PROVE  BestDefiner(f, {w \in VersionIds : Defines(w)}) \in Files \cup {NoFile}
<1> DEFINE D == {w \in VersionIds : Defines(w)}
           lowest == CHOOSE v \in D : \A w \in D : v <= w
<1>1. CASE D = {} BY <1>1 DEF BestDefiner
<1>2. CASE \E v \in D : version[v].of = f BY <1>2 DEF BestDefiner
<1>3. CASE D # {} /\ ~\E v \in D : version[v].of = f
  <2>1. D \subseteq Nat BY DEF VersionIds
  <2>3. \E v \in D : \A w \in D : v <= w
    <3> HIDE DEF D
    <3> QED BY <1>3, <2>1, Least
  <2>4. lowest \in VersionIds BY <2>3
  <2>5. version[lowest].of \in Files \cup {NoFile} BY <2>4 DEF IndexTypeOK, VersionRows
  <2> QED BY <1>3, <2>5 DEF BestDefiner
<1> QED BY <1>1, <1>2, <1>3

LEMMA TypesStep == IndexTypeOK /\ Rows /\ ReaderBound /\ [Next]_vars => IndexTypeOK'
<1> SUFFICES ASSUME IndexTypeOK, Rows, ReaderBound, [Next]_vars PROVE IndexTypeOK' OBVIOUS
<1>1. CASE UNCHANGED vars BY <1>1 DEF vars, IndexTypeOK
<1>2. ASSUME NEW f \in Files, NEW c \in States, Edit(f, c) PROVE IndexTypeOK'
  <2>1. edits' \in 0 .. MaxEdits BY <1>2 DEF Edit, IndexTypeOK
  <2>2. disk' \in Trees BY <1>2 DEF Edit, IndexTypeOK, Trees
  <2> QED BY <1>2, <2>1, <2>2 DEF Edit, IndexTypeOK
<1>3. ASSUME NEW full \in BOOLEAN, NEW scope \in {Files} \cup {{f} : f \in Files},
             Resolve(full, scope)
      PROVE  IndexTypeOK'
  <2>1. scope \in SUBSET Files OBVIOUS
  <2>2. run' \in Runs BY <1>3, <2>1, NullRows DEF Resolve, IndexTypeOK, Runs
  <2> QED BY <1>3, <2>2 DEF Resolve, IndexTypeOK
<1>4. ASSUME NEW force \in BOOLEAN, NEW budget \in SUBSET Files, Scan(force, budget)
      PROVE  IndexTypeOK'
  <2>1. Candidates \subseteq Files BY DEF IndexTypeOK, Runs, Candidates
  <2>2. run' \in Runs BY <1>4, <2>1 DEF Scan, IndexTypeOK, Runs
  <2> QED BY <1>4, <2>2 DEF Scan, IndexTypeOK
<1>5. ASSUME NEW f \in Files, Delete(f) PROVE IndexTypeOK'
  <2>1. file' \in [Files -> FileRows] BY <1>5 DEF Delete, IndexTypeOK, FileRows
  <2>2. run' \in Runs BY <1>5 DEF Delete, IndexTypeOK, Runs
  <2> QED BY <1>5, <2>1, <2>2 DEF Delete, IndexTypeOK
<1>6. ASSUME NEW f \in Files, FileError(f) PROVE IndexTypeOK'
  <2>2. run' \in Runs BY <1>6 DEF FileError, IndexTypeOK, Runs
  <2> QED BY <1>6, <2>2 DEF FileError, IndexTypeOK
<1>7. ASSUME NEW f \in Files, NEW v \in VersionIds, NEW parses \in BOOLEAN, Write(f, v, parses)
      PROVE  IndexTypeOK'
  <2>1. disk[f] \in States /\ v \in 0 .. MaxVersions BY DEF IndexTypeOK, Trees, VersionIds
  <2>2. file' \in [Files -> FileRows] BY <1>7, <2>1 DEF Write, IndexTypeOK, FileRows
  <2>3. version' \in [VersionIds -> VersionRows]
    BY <1>7, <2>1 DEF Write, IndexTypeOK, VersionRows
  <2>4. run' \in Runs BY <1>7 DEF Write, IndexTypeOK, Runs
  <2> QED BY <1>7, <2>2, <2>3, <2>4 DEF Write, IndexTypeOK
<1>8. ASSUME NEW f \in Files, NEW v \in VersionIds, Block(f, v) PROVE IndexTypeOK'
  <2>1. disk[f] \in States /\ v \in 0 .. MaxVersions BY DEF IndexTypeOK, Trees, VersionIds
  <2>2. file' \in [Files -> FileRows] BY <1>8, <2>1 DEF Block, IndexTypeOK, FileRows
  <2>3. version' \in [VersionIds -> VersionRows]
    BY <1>8, <2>1 DEF Block, IndexTypeOK, VersionRows, Supersede
  <2>4. run' \in Runs BY <1>8 DEF Block, IndexTypeOK, Runs
  <2> QED BY <1>8, <2>2, <2>3, <2>4 DEF Block, IndexTypeOK
<1>9. ASSUME Link PROVE IndexTypeOK'
  <2>1. ASSUME NEW v \in VersionIds PROVE version'[v] \in VersionRows
    <3>1. CASE Calls(v) /\ version[v].target = NoFile
      <4>2. version[v].of \in Files BY <3>1 DEF Calls, Parsed, Rows
      <4>3. BestDefiner(version[v].of, {w \in VersionIds : Defines(w)}) \in Files \cup {NoFile}
        BY <4>2, DefinerType
      <4> QED BY <1>9, <3>1, <4>3 DEF Link, IndexTypeOK, VersionRows
    <3>2. CASE ~(Calls(v) /\ version[v].target = NoFile)
      BY <1>9, <3>2 DEF Link, IndexTypeOK
    <3> QED BY <3>1, <3>2
  <2>2. version' = [v \in VersionIds |-> version'[v]] BY <1>9 DEF Link
  <2>3. version' \in [VersionIds -> VersionRows] BY <2>1, <2>2
  <2>4. run' \in Runs BY <1>9 DEF Link, IndexTypeOK, Runs
  <2> QED BY <1>9, <2>3, <2>4 DEF Link, IndexTypeOK
<1>10. ASSUME NEW S \in SUBSET Files, Promote(S) PROVE IndexTypeOK'
  <2>1. file' \in [Files -> FileRows] BY <1>10 DEF Promote, IndexTypeOK, FileRows
  <2>2. ASSUME NEW v \in VersionIds PROVE version'[v] \in VersionRows
    BY <1>10 DEF Promote, IndexTypeOK, VersionRows, Supersede
  <2>3. version' = [v \in VersionIds |-> version'[v]] BY <1>10 DEF Promote
  <2>4. version' \in [VersionIds -> VersionRows] BY <2>2, <2>3
  <2>5. run' \in Runs BY <1>10 DEF Promote, IndexTypeOK, Runs
  <2> QED BY <1>10, <2>1, <2>4, <2>5 DEF Promote, IndexTypeOK
<1>11. ASSUME NEW b \in BuildIds, Publish(b) PROVE IndexTypeOK'
  <2>1. BuildFiles \in [Files -> 0 .. MaxVersions]
    BY DEF BuildFiles, IndexTypeOK, FileRows
  <2>2. run.tree \in Trees BY DEF IndexTypeOK, Runs
  <2>3. [status |-> "published", tree |-> run.tree, files |-> BuildFiles] \in BuildRows
    BY <2>1, <2>2 DEF BuildRows
  <2>4. \A c \in BuildIds : [build[c] EXCEPT !.status = "retired"] \in BuildRows
    BY DEF IndexTypeOK, BuildRows
  <2>5. build' \in [BuildIds -> BuildRows] BY <1>11, <2>3, <2>4 DEF Publish, IndexTypeOK
  <2>6. run' \in Runs BY <1>11, NullRows DEF Publish
  <2> QED BY <1>11, <2>5, <2>6 DEF Publish, IndexTypeOK
<1>12. ASSUME Abandon PROVE IndexTypeOK'
  <2>1. run' \in Runs BY <1>12, NullRows DEF Abandon
  <2> QED BY <1>12, <2>1 DEF Abandon, IndexTypeOK
<1>13. ASSUME NEW retain \in 1 .. MaxBuilds, Collect(retain) PROVE IndexTypeOK'
  <2>1. \A b \in BuildIds :
          [build[b] EXCEPT !.status = "garbage_collected", !.files = NoFiles] \in BuildRows
    BY NullRows DEF IndexTypeOK, BuildRows
  <2>2. [NoVersion EXCEPT !.status = "gone"] \in VersionRows
    BY DEF NoVersion, VersionRows, States
  <2>3. build' \in [BuildIds -> BuildRows] BY <1>13, <2>1 DEF Collect, IndexTypeOK
  <2>4. version' \in [VersionIds -> VersionRows] BY <1>13, <2>2 DEF Collect, IndexTypeOK
  <2> QED BY <1>13, <2>3, <2>4 DEF Collect, IndexTypeOK
<1>15. ASSUME NEW b \in BuildIds, NEW f \in Files PROVE Shown(b)[f] \in States
  BY DEF Shown, IndexTypeOK, BuildRows, VersionRows, VersionIds, States
<1>16. ASSUME NEW f \in Asked, NEW b \in BuildIds, Bind(f, b) PROVE IndexTypeOK'
  <2>1. f \in Files /\ Shown(b)[f] \in States BY <1>15
  <2>2. b \in 0 .. MaxBuilds BY DEF BuildIds
  <2>3. reader' = [stage |-> "bound", build |-> b, file |-> f, expect |-> Shown(b)[f], got |-> Absent]
    BY <1>16 DEF Bind, NoReader
  <2>4. reader' \in Readers BY <2>1, <2>2, <2>3 DEF Readers, States
  <2> QED BY <1>16, <2>4 DEF Bind, IndexTypeOK
<1>17. ASSUME Check \/ Locate \/ Finish PROVE IndexTypeOK'
  <2>1. reader' \in Readers
    BY <1>17, NullRows DEF Check, Locate, Finish, IndexTypeOK, Readers
  <2> QED BY <1>17, <2>1 DEF Check, Locate, Finish, IndexTypeOK
<1>18. ASSUME Search \/ Fetch PROVE IndexTypeOK'
  <2>1. Shown(reader.build)[reader.file] \in States BY <1>15, <1>18 DEF Search, Fetch, ReaderBound
  <2>2. reader' \in Readers
    BY <1>18, <2>1 DEF Search, Fetch, IndexTypeOK, Readers
  <2> QED BY <1>18, <2>2 DEF Search, Fetch, IndexTypeOK
<1> QED
  BY <1>1, <1>2, <1>3, <1>4, <1>5, <1>6, <1>7, <1>8, <1>9, <1>10, <1>11, <1>12, <1>13, <1>16,
     <1>17, <1>18 DEF Next, Ingest, Read

-----------------------------------------------------------------------------
(* How a version may change.                                               *)

\* The text and the file of a version are fixed, and its status only grows.
Kept(v) ==
  /\ version'[v].of = version[v].of /\ version'[v].content = version[v].content
  /\ \/ version'[v].status = version[v].status
     \/ version[v].status = "pending" /\ version'[v].status = "ready"
     \/ version[v].status = "ready" /\ version'[v].status = "replaced"

\* A version is deleted when nothing that stays refers to it.
Deleted(v) ==
  /\ version[v].status \in {"replaced", "failed"} /\ version'[v].status = "gone"
  /\ v \notin Pointed
  /\ \A b \in BuildIds, f \in Files :
       build[b].status \in Held /\ build'[b].status \in Held => build[b].files[f] # v

Evolves(v) == version[v].status = "none" \/ Kept(v) \/ Deleted(v)

LEMMA VersionsEvolve ==
  ASSUME IndexTypeOK, Rows, [Next]_vars, NEW v \in VersionIds
  PROVE  Evolves(v)
<1>1. CASE UNCHANGED version BY <1>1 DEF Evolves, Kept
<1>2. ASSUME NEW f \in Files, NEW w \in VersionIds, NEW parses \in BOOLEAN, Write(f, w, parses)
      PROVE  Evolves(v)
  BY <1>2 DEF Write, IsNextVersion, Evolves, Kept, IndexTypeOK
<1>3. ASSUME NEW f \in Files, NEW w \in VersionIds, Block(f, w) PROVE Evolves(v)
  BY <1>3 DEF Block, IsNextVersion, Evolves, Kept, IndexTypeOK, VersionRows, Supersede
<1>4. CASE Link
  BY <1>4 DEF Link, Evolves, Kept, IndexTypeOK, VersionRows
<1>5. ASSUME NEW S \in SUBSET Files, Promote(S) PROVE Evolves(v)
  <2>1. ASSUME NEW f \in S, v = file[f].latest PROVE version[v].status = "pending"
    BY <1>5, <2>1 DEF Promote, LatestStatus, VersionIds
  <2>2. \/ version'[v] = version[v]
        \/ version'[v] = [version[v] EXCEPT !.status = "ready"] /\ version[v].status = "pending"
        \/ version'[v] = [version[v] EXCEPT !.status = Supersede(v)]
    BY <1>5, <2>1 DEF Promote
  <2> QED BY <2>2 DEF Evolves, Kept, IndexTypeOK, VersionRows, Supersede
<1>6. ASSUME NEW retain \in 1 .. MaxBuilds, Collect(retain) PROVE Evolves(v)
  <2> DEFINE old == Collectable(retain)
  <2>1. CASE version[v].status \in {"replaced", "failed"} /\ v \notin Referenced(old)
    <3>1. version'[v].status = "gone" BY <1>6, <2>1 DEF Collect, NoVersion
    <3>2. v \notin Pointed BY <2>1 DEF Referenced
    <3>3. ASSUME NEW b \in BuildIds, NEW f \in Files,
                 build[b].status \in Held, build'[b].status \in Held
          PROVE  build[b].files[f] # v
      <4>1. b \notin old BY <1>6, <3>3 DEF Collect, Held, IndexTypeOK, BuildRows
      <4> QED BY <2>1, <3>3, <4>1 DEF Referenced
    <3> QED BY <2>1, <3>1, <3>2, <3>3 DEF Evolves, Deleted
  <2>2. CASE ~(version[v].status \in {"replaced", "failed"} /\ v \notin Referenced(old))
    BY <1>6, <2>2 DEF Collect, Evolves, Kept
  <2> QED BY <2>1, <2>2
<1> QED
  BY <1>1, <1>2, <1>3, <1>4, <1>5, <1>6 DEF Next, Ingest, Read, vars, Edit, Resolve, Scan, Delete,
     FileError, Publish, Abandon, Bind, Check, Search, Locate, Fetch, Finish

-----------------------------------------------------------------------------
(* How a build may change.                                                 *)

Published(b) == build[b].status = "none" /\ Publish(b)
Retires(b) == build[b].status = "published" /\ build'[b] = [build[b] EXCEPT !.status = "retired"]
Collected(b) ==
  /\ build[b].status = "retired"
  /\ build'[b] = [build[b] EXCEPT !.status = "garbage_collected", !.files = NoFiles]
  /\ \E c \in BuildIds : b < c /\ build[c].status = "retired"

\* The builds the collector takes are retired and have a newer retired one.
LEMMA CollectableLeavesOne ==
  ASSUME NEW retain \in 1 .. MaxBuilds, NEW b \in Collectable(retain)
  PROVE  b \in Retired /\ \E c \in Retired : b < c
<1>1. b \in Retired /\ Cardinality({c \in Retired : c > b}) >= retain BY DEF Collectable
<1>2. CASE {c \in Retired : c > b} = {}
  <2>1. Cardinality({c \in Retired : c > b}) = 0 BY <1>2, FS_EmptySet
  <2>2. retain >= 1 /\ retain \in Nat OBVIOUS
  <2> QED BY <1>1, <2>1, <2>2
<1>3. CASE {c \in Retired : c > b} # {}
  BY <1>1, <1>3 DEF Retired, BuildIds
<1> QED BY <1>2, <1>3

LEMMA BuildsEvolve ==
  ASSUME IndexTypeOK, [Next]_vars, NEW b \in BuildIds
  PROVE  build'[b] = build[b] \/ Published(b) \/ Retires(b) \/ Collected(b)
<1>1. CASE UNCHANGED build BY <1>1
<1>2. ASSUME NEW c \in BuildIds, Publish(c)
      PROVE  build'[b] = build[b] \/ Published(b) \/ Retires(b)
  BY <1>2 DEF Publish, IsNextBuild, Published, Retires
<1>3. ASSUME NEW retain \in 1 .. MaxBuilds, Collect(retain)
      PROVE  build'[b] = build[b] \/ Collected(b)
  BY <1>3, CollectableLeavesOne DEF Collect, Retired, Collected
<1> QED
  BY <1>1, <1>2, <1>3 DEF Next, Ingest, Read, vars, Edit, Resolve, Scan, Delete, Write, Block,
     FileError, Link, Promote, Abandon, Bind, Check, Search, Locate, Fetch, Finish

\* A publication's rows, and what it does to the other builds.
LEMMA PublishedRows ==
  ASSUME IndexTypeOK, NEW b \in BuildIds, Published(b)
  PROVE  /\ build'[b] = [status |-> "published", tree |-> run.tree, files |-> BuildFiles]
         /\ UNCHANGED <<disk, edits, file, version, reader>>
         /\ \A f \in Files : Shown(b)'[f] = IF BuildFiles[f] = 0 THEN Absent
                                             ELSE version[BuildFiles[f]].content
<1>1. build'[b] = [status |-> "published", tree |-> run.tree, files |-> BuildFiles]
  BY DEF Published, Publish
<1>2. UNCHANGED <<disk, edits, file, version, reader>> BY DEF Published, Publish
<1> QED BY <1>1, <1>2 DEF Shown

\* A build's status only moves forward.
LEMMA StatusEvolves ==
  ASSUME IndexTypeOK, [Next]_vars, NEW b \in BuildIds
  PROVE  \/ build'[b].status = build[b].status
         \/ build[b].status = "none" /\ build'[b].status = "published" /\ Published(b)
         \/ build[b].status = "published" /\ build'[b].status = "retired" /\ Retires(b)
         \/ build[b].status = "retired" /\ build'[b].status = "garbage_collected" /\ Collected(b)
<1>1. CASE build'[b] = build[b] BY <1>1
<1>2. CASE Published(b) BY <1>2, PublishedRows DEF Published
<1>3. CASE Retires(b)
  <2>1. build'[b].status = "retired" BY <1>3 DEF Retires, IndexTypeOK, BuildRows
  <2> QED BY <1>3, <2>1 DEF Retires
<1>4. CASE Collected(b)
  <2>1. build'[b].status = "garbage_collected" BY <1>4 DEF Collected, IndexTypeOK, BuildRows
  <2> QED BY <1>4, <2>1 DEF Collected
<1> QED BY <1>1, <1>2, <1>3, <1>4, BuildsEvolve

\* What a build shows is fixed for as long as its rows are kept.
LEMMA HeldFixed ==
  ASSUME IndexTypeOK, Rows, BuildsAreWhole, [Next]_vars,
         NEW b \in BuildIds, build[b].status \in Held, build'[b].status \in Held
  PROVE  /\ build'[b].files = build[b].files
         /\ \A f \in Files : build[b].files[f] # 0 => Kept(build[b].files[f])
         /\ Shown(b)' = Shown(b)
<1>1. build'[b].files = build[b].files
  <2>1. ~Published(b) /\ ~Collected(b)
    BY DEF Published, Collected, Held, IndexTypeOK, BuildRows
  <2>2. build'[b] = build[b] \/ Retires(b) BY <2>1, BuildsEvolve
  <2> QED BY <2>2 DEF Retires, IndexTypeOK, BuildRows
<1>2. ASSUME NEW f \in Files, build[b].files[f] # 0 PROVE Kept(build[b].files[f])
  <2> DEFINE v == build[b].files[f]
  <2>1. v \in VersionIds BY <1>2 DEF IndexTypeOK, BuildRows, VersionIds
  <2>2. version[v].status \in {"ready", "replaced"} BY <1>2 DEF BuildsAreWhole
  <2>3. Evolves(v) BY <2>1, VersionsEvolve
  <2>4. ~Deleted(v) BY DEF Deleted
  <2> QED BY <2>2, <2>3, <2>4 DEF Evolves
<1>3. ASSUME NEW f \in Files PROVE Shown(b)'[f] = Shown(b)[f]
  BY <1>1, <1>2 DEF Shown, Kept
<1> QED BY <1>1, <1>2, <1>3 DEF Shown

LEMMA WholeStep ==
  IndexTypeOK /\ Rows /\ BuildsAreWhole /\ BuildOrder /\ [Next]_vars => BuildsAreWhole'
<1> SUFFICES ASSUME IndexTypeOK, Rows, BuildsAreWhole, BuildOrder, [Next]_vars,
                    NEW b \in BuildIds, NEW f \in Files,
                    build'[b].status \in Held, build'[b].files[f] # 0
             PROVE  /\ version'[build'[b].files[f]].status \in {"ready", "replaced"}
                    /\ version'[build'[b].files[f]].of = f
                    /\ build'[b].tree # Unverified => f \notin Blocked
  BY DEF BuildsAreWhole
<1>1. CASE build[b].status \in Held
  <2>1. build'[b].files = build[b].files /\ Kept(build[b].files[f]) BY <1>1, HeldFixed
  <2>2. ~Published(b) /\ ~Collected(b)
    BY <1>1 DEF Published, Collected, Held, IndexTypeOK, BuildRows
  <2>3. build'[b].tree = build[b].tree
    BY <2>2, BuildsEvolve DEF Retires, IndexTypeOK, BuildRows
  <2> QED BY <1>1, <2>1, <2>3 DEF BuildsAreWhole, Kept
<1>2. CASE Published(b)
  <2>1. build'[b].files = BuildFiles /\ version' = version BY <1>2, PublishedRows
  <2>2. file[f].status = "indexed" /\ build'[b].files[f] = file[f].active
    BY <2>1 DEF BuildFiles
  <2>3. version[file[f].active].status = "ready" /\ version[file[f].active].of = f
    BY <2>2 DEF Rows
  <2> QED BY <2>1, <2>2, <2>3 DEF Rows
<1>3. CASE build[b].status \notin Held /\ ~Published(b)
  <2>1. ~Retires(b) /\ ~Collected(b) BY <1>3 DEF Retires, Collected, Held
  <2>2. build'[b] = build[b] BY <1>3, <2>1, BuildsEvolve
  <2> QED BY <1>3, <2>2
<1> QED BY <1>1, <1>2, <1>3

LEMMA OrderStep == IndexTypeOK /\ BuildOrder /\ [Next]_vars => BuildOrder'
<1> SUFFICES ASSUME IndexTypeOK, BuildOrder, [Next]_vars PROVE BuildOrder' OBVIOUS
<1>1. \A b \in BuildIds : build'[b].status = "none" => build[b].status = "none"
  BY StatusEvolves
<1>2. ASSUME NEW b \in BuildIds, NEW c \in BuildIds, b < c, build'[b].status = "none"
      PROVE  build'[c].status = "none"
  <2>1. build[b].status = "none" /\ build[c].status = "none" BY <1>1, <1>2 DEF BuildOrder
  <2>2. ~Published(c) BY <1>2, <2>1 DEF Published, Publish, IsNextBuild
  <2> QED BY <2>1, <2>2, BuildsEvolve DEF Retires, Collected
<1>3. ASSUME NEW b \in BuildIds, build'[b].status \in {"retired", "garbage_collected"}
      PROVE  \E c \in BuildIds : b < c /\ build'[c].status = "published"
  <2>1. CASE Retires(b)
    <3>1. PICK c \in BuildIds : Published(c)
      <4>1. CASE \E c \in BuildIds : Publish(c) BY <4>1 DEF Publish, IsNextBuild, Published
      <4>2. ASSUME NEW retain \in 1 .. MaxBuilds, Collect(retain) PROVE FALSE
        <5>1. b \notin Collectable(retain) BY <2>1 DEF Collectable, Retired, Retires
        <5>2. build'[b] = build[b] BY <4>2, <5>1 DEF Collect
        <5> QED BY <2>1, <5>2 DEF Retires, IndexTypeOK, BuildRows
      <4>3. CASE UNCHANGED build BY <2>1, <4>3 DEF Retires, IndexTypeOK, BuildRows
      <4> QED
        BY <4>1, <4>2, <4>3 DEF Next, Ingest, Read, vars, Edit, Resolve, Scan, Delete, Write,
           Block, FileError, Link, Promote, Abandon, Bind, Check, Search, Locate, Fetch, Finish
    <3>2. b < c
      BY <2>1, <3>1 DEF Published, Publish, IsNextBuild, Retires, BuildOrder, BuildIds
    <3> QED BY <3>1, <3>2, PublishedRows
  <2>2. CASE ~Retires(b)
    <3>1. build[b].status \in {"retired", "garbage_collected"}
      BY <2>2, <1>3, StatusEvolves
    <3>2. PICK c \in BuildIds : b < c /\ build[c].status = "published" BY <3>1 DEF BuildOrder
    <3>3. CASE \E d \in BuildIds : Publish(d)
      <4>1. PICK d \in BuildIds : Publish(d) BY <3>3
      <4>2. build[d].status = "none" /\ Published(d)
        BY <4>1 DEF Publish, IsNextBuild, Published
      <4>3. b < d BY <3>1, <4>2 DEF BuildOrder, BuildIds
      <4> QED BY <4>2, <4>3, PublishedRows
    <3>4. CASE ~\E d \in BuildIds : Publish(d)
      <4>1. build'[c] = build[c] \/ Retires(c)
        BY <3>2, <3>4, BuildsEvolve DEF Published, Collected
      <4>2. ~Retires(c)
        <5>1. ASSUME NEW retain \in 1 .. MaxBuilds, Collect(retain) PROVE build'[c] = build[c]
          <6>1. c \notin Collectable(retain) BY <3>2 DEF Collectable, Retired
          <6> QED BY <5>1, <6>1 DEF Collect
        <5>2. build'[c] = build[c] => ~Retires(c) BY <3>2 DEF Retires, IndexTypeOK, BuildRows
        <5>3. CASE UNCHANGED build BY <5>2, <5>3
        <5> QED
          BY <5>1, <5>2, <5>3, <3>4 DEF Next, Ingest, Read, vars, Edit, Resolve, Scan, Delete, Write,
             Block, FileError, Link, Promote, Abandon, Bind, Check, Search, Locate, Fetch, Finish
      <4> QED BY <3>2, <4>1, <4>2
    <3> QED BY <3>3, <3>4
  <2> QED BY <2>1, <2>2
<1>4. ASSUME NEW b \in BuildIds, build'[b].status \notin Held PROVE build'[b].files = NoFiles
  <2>1. CASE Published(b) BY <2>1, <1>4, PublishedRows DEF Held
  <2>2. CASE Collected(b) BY <2>2 DEF Collected, IndexTypeOK, BuildRows
  <2>3. CASE Retires(b) BY <2>3, <1>4 DEF Retires, Held, IndexTypeOK, BuildRows
  <2>4. CASE build'[b] = build[b] BY <2>4, <1>4 DEF BuildOrder
  <2> QED BY <2>1, <2>2, <2>3, <2>4, BuildsEvolve
<1> QED BY <1>2, <1>3, <1>4 DEF BuildOrder

-----------------------------------------------------------------------------
(* The reader.                                                             *)

LEMMA ReaderStep ==
  /\ IndexTypeOK /\ Rows /\ BuildsAreWhole /\ BuildOrder /\ ReaderBound
  /\ [Next]_vars
  => ReaderBound'
<1> SUFFICES ASSUME IndexTypeOK, Rows, BuildsAreWhole, BuildOrder, ReaderBound, [Next]_vars
             PROVE  ReaderBound'
  OBVIOUS
<1>1. CASE UNCHANGED reader
  <2> SUFFICES ASSUME reader.stage # "idle" PROVE ReaderBound' BY <1>1 DEF ReaderBound
  <2>0. PICK b \in BuildIds : b = reader.build BY DEF ReaderBound
  <2>1. b \in BuildIds /\ reader.file \in Files /\ build[b].status # "none"
    BY <2>0 DEF ReaderBound
  <2>2. build'[b].status # "none" /\ (build'[b].status \in Held => build[b].status \in Held)
    BY <2>1, StatusEvolves DEF Held
  <2>3. build'[b].status \in Held => Shown(b)'[reader.file] = reader.expect
    <3> SUFFICES ASSUME build'[b].status \in Held PROVE Shown(b)'[reader.file] = reader.expect
      OBVIOUS
    <3>1. build[b].status \in Held BY <2>2
    <3>2. Shown(b)' = Shown(b) BY <2>1, <3>1, HeldFixed
    <3>3. Shown(b)[reader.file] = reader.expect BY <2>0, <3>1 DEF ReaderBound
    <3> QED BY <3>2, <3>3
  <2>4. build[b].status = "garbage_collected" => build'[b].status = "garbage_collected"
    BY <2>1, StatusEvolves
  <2>5. ASSUME build'[b].status = "garbage_collected"
        PROVE  \E c, d \in BuildIds : b < c /\ c < d /\ build[d].status # "none"
    <3>1. CASE build[b].status = "garbage_collected" BY <2>0, <3>1 DEF ReaderBound
    <3>2. CASE Collected(b)
      <4>1. PICK c \in BuildIds : b < c /\ build[c].status = "retired" BY <3>2 DEF Collected
      <4>2. PICK d \in BuildIds : c < d /\ build[d].status = "published"
        BY <4>1 DEF BuildOrder
      <4> QED BY <4>1, <4>2
    <3> QED BY <2>1, <2>5, <3>1, <3>2, StatusEvolves
  <2>6. \A d \in BuildIds : build[d].status # "none" => build'[d].status # "none"
    BY StatusEvolves
  <2>7. build'[b].status = "garbage_collected" =>
          \E c, d \in BuildIds : b < c /\ c < d /\ build'[d].status # "none"
    BY <2>5, <2>6
  <2>8. reader.stage = "answered" /\ reader.got # reader.expect =>
          build'[b].status = "garbage_collected"
    BY <2>0, <2>4 DEF ReaderBound
  <2> QED BY <1>1, <2>0, <2>1, <2>2, <2>3, <2>7, <2>8 DEF ReaderBound
<1>2. ASSUME NEW f \in Asked, NEW b \in BuildIds, Bind(f, b) PROVE ReaderBound'
  <2>1. reader' = [stage |-> "bound", build |-> b, file |-> f, expect |-> Shown(b)[f], got |-> Absent]
    BY <1>2 DEF Bind, NoReader
  <2>2. UNCHANGED <<build, version>> /\ build[b].status = "published" /\ f \in Files
    BY <1>2 DEF Bind
  <2>3. Shown(b)' = Shown(b) BY <2>2 DEF Shown
  <2> QED BY <2>1, <2>2, <2>3 DEF ReaderBound
<1>3. CASE Check \/ Locate \/ Finish
  <2>1. UNCHANGED <<build, version>> BY <1>3 DEF Check, Locate, Finish
  <2>2. \/ reader' = NoReader
        \/ reader.stage # "idle" /\ \E s \in {"covered", "located"} :
             reader' = [reader EXCEPT !.stage = s]
    BY <1>3 DEF Check, Locate, Finish
  <2>3. \A b \in BuildIds : Shown(b)' = Shown(b) BY <2>1 DEF Shown
  <2> QED BY <2>1, <2>2, <2>3 DEF ReaderBound, NoReader, IndexTypeOK, Readers
<1>4. CASE Search \/ Fetch
  <2>1. UNCHANGED <<build, version>> BY <1>4 DEF Search, Fetch
  <2>2. /\ reader.stage # "idle"
        /\ reader' = [reader EXCEPT !.stage = "answered",
                                    !.got = Shown(reader.build)[reader.file]]
    BY <1>4 DEF Search, Fetch
  <2>3. \A b \in BuildIds : Shown(b)' = Shown(b) BY <2>1 DEF Shown
  <2>4. build[reader.build].status \in Held \cup {"garbage_collected"}
    BY <2>2 DEF ReaderBound, Held, IndexTypeOK, BuildRows
  <2> QED BY <2>1, <2>2, <2>3, <2>4 DEF ReaderBound, IndexTypeOK, Readers
<1> QED
  BY <1>1, <1>2, <1>3, <1>4 DEF Next, Ingest, Read, vars, Edit, Resolve, Scan, Delete, Write,
     Block, FileError, Link, Promote, Publish, Abandon, Collect

-----------------------------------------------------------------------------
(* The rows.                                                               *)

LEMMA VersionFilesStep ==
  ASSUME IndexTypeOK, Rows, [Next]_vars,
         NEW v \in VersionIds, version'[v].status \notin {"none", "gone"}
  PROVE  version'[v].of \in Files
<1>1. CASE version[v].status # "none"
  <2>1. Kept(v) BY <1>1, VersionsEvolve DEF Evolves, Deleted
  <2> QED BY <1>1, <2>1 DEF Kept, Rows
<1>2. CASE version[v].status = "none"
  <2>1. CASE UNCHANGED version BY <1>2, <2>1
  <2>2. ASSUME NEW f \in Files, NEW w \in VersionIds, NEW parses \in BOOLEAN, Write(f, w, parses)
        PROVE  version'[v].of \in Files
    BY <1>2, <2>2 DEF Write, IndexTypeOK
  <2>3. ASSUME NEW f \in Files, NEW w \in VersionIds, Block(f, w) PROVE version'[v].of \in Files
    BY <1>2, <2>3 DEF Block, Rows, VersionIds
  <2>4. CASE Link BY <1>2, <2>4 DEF Link, Calls, Parsed
  <2>5. ASSUME NEW S \in SUBSET Files, Promote(S) PROVE version'[v].of \in Files
    BY <1>2, <2>5 DEF Promote, LatestStatus, Rows, VersionIds
  <2>6. ASSUME NEW retain \in 1 .. MaxBuilds, Collect(retain) PROVE version'[v].of \in Files
    BY <1>2, <2>6 DEF Collect
  <2> QED
    BY <2>1, <2>2, <2>3, <2>4, <2>5, <2>6 DEF Next, Ingest, Read, vars, Edit, Resolve, Scan,
       Delete, FileError, Publish, Abandon, Bind, Check, Search, Locate, Fetch, Finish
<1> QED BY <1>1, <1>2

LEMMA RowsStep == IndexTypeOK /\ Rows /\ [Next]_vars => Rows'
<1> SUFFICES ASSUME IndexTypeOK, Rows, [Next]_vars PROVE Rows' OBVIOUS
<1> DEFINE Row(f) ==
             /\ file[f].status # IF f \in Blocked THEN "indexed" ELSE "blocked"
             /\ file[f].status = "none" => file[f] = NoFileRow
             /\ file[f].active # 0 =>
                  version[file[f].active].status = "ready" /\ version[file[f].active].of = f
             /\ file[f].latest # 0 =>
                  /\ version[file[f].latest].status \in {"pending", "ready", "failed"}
                  /\ version[file[f].latest].of = f
                  /\ version[file[f].latest].content = file[f].hash
                  /\ version[file[f].latest].status = "ready" => file[f].active = file[f].latest
<1>1. \A f \in Files : Row(f) BY DEF Rows
<1>2. \A f \in Files : file[f].active \in VersionIds \cup {0} /\ file[f].latest \in VersionIds \cup {0}
  BY DEF IndexTypeOK, FileRows, VersionIds
<1>3. ASSUME UNCHANGED <<file, version>>, NEW f \in Files PROVE Row(f)' BY <1>1, <1>3
<1>4. ASSUME NEW g \in Files, Delete(g), NEW f \in Files PROVE Row(f)'
  BY <1>1, <1>4 DEF Delete, IndexTypeOK, FileRows
<1>5. ASSUME NEW g \in Files, NEW v \in VersionIds, NEW parses \in BOOLEAN,
             Write(g, v, parses), NEW f \in Files
      PROVE  Row(f)'
  <2>1. version[v].status = "none" /\ g \notin Blocked BY <1>5 DEF Write, IsNextVersion
  <2>2. \A w \in VersionIds \ {v} : version'[w] = version[w]
    BY <1>5 DEF Write, IndexTypeOK
  <2>3. file[f].active # v /\ (file[f].latest # v) BY <1>1, <2>1, <1>5 DEF VersionIds
  <2>4. CASE f # g
    <3>1. file'[f] = file[f] BY <1>5, <2>4 DEF Write, IndexTypeOK
    <3> QED BY <1>1, <1>2, <2>2, <2>3, <3>1
  <2>5. CASE f = g
    <3>1. file'[g] = [file[g] EXCEPT !.status = "indexed", !.hash = disk[g], !.latest = v]
      BY <1>5 DEF Write, IndexTypeOK
    <3>2. /\ file'[g].status = "indexed" /\ file'[g].hash = disk[g]
          /\ file'[g].latest = v /\ file'[g].active = file[g].active
      BY <3>1 DEF IndexTypeOK, FileRows
    <3>3. version'[v] = [status |-> IF parses THEN "pending" ELSE "failed",
                         of |-> g, content |-> disk[g], target |-> NoFile]
      BY <1>5 DEF Write, IndexTypeOK
    <3> QED BY <1>1, <1>2, <2>1, <2>2, <2>3, <2>5, <3>2, <3>3
  <2> QED BY <2>4, <2>5
<1>6. ASSUME NEW g \in Files, NEW v \in VersionIds, Block(g, v), NEW f \in Files PROVE Row(f)'
  <2>1. version[v].status = "none" /\ g \in Blocked BY <1>6 DEF Block, Writing, IsNextVersion
  <2>2. \A w \in VersionIds \ {v, file[g].active} : version'[w] = version[w] BY <1>6 DEF Block
  <2>3. file[f].active # v /\ file[f].latest # v BY <1>1, <2>1, <1>6 DEF VersionIds
  <2>4. CASE f # g
    <3>1. file'[f] = file[f] BY <1>6, <2>4 DEF Block, IndexTypeOK
    <3>2. /\ file[f].active # 0 => file[f].active # file[g].active
          /\ file[f].latest # 0 => file[f].latest # file[g].active
      BY <1>1, <2>4
    <3> QED BY <1>1, <1>2, <2>2, <2>3, <3>1, <3>2
  <2>5. CASE f = g
    <3>1. file'[g] = [status |-> "blocked", hash |-> disk[g], latest |-> v, active |-> v]
      BY <1>6 DEF Block, IndexTypeOK
    <3>2. version'[v] = [status |-> "ready", of |-> g, content |-> disk[g], target |-> NoFile]
      BY <1>6, <2>3, <2>5 DEF Block
    <3> QED BY <2>1, <2>5, <3>1, <3>2
  <2> QED BY <2>4, <2>5
<1>7. ASSUME Link, NEW f \in Files PROVE Row(f)'
  <2>1. \A v \in VersionIds : /\ version'[v].status = version[v].status
                              /\ version'[v].of = version[v].of
                              /\ version'[v].content = version[v].content
    BY <1>7 DEF Link, IndexTypeOK, VersionRows
  <2>2. file' = file BY <1>7 DEF Link
  <2> QED BY <1>1, <1>2, <2>1, <2>2
<1>8. ASSUME NEW S \in SUBSET Files, Promote(S), NEW f \in Files PROVE Row(f)'
  <2>1. \A g \in S : version[file[g].latest].status = "pending" /\ file[g].latest \in VersionIds
    BY <1>2, <1>8 DEF Promote, LatestStatus
  <2>2. \A v \in VersionIds :
          (\A g \in S : v # file[g].latest /\ v # file[g].active) => version'[v] = version[v]
    BY <1>8 DEF Promote
  <2>3. CASE f \in S
    <3>1. file'[f] = [file[f] EXCEPT !.active = file[f].latest]
      BY <1>8, <2>3 DEF Promote, IndexTypeOK
    <3>2. /\ file'[f].status = file[f].status /\ file'[f].hash = file[f].hash
          /\ file'[f].latest = file[f].latest /\ file'[f].active = file[f].latest
      BY <3>1 DEF IndexTypeOK, FileRows
    <3>3. version'[file[f].latest] = [version[file[f].latest] EXCEPT !.status = "ready"]
      <4>1. PICK v \in VersionIds : v = file[f].latest BY <2>1, <2>3
      <4>2. \A g \in S : v # file[g].active
        BY <1>1, <2>1, <2>3, <4>1 DEF VersionIds
      <4>3. version'[v] = [version[v] EXCEPT !.status = "ready"]
        BY <1>8, <2>3, <4>1, <4>2 DEF Promote
      <4> QED BY <4>1, <4>3
    <3>4. /\ version'[file[f].latest].status = "ready"
          /\ version'[file[f].latest].of = version[file[f].latest].of
          /\ version'[file[f].latest].content = version[file[f].latest].content
      BY <2>1, <2>3, <3>3 DEF IndexTypeOK, VersionRows
    <3>5. file[f].status # "none"
      <4>1. file[f].latest # 0 BY <2>1, <2>3 DEF VersionIds
      <4> QED BY <1>1, <4>1 DEF NoFileRow
    <3> QED BY <1>1, <2>1, <2>3, <3>2, <3>4, <3>5 DEF VersionIds
  <2>4. CASE f \notin S
    <3>1. file'[f] = file[f] BY <1>8, <2>4 DEF Promote
    <3>2. ASSUME NEW v \in {file[f].active, file[f].latest}, v # 0, NEW g \in S
          PROVE  v # file[g].latest /\ v # file[g].active
      BY <1>1, <2>1, <2>4, <3>2 DEF VersionIds
    <3>3. \A v \in {file[f].active, file[f].latest} : v # 0 => version'[v] = version[v]
      BY <1>2, <2>2, <3>2
    <3> QED BY <1>1, <3>1, <3>3
  <2> QED BY <2>3, <2>4
<1>9. ASSUME NEW retain \in 1 .. MaxBuilds, Collect(retain), NEW f \in Files PROVE Row(f)'
  <2>1. file' = file BY <1>9 DEF Collect
  <2>2. \A v \in VersionIds : v \in Pointed => version'[v] = version[v]
    <3> SUFFICES ASSUME NEW v \in VersionIds, v \in Pointed PROVE version'[v] = version[v]
      OBVIOUS
    <3>1. v \in Referenced(Collectable(retain)) BY DEF Referenced
    <3> QED BY <1>9, <3>1 DEF Collect, NoVersion
  <2>3. file[f].active \in Pointed /\ file[f].latest \in Pointed BY DEF Pointed
  <2> QED BY <1>1, <1>2, <2>1, <2>2, <2>3
<1>10. \A f \in Files : Row(f)'
  <2> HIDE DEF Row
  <2> QED
    BY <1>3, <1>4, <1>5, <1>6, <1>7, <1>8, <1>9 DEF Next, Ingest, Read, vars, Edit, Resolve, Scan,
       FileError, Publish, Abandon, Bind, Check, Search, Locate, Fetch, Finish
<1> QED BY <1>10, VersionFilesStep DEF Rows

-----------------------------------------------------------------------------
(* The run.                                                                *)

LEMMA PlanStep == IndexTypeOK /\ RunPlan /\ [Next]_vars => RunPlan'
<1> SUFFICES ASSUME IndexTypeOK, RunPlan, [Next]_vars PROVE RunPlan' OBVIOUS
<1>1. CASE UNCHANGED run BY <1>1 DEF RunPlan, Scanned
<1>2. CASE run' = Idle BY <1>2 DEF RunPlan, Scanned, Idle
<1>3. ASSUME NEW full \in BOOLEAN, NEW scope \in {Files} \cup {{f} : f \in Files},
             Resolve(full, scope)
      PROVE  RunPlan'
  BY <1>3 DEF Resolve, Idle, RunPlan, Scanned
<1>4. ASSUME NEW force \in BOOLEAN, NEW budget \in SUBSET Files, Scan(force, budget)
      PROVE  RunPlan'
  BY <1>4 DEF Scan, Vanished, Candidates, RunPlan, Scanned, IndexTypeOK, Runs
<1>5. ASSUME NEW f \in Files, Delete(f) PROVE RunPlan'
  BY <1>5 DEF Delete, RunPlan, Scanned, IndexTypeOK, Runs
<1>6. ASSUME NEW f \in Files, FileError(f) PROVE RunPlan'
  BY <1>6 DEF FileError, Writing, RunPlan, Scanned, IndexTypeOK, Runs
<1>7. ASSUME NEW f \in Files, NEW v \in VersionIds, NEW parses \in BOOLEAN, Write(f, v, parses)
      PROVE  RunPlan'
  BY <1>7 DEF Write, Writing, RunPlan, Scanned, IndexTypeOK, Runs
<1>8. ASSUME NEW f \in Files, NEW v \in VersionIds, Block(f, v) PROVE RunPlan'
  BY <1>8 DEF Block, Writing, RunPlan, Scanned, IndexTypeOK, Runs
<1>9. CASE Link BY <1>9 DEF Link, RunPlan, Scanned, IndexTypeOK, Runs
<1>10. ASSUME NEW S \in SUBSET Files, Promote(S) PROVE RunPlan'
  BY <1>10 DEF Promote, RunPlan, Scanned, IndexTypeOK, Runs
<1> QED
  BY <1>1, <1>2, <1>3, <1>4, <1>5, <1>6, <1>7, <1>8, <1>9, <1>10 DEF Next, Ingest, Read, vars,
     Edit, Publish, Abandon, Collect, Bind, Check, Search, Locate, Fetch, Finish

\* What a file's row records of its latest version, when it has one.
LEMMA LatestHas ==
  ASSUME IndexTypeOK, Rows, NEW f \in Files, LatestStatus(f) # "none"
  PROVE  /\ file[f].latest \in VersionIds
         /\ LatestStatus(f) = version[file[f].latest].status
         /\ version[file[f].latest].of = f
         /\ version[file[f].latest].content = file[f].hash
BY DEF LatestStatus, Rows, IndexTypeOK, FileRows, VersionIds

LEMMA ProgressStep ==
  IndexTypeOK /\ Rows /\ RunPlan /\ RunProgress /\ [Next]_vars => RunProgress'
<1> SUFFICES ASSUME IndexTypeOK, Rows, RunPlan, RunProgress, [Next]_vars,
                    Scanned', run'.full, ~run'.errors, NEW f \in Files \ Blocked
             PROVE  IF run'.scanned[f] = Absent
                    THEN f \in run'.drop \/ file'[f].status \in {"none", "deleted"}
                    ELSE f \in run'.todo \/ Written(f)'
  BY DEF RunProgress
<1> DEFINE Goal == IF run'.scanned[f] = Absent
                   THEN f \in run'.drop \/ file'[f].status \in {"none", "deleted"}
                   ELSE f \in run'.todo \/ Written(f)'
<1>0. Scanned /\ run.full /\ ~run.errors =>
        IF run.scanned[f] = Absent
        THEN f \in run.drop \/ file[f].status \in {"none", "deleted"}
        ELSE f \in run.todo \/ Written(f)
  BY DEF RunProgress
<1>1. ASSUME UNCHANGED <<run, file, version>> PROVE Goal
  BY <1>0, <1>1 DEF Scanned, Written, LatestStatus
<1>2. ASSUME run' = Idle PROVE FALSE BY <1>2 DEF Scanned, Idle
<1>3. ASSUME NEW full \in BOOLEAN, NEW scope \in {Files} \cup {{g} : g \in Files},
             Resolve(full, scope)
      PROVE  FALSE
  BY <1>3 DEF Resolve, Idle, Scanned
<1>4. ASSUME NEW force \in BOOLEAN, NEW budget \in SUBSET Files, Scan(force, budget) PROVE Goal
  <2> DEFINE stale == {g \in Candidates : force \/ ~Current(g)}
             recover == {g \in stale : ~force /\ Recoverable(g)}
  <2>1. /\ run'.scanned = disk /\ run'.full = run.full
        /\ run'.drop = Vanished \cap budget
        /\ run'.todo = (stale \ recover) \cap budget
        /\ run'.done = recover \cap budget
        /\ Vanished \cup stale \subseteq budget
        /\ run'.stage = "writing"
        /\ UNCHANGED <<file, version>>
    BY <1>4 DEF Scan, IndexTypeOK, Runs
  <2>2. run.scope = Files BY <2>1 DEF RunPlan
  <2>3. CASE disk[f] = Absent
    <3>1. file[f].status \in {"none", "deleted"} \/ f \in Vanished
      BY <2>1, <2>3 DEF Vanished
    <3> QED BY <2>1, <2>3, <3>1
  <2>4. CASE disk[f] # Absent /\ f \notin stale
    <3>1. Current(f) BY <2>2, <2>4 DEF Candidates
    <3>2. /\ file[f].status = "indexed" /\ file[f].hash = disk[f] /\ LatestStatus(f) = "ready"
      BY <3>1 DEF Current
    <3>3. LatestStatus(f)' = LatestStatus(f) BY <2>1 DEF LatestStatus
    <3>4. Written(f)' BY <2>1, <3>2, <3>3 DEF Written
    <3> QED BY <2>1, <2>4, <3>4
  <2>5. CASE disk[f] # Absent /\ f \in stale /\ f \in recover
    <3>1. /\ file[f].status = "indexed" /\ file[f].hash = disk[f] /\ LatestStatus(f) = "pending"
      BY <2>5 DEF Recoverable
    <3>2. LatestStatus(f)' = LatestStatus(f) BY <2>1 DEF LatestStatus
    <3>3. f \in run'.done BY <2>1, <2>5
    <3>4. Written(f)' BY <2>1, <3>1, <3>2, <3>3 DEF Written
    <3> QED BY <2>1, <2>5, <3>4
  <2>6. CASE disk[f] # Absent /\ f \in stale /\ f \notin recover
    BY <2>1, <2>6
  <2> QED BY <2>3, <2>4, <2>5, <2>6
<1>5. ASSUME NEW g \in Files, Delete(g) PROVE Goal
  <2>1. /\ run'.scanned = run.scanned /\ run'.full = run.full /\ run'.errors = run.errors
        /\ run'.stage = run.stage /\ run'.todo = run.todo /\ run'.done = run.done
        /\ run'.drop = run.drop \ {g} /\ version' = version /\ Scanned
    BY <1>5 DEF Delete, IndexTypeOK, Runs, Scanned
  <2>2. file'[f] = IF f = g THEN [file[f] EXCEPT !.status = "deleted"] ELSE file[f]
    BY <1>5 DEF Delete, IndexTypeOK
  <2>3. CASE f = g
    <3>1. run.scanned[f] = Absent BY <1>5, <2>1, <2>3 DEF Delete, RunPlan
    <3>2. file'[f].status = "deleted" BY <2>2, <2>3 DEF IndexTypeOK, FileRows
    <3> QED BY <2>1, <3>1, <3>2
  <2>4. CASE f # g
    <3>1. file'[f] = file[f] BY <2>2, <2>4
    <3>2. Written(f) => Written(f)' BY <2>1, <3>1 DEF Written, LatestStatus
    <3> QED BY <1>0, <2>1, <2>4, <3>1, <3>2
  <2> QED BY <2>3, <2>4
<1>6. ASSUME NEW g \in Files, FileError(g) PROVE FALSE
  BY <1>6 DEF FileError, IndexTypeOK, Runs
<1>7. ASSUME NEW g \in Files, NEW v \in VersionIds, NEW parses \in BOOLEAN, Write(g, v, parses)
      PROVE  Goal
  <2>1. /\ run'.scanned = run.scanned /\ run'.full = run.full /\ ~run.errors /\ parses
        /\ run'.stage = run.stage /\ run'.todo = run.todo \ {g} /\ run'.done = run.done \cup {g}
        /\ run'.drop = run.drop /\ Scanned /\ run.stage = "writing"
    BY <1>7 DEF Write, Writing, IndexTypeOK, Runs, Scanned
  <2>2. version[v].status = "none" BY <1>7 DEF Write, IsNextVersion
  <2>3. \A w \in VersionIds \ {v} : version'[w] = version[w] BY <1>7 DEF Write, IndexTypeOK
  <2>4. CASE f = g
    <3>1. run.scanned[f] # Absent /\ disk[f] = run.scanned[f]
      BY <1>7, <2>1, <2>4 DEF Write, Writing, RunPlan
    <3>2. file'[g] = [file[g] EXCEPT !.status = "indexed", !.hash = disk[g], !.latest = v]
      BY <1>7 DEF Write, IndexTypeOK
    <3>3. /\ file'[g].status = "indexed" /\ file'[g].hash = disk[g] /\ file'[g].latest = v
      BY <3>2 DEF IndexTypeOK, FileRows
    <3>4. version'[v] = [status |-> "pending", of |-> g, content |-> disk[g], target |-> NoFile]
      BY <1>7, <2>1 DEF Write, IndexTypeOK
    <3>5. LatestStatus(f)' = "pending" BY <2>4, <3>3, <3>4 DEF LatestStatus, VersionIds
    <3>6. Written(f)' BY <2>1, <2>4, <3>1, <3>3, <3>5 DEF Written
    <3> QED BY <2>1, <3>1, <3>6
  <2>5. CASE f # g
    <3>1. file'[f] = file[f] BY <1>7, <2>5 DEF Write, IndexTypeOK
    <3>2. LatestStatus(f) # "none" => LatestStatus(f)' = LatestStatus(f)
      BY <2>2, <2>3, <3>1, LatestHas DEF LatestStatus
    <3>3. Written(f) => Written(f)' BY <2>1, <3>1, <3>2 DEF Written
    <3> QED BY <1>0, <2>1, <2>5, <3>1, <3>3
  <2> QED BY <2>4, <2>5
<1>8. ASSUME NEW g \in Files, NEW v \in VersionIds, Block(g, v) PROVE Goal
  <2>1. /\ run'.scanned = run.scanned /\ run'.full = run.full /\ run'.errors = run.errors
        /\ run'.stage = run.stage /\ run'.todo = run.todo \ {g} /\ run'.done = run.done
        /\ run'.drop = run.drop /\ Scanned
    BY <1>8 DEF Block, Writing, IndexTypeOK, Runs, Scanned
  <2>2. version[v].status = "none" /\ f # g BY <1>8 DEF Block, Writing, IsNextVersion
  <2>3. file'[f] = file[f] BY <1>8, <2>2 DEF Block, IndexTypeOK
  <2>4. \A w \in VersionIds \ {v, file[g].active} : version'[w] = version[w] BY <1>8 DEF Block
  <2>5. LatestStatus(f) # "none" => LatestStatus(f)' = LatestStatus(f)
    <3> SUFFICES ASSUME LatestStatus(f) # "none" PROVE LatestStatus(f)' = LatestStatus(f) OBVIOUS
    <3>1. file[f].latest # v BY <2>2, LatestHas
    <3>2. file[f].latest # file[g].active BY <2>2, LatestHas DEF Rows, VersionIds
    <3> QED BY <2>3, <2>4, <3>1, <3>2, LatestHas DEF LatestStatus
  <2>6. Written(f) => Written(f)' BY <2>1, <2>3, <2>5 DEF Written
  <2> QED BY <1>0, <2>1, <2>2, <2>3, <2>6
<1>9. ASSUME Link PROVE Goal
  <2>1. /\ run'.scanned = run.scanned /\ run'.full = run.full /\ run'.errors = run.errors
        /\ run'.stage = "linked" /\ run'.todo = run.todo /\ run'.done = run.done
        /\ run'.drop = run.drop /\ Scanned /\ file' = file
    BY <1>9 DEF Link, IndexTypeOK, Runs, Scanned
  <2>2. \A v \in VersionIds : version'[v].status = version[v].status
    BY <1>9 DEF Link, IndexTypeOK, VersionRows
  <2>3. LatestStatus(f) # "none" => LatestStatus(f)' = LatestStatus(f)
    BY <2>1, <2>2, LatestHas DEF LatestStatus
  <2>4. Written(f) => Written(f)' BY <2>1, <2>3 DEF Written
  <2> QED BY <1>0, <2>1, <2>4
<1>10. ASSUME NEW S \in SUBSET Files, Promote(S) PROVE Goal
  <2>1. /\ run'.scanned = run.scanned /\ run'.full = run.full /\ ~run.errors /\ S = run.done
        /\ run'.stage = "promoted" /\ run'.todo = run.todo /\ run'.done = run.done
        /\ run'.drop = run.drop /\ Scanned /\ run.todo = {} /\ run.drop = {}
    BY <1>10 DEF Promote, IndexTypeOK, Runs, Scanned, RunPlan
  <2>2. file'[f] = IF f \in S THEN [file[f] EXCEPT !.active = file[f].latest] ELSE file[f]
    BY <1>10 DEF Promote
  <2>3. /\ file'[f].status = file[f].status /\ file'[f].hash = file[f].hash
        /\ file'[f].latest = file[f].latest
    BY <2>2 DEF IndexTypeOK, FileRows
  <2>4. \A g \in S : LatestStatus(g) = "pending" BY <1>10 DEF Promote
  <2>5. ASSUME Written(f) PROVE Written(f)'
    <3>1. f \in S \/ LatestStatus(f) = "ready" BY <2>1, <2>5 DEF Written
    <3>2. PICK v \in VersionIds : v = file[f].latest BY <2>5, LatestHas DEF Written
    <3>3. CASE f \in S
      <4>1. \A g \in S : v # file[g].active
        BY <2>4, <3>2, <3>3, LatestHas DEF Rows, VersionIds
      <4>2. version'[v] = [version[v] EXCEPT !.status = "ready"]
        BY <1>10, <3>2, <3>3, <4>1 DEF Promote
      <4>3. version'[v].status = "ready" BY <4>2 DEF IndexTypeOK, VersionRows
      <4>4. LatestStatus(f)' = "ready" BY <2>3, <3>2, <4>3 DEF LatestStatus, VersionIds
      <4> QED BY <2>1, <2>3, <2>5, <4>4 DEF Written
    <3>4. CASE f \notin S
      <4>1. \A g \in S : v # file[g].latest /\ v # file[g].active
        BY <2>4, <2>5, <3>2, <3>4, LatestHas DEF Rows, VersionIds, Written
      <4>2. version'[v] = version[v] BY <1>10, <4>1 DEF Promote
      <4>3. LatestStatus(f)' = LatestStatus(f) BY <2>3, <3>2, <4>2 DEF LatestStatus
      <4> QED BY <2>1, <2>3, <2>5, <3>1, <3>4, <4>3 DEF Written
    <3> QED BY <3>3, <3>4
  <2> QED BY <1>0, <2>1, <2>3, <2>5
<1>11. ASSUME NEW retain \in 1 .. MaxBuilds, Collect(retain) PROVE Goal
  <2>1. run' = run /\ file' = file BY <1>11 DEF Collect
  <2>2. file[f].latest \in Referenced(Collectable(retain)) BY DEF Referenced, Pointed
  <2>3. LatestStatus(f) # "none" => LatestStatus(f)' = LatestStatus(f)
    <3> SUFFICES ASSUME LatestStatus(f) # "none" PROVE LatestStatus(f)' = LatestStatus(f) OBVIOUS
    <3>1. PICK v \in VersionIds : v = file[f].latest BY LatestHas
    <3>2. version'[v] = version[v] BY <1>11, <2>2, <3>1 DEF Collect, NoVersion
    <3> QED BY <2>1, <3>1, <3>2 DEF LatestStatus
  <2>4. Written(f) => Written(f)' BY <2>1, <2>3 DEF Written
  <2> QED BY <1>0, <2>1, <2>4 DEF Scanned
<1>12. Goal
  <2> HIDE DEF Goal
  <2> QED
    BY <1>1, <1>2, <1>3, <1>4, <1>5, <1>6, <1>7, <1>8, <1>9, <1>10, <1>11 DEF Next, Ingest, Read,
       vars, Edit, Publish, Abandon, Bind, Check, Search, Locate, Fetch, Finish
<1> QED BY <1>12

-----------------------------------------------------------------------------
(* The theorems.                                                           *)

LEMMA InitInv == Init => IndexInv
<1> SUFFICES ASSUME Init PROVE IndexInv OBVIOUS
<1>1. IndexTypeOK BY InitTypes
<1>2. run = Idle /\ reader = NoReader BY DEF Init
<1>3. RunPlan /\ RunProgress BY <1>2 DEF RunPlan, RunProgress, Scanned, Idle
<1>4. ReaderBound BY <1>2 DEF ReaderBound, NoReader
<1>5. Rows /\ BuildsAreWhole /\ BuildOrder
  <2>1. CASE /\ file = [f \in Files |-> NoFileRow]
             /\ version = [v \in VersionIds |-> NoVersion]
             /\ build = [b \in BuildIds |-> NoBuild]
    BY <2>1 DEF Rows, BuildsAreWhole, BuildOrder, NoFileRow, NoVersion, NoBuild, Held
  <2>2. ASSUME NEW old \in Baselines,
               file = [f \in Files |-> LegacyFile(old, f)],
               version = [v \in VersionIds |-> LegacyVersion(old, v)],
               build = [b \in BuildIds |-> IF b = 1 THEN LegacyBuild(old) ELSE NoBuild]
        PROVE  Rows /\ BuildsAreWhole /\ BuildOrder
    <3>1. ASSUME NEW v \in VersionIds, version[v].status \notin {"none", "gone"}
          PROVE  version[v].of \in Files
      BY <2>2, <3>1, LegacyRows DEF NoVersion
    <3>2. ASSUME NEW f \in Files, old.active[f] # 0
          PROVE  /\ old.active[f] \in VersionIds
                 /\ version[old.active[f]].status = "ready" /\ version[old.active[f]].of = f
                 /\ version[old.active[f]].content = old.text[f]
      <4>1. /\ old.active[f] \in VersionIds
            /\ LegacyVersion(old, old.active[f]) =
                 [status |-> "ready", of |-> f, content |-> old.text[f], target |-> NoFile]
        BY <3>2, LegacyRows
      <4>2. version[old.active[f]] = LegacyVersion(old, old.active[f]) BY <2>2, <4>1
      <4> QED BY <4>1, <4>2
    <3>3. ASSUME NEW f \in Files
          PROVE  \/ file[f] = NoFileRow
                 \/ /\ old.active[f] # 0 /\ file[f].hash = old.text[f]
                    /\ file[f].latest = old.active[f] /\ file[f].active = old.active[f]
                    /\ file[f].status = LegacyStatus(old, f)
      BY <2>2 DEF LegacyFile
    <3>4. Rows BY <3>1, <3>2, <3>3 DEF Rows, LegacyStatus, NoFileRow
    <3>5. \A b \in BuildIds : build[b] = IF b = 1 THEN LegacyBuild(old) ELSE NoBuild BY <2>2
    <3>6. \A b \in BuildIds :
            /\ build[b].status = IF b = 1 THEN "published" ELSE "none"
            /\ build[b].files = IF b = 1 THEN old.active ELSE NoFiles
            /\ b = 1 => build[b].tree = Unverified
      BY <3>5 DEF LegacyBuild, NoBuild
    <3>7. BuildsAreWhole BY <3>2, <3>6 DEF BuildsAreWhole, Held
    <3>8. BuildOrder BY <3>6 DEF BuildOrder, Held, BuildIds
    <3> QED BY <3>4, <3>7, <3>8
  <2> QED BY <2>1, <2>2 DEF Init
<1> QED BY <1>1, <1>3, <1>4, <1>5 DEF IndexInv

LEMMA InvHolds == Spec => []IndexInv
<1>1. Init => IndexInv BY InitInv
<1>2. IndexInv /\ [Next]_vars => IndexInv'
  BY TypesStep, RowsStep, WholeStep, OrderStep, PlanStep, ProgressStep, ReaderStep DEF IndexInv
<1> QED BY <1>1, <1>2, PTL DEF Spec

\* Every row has the shape the schema gives it, in every step of an ingest,
\* of the collector and of a read.
THEOREM IndexTypesHold == Spec => []IndexTypeOK
<1>1. IndexInv => IndexTypeOK BY DEF IndexInv
<1> QED BY <1>1, InvHolds, PTL

\* The versions a published or retained build names are never missing, of
\* another file or unpromoted (store.ts:1259).
THEOREM BuildsStayWhole == Spec => []BuildsAreWhole
<1>1. IndexInv => BuildsAreWhole BY DEF IndexInv
<1> QED BY <1>1, InvHolds, PTL

\* A read bound to a build survives one publication and a collection.
THEOREM AnswersSurvive == Spec => []AnswersSurviveOneSwap
<1>1. IndexInv => AnswersSurviveOneSwap
  BY DEF IndexInv, ReaderBound, AnswersSurviveOneSwap
<1> QED BY <1>1, InvHolds, PTL

\* A full ingest that saw the tree it resolved publishes exactly that tree,
\* whatever earlier runs left half done (ingest-postgres.ts:1621).
THEOREM FullIngestIsComplete == Spec => FullIngestPublishesTheTree
<1>1. ASSUME IndexInv, [Next]_vars, NEW b \in BuildIds,
             build[b].status = "none", build'[b].status = "published",
             run.full, run.scanned = run.tree
      PROVE  Shown(b)' = View(run.tree)
  <2>1. Published(b) BY <1>1, StatusEvolves DEF IndexInv
  <2>2. Applied /\ ~run.errors BY <2>1 DEF Published, Publish
  <2>3. Scanned /\ run.drop = {} /\ run.todo = {} /\ (run.stage = "promoted" \/ run.done = {})
    BY <1>1, <2>2 DEF Applied, Scanned, IndexInv, RunPlan
  <2>4. ASSUME NEW f \in Files PROVE Shown(b)'[f] = View(run.tree)[f]
    <3>1. Shown(b)'[f] = IF BuildFiles[f] = 0 THEN Absent ELSE version[BuildFiles[f]].content
      BY <1>1, <2>1, PublishedRows DEF IndexInv
    <3>2. CASE f \in Blocked
      BY <1>1, <3>1, <3>2 DEF IndexInv, Rows, BuildFiles, View
    <3>3. CASE f \notin Blocked /\ run.scanned[f] = Absent
      <4>1. file[f].status \in {"none", "deleted"}
        BY <1>1, <2>2, <2>3, <3>3 DEF IndexInv, RunProgress
      <4> QED BY <1>1, <3>1, <3>3, <4>1 DEF BuildFiles, View
    <3>4. CASE f \notin Blocked /\ run.scanned[f] # Absent
      <4>1. Written(f) BY <1>1, <2>2, <2>3, <3>4 DEF IndexInv, RunProgress
      <4>2. LatestStatus(f) = "ready" BY <2>3, <4>1 DEF Written
      <4>3. /\ file[f].latest \in VersionIds /\ file[f].active = file[f].latest
            /\ version[file[f].latest].content = file[f].hash
        BY <1>1, <4>2, LatestHas DEF IndexInv, Rows, VersionIds
      <4>4. BuildFiles[f] = file[f].latest /\ BuildFiles[f] # 0
        BY <4>1, <4>3 DEF Written, BuildFiles, VersionIds
      <4> QED BY <1>1, <3>1, <3>4, <4>1, <4>3, <4>4 DEF Written, View
    <3> QED BY <3>2, <3>3, <3>4
  <2> QED BY <2>4 DEF Shown, View
<1>2. IndexInv /\ [Next]_vars =>
        [\A b \in BuildIds :
           /\ build[b].status = "none" /\ build'[b].status = "published"
           /\ run.full /\ run.scanned = run.tree
           => Shown(b)' = View(run.tree)]_vars
  BY <1>1 DEF Shown
<1> QED BY <1>2, InvHolds, PTL DEF Spec, FullIngestPublishesTheTree, Shown

\* A build without rows shows nothing.
LEMMA UnheldShowsNothing ==
  ASSUME BuildOrder, NEW b \in BuildIds, build[b].status \notin Held
  PROVE  Shown(b) = NoTree
BY DEF BuildOrder, Shown, NoTree, NoFiles

LEMMA RefinesInit == Init => Builds!Init
<1> SUFFICES ASSUME Init PROVE Builds!Init OBVIOUS
<1>1. BuildOrder BY InitInv DEF IndexInv
<1>2. CASE build = [b \in BuildIds |-> NoBuild]
  <2>1. \A b \in BuildIds : build[b].status = "none" BY <1>2 DEF NoBuild
  <2>2. \A b \in BuildIds : Shown(b) = NoTree BY <1>1, <2>1, UnheldShowsNothing DEF Held
  <2> QED BY <2>1, <2>2 DEF Builds!Init
<1>3. ASSUME NEW old \in Baselines,
             version = [v \in VersionIds |-> LegacyVersion(old, v)],
             build = [b \in BuildIds |-> IF b = 1 THEN LegacyBuild(old) ELSE NoBuild]
      PROVE  Builds!Init
  <2> DEFINE view == Shown(1)
  <2>1. 1 \in BuildIds BY DEF BuildIds
  <2>2. build[1] = LegacyBuild(old) BY <1>3, <2>1
  <2>3. build[1].files = old.active /\ build[1].status = "published" BY <2>2 DEF LegacyBuild
  <2>4. view \in Trees
    <3>1. IndexTypeOK BY InitTypes
    <3> QED BY <2>1, <3>1 DEF Shown, IndexTypeOK, BuildRows, VersionRows, VersionIds, Trees, States
  <2>5. \A b \in BuildIds : build[b].status = IF b = 1 THEN "published" ELSE "none"
    BY <1>3, <2>3 DEF NoBuild
  <2>6. \A b \in BuildIds : Shown(b) = IF b = 1 THEN view ELSE NoTree
    BY <1>1, <2>5, UnheldShowsNothing DEF Held
  <2>7. [b \in BuildIds |-> IF build[b].status = "garbage_collected" THEN "collected"
                            ELSE build[b].status]
          = [b \in BuildIds |-> IF b = 1 THEN "published" ELSE "none"]
    BY <2>5
  <2>8. [b \in BuildIds |-> Shown(b)] = [b \in BuildIds |-> IF b = 1 THEN view ELSE NoTree]
    BY <2>6
  <2> HIDE DEF view
  <2> QED BY <2>4, <2>7, <2>8 DEF Builds!Init
<1> QED BY <1>2, <1>3 DEF Init

\* What all builds show: the mapped variable of PublishedBuilds.
Showing == [b \in BuildIds |-> Shown(b)]

LEMMA RefinesStep == IndexInv /\ [Next]_vars => [Builds!Next]_(Builds!vars)
<1> SUFFICES ASSUME IndexInv, [Next]_vars PROVE [Builds!Next]_(Builds!vars) OBVIOUS
<1> USE DEF IndexInv
<1>0. BuildOrder' BY OrderStep
<1>a. ASSUME NEW b \in BuildIds PROVE Showing[b] = Shown(b) BY DEF Showing
<1>b. ASSUME NEW b \in BuildIds PROVE Showing'[b] = Shown(b)' BY DEF Showing
<1>1. \A b \in BuildIds : build'[b] = build[b] => Showing'[b] = Showing[b]
  <2> SUFFICES ASSUME NEW b \in BuildIds, build'[b] = build[b] PROVE Showing'[b] = Showing[b] OBVIOUS
  <2>1. CASE build[b].status \in Held BY <2>1, HeldFixed, <1>a, <1>b
  <2>2. CASE build[b].status \notin Held
    <3>1. Showing[b] = NoTree BY <2>2, UnheldShowsNothing, <1>a
    <3>2. build'[b].files = NoFiles BY <1>0, <2>2 DEF BuildOrder
    <3>3. Showing'[b] = NoTree BY <3>2 DEF Showing, Shown, NoTree, NoFiles
    <3> QED BY <3>1, <3>3
  <2> QED BY <2>1, <2>2
<1>2. CASE UNCHANGED build
  <2>1. \A b \in BuildIds : Showing'[b] = Showing[b] BY <1>1, <1>2
  <2> QED BY <1>2, <2>1 DEF Builds!vars, Showing
<1>3. ASSUME NEW b \in BuildIds, Publish(b) PROVE Builds!Next
  <2>1. Published(b) BY <1>3 DEF Publish, IsNextBuild, Published
  <2>2. \A c \in BuildIds : (build[c].status = "none") <=> (c >= b)
    BY <2>1 DEF Published, Publish, IsNextBuild, BuildOrder, BuildIds
  <2>3. \A c \in BuildIds :
          build'[c].status = CASE c = b -> "published"
                               [] build[c].status = "published" -> "retired"
                               [] OTHER -> build[c].status
    BY <1>3, <2>2 DEF Publish, IndexTypeOK, BuildRows, BuildIds
  <2>4. \A c \in BuildIds : c # b => Showing'[c] = Showing[c]
    <3> SUFFICES ASSUME NEW c \in BuildIds, c # b PROVE Showing'[c] = Showing[c] OBVIOUS
    <3>1. version' = version BY <1>3 DEF Publish
    <3>2. build'[c].files = build[c].files
      BY <1>3 DEF Publish, IndexTypeOK, BuildRows
    <3> QED BY <3>1, <3>2 DEF Showing, Shown
  <2>5. Showing'[b] \in Trees
    <3>1. IndexTypeOK' BY TypesStep
    <3> QED BY <3>1 DEF Showing, Shown, IndexTypeOK, BuildRows, VersionRows, VersionIds, States, Trees
  <2>6. Builds!IsNext(b) BY <2>2 DEF Builds!IsNext
  <2>a. PICK view \in Trees : view = Showing'[b] BY <2>5
  <2>7. Builds!Publish(b, view)
    BY <2>3, <2>4, <2>6, <2>a DEF Builds!Publish, Showing
  <2> QED BY <2>7 DEF Builds!Next
<1>4. ASSUME NEW retain \in 1 .. MaxBuilds, Collect(retain) PROVE Builds!Next
  <2>0. PICK S \in SUBSET BuildIds : S = Collectable(retain) BY DEF Collectable, Retired
  <2>1. ASSUME NEW b \in S PROVE Builds!Collectable(b)
    <3>1. b \in Retired /\ \E c \in Retired : b < c BY <2>0, CollectableLeavesOne
    <3> QED BY <3>1 DEF Retired, Builds!Collectable, BuildIds
  <2>2. \A b \in BuildIds : build'[b].status = IF b \in S THEN "garbage_collected" ELSE build[b].status
    BY <1>4, <2>0 DEF Collect, IndexTypeOK, BuildRows
  <2>3. \A b \in BuildIds : Showing'[b] = IF b \in S THEN NoTree ELSE Showing[b]
    <3> SUFFICES ASSUME NEW b \in BuildIds PROVE Showing'[b] = IF b \in S THEN NoTree ELSE Showing[b]
      OBVIOUS
    <3>1. CASE b \in S
      <4>1. build'[b].files = NoFiles BY <1>0, <2>2, <3>1 DEF BuildOrder, Held
      <4> QED BY <3>1, <4>1 DEF Showing, Shown, NoTree, NoFiles
    <3>2. CASE b \notin S
      <4>1. build'[b] = build[b] BY <1>4, <2>0, <3>2 DEF Collect
      <4> QED BY <1>1, <3>2, <4>1
    <3> QED BY <3>1, <3>2
  <2>5. Builds!Collect(S) BY <2>1, <2>2, <2>3 DEF Builds!Collect, Showing
  <2> QED BY <2>5 DEF Builds!Next
<1> QED
  BY <1>2, <1>3, <1>4 DEF Next, Ingest, Read, vars, Edit, Resolve, Scan, Delete, Write, Block,
     FileError, Link, Promote, Abandon, Bind, Check, Search, Locate, Fetch, Finish

\* The rows of the index implement what readers are promised: published
\* content is fixed, one build is published, and a reader survives a swap.
THEOREM IndexRefinesBuilds == Spec => RefinesBuilds
<1>1. Init => Builds!Init BY RefinesInit
<1>2. IndexInv /\ [Next]_vars => [Builds!Next]_(Builds!vars) BY RefinesStep
<1> QED BY <1>1, <1>2, InvHolds, PTL DEF Spec, RefinesBuilds, Builds!Spec
=============================================================================
