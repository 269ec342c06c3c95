-------------------------- MODULE MCDocsGenerations --------------------------
(* Bounds: MaxRuns runs at a time of two syncs and an ingest, one path, two  *)
(* contents, two generations, and an upstream that has a document.           *)
EXTENDS DocsGenerations, TLC

SomeUpstream == {t \in Trees : FilesOf(t) # {}}

SyncSymmetry == Permutations(External)
=============================================================================
