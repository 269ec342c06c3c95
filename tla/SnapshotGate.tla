---------------------------- MODULE SnapshotGate ----------------------------
(***************************************************************************)
(* The snapshot gate of one Project RAG project: project_ingest_snapshots, *)
(* the review and decision rows of its snapshots, and every operation of   *)
(* scripts/project-rag/store.ts on the three tables, in any order.         *)
(*                                                                         *)
(* A snapshot records the plan of one ingest.  A plan that deletes without *)
(* complete scan evidence starts REVIEW_REQUIRED and can be claimed only   *)
(* with a current review; the claim makes it CONSUMING under a lease, and  *)
(* the ingest ends it CONSUMED or FAILED.  A sweep ends what ran out.      *)
(*                                                                         *)
(* Operations are single statements, hence atomic, but one kind is not: an *)
(* operator's INSERT ... SELECT reads its NOT EXISTS conditions in the     *)
(* MVCC snapshot of the statement's start and takes the advisory lock      *)
(* later, while it runs.  So it is two steps here, Look and the write.     *)
(*                                                                         *)
(* Time is reduced to what the guards read: fresh is expires_at > now(),   *)
(* live is lease_expires_at > clock_timestamp().  Abstracted: the hashes   *)
(* and counts of the plan, failure codes, operator and reviewer names, the *)
(* signed token (its checks precede the statement and change nothing), and *)
(* other projects (every statement but the operators' names its project).  *)
(***************************************************************************)
EXTENDS Naturals

CONSTANTS
  NumSnaps,    \* bound: snapshot rows ever inserted
  Operators    \* operator sessions that review snapshots

ASSUME SnapsAssumption == NumSnaps \in Nat

Snaps == 1 .. NumSnaps
NoSnap == 0

VARIABLES
  snap,       \* project_ingest_snapshots
  review,     \* project_ingest_snapshot_reviews: at most one per snapshot
  decision,   \* project_ingest_snapshot_review_decisions: at most one per snapshot
  stmt        \* the statement each operator session has in flight

gateVars == <<snap, review, decision, stmt>>

Claimables == {"PREPARED", "REVIEW_REQUIRED"}
Ended == {"CONSUMED", "FAILED", "EXPIRED"}
SnapStatuses == {"absent", "CONSUMING"} \cup Claimables \cup Ended
Verdicts == {"PREPARED", "REVIEW_REQUIRED", "FAILED"}
Kinds == {"approve", "defer", "reject"}

\* gated: the plan deletes without complete evidence (frozen columns).
SnapRow == [status: SnapStatuses, gated: BOOLEAN, fresh: BOOLEAN, live: BOOLEAN]
NoRow == [status |-> "absent", gated |-> FALSE, fresh |-> FALSE, live |-> FALSE]
Idle == [kind |-> "idle", snap |-> NoSnap]

GateInit ==
  /\ snap = [s \in Snaps |-> NoRow]
  /\ review = [s \in Snaps |-> "none"]
  /\ decision = [s \in Snaps |-> "none"]
  /\ stmt = [o \in Operators |-> Idle]

-----------------------------------------------------------------------------
(* The ingest's operations.                                                 *)

\* A lower id is always in use before a higher one: ids are a sequence.
NextId(s) == snap[s].status = "absent" /\ \A t \in 1 .. (s - 1) : snap[t].status # "absent"

\* prepareSnapshot: blocked findings fail the row at once, a plan that deletes
\* without evidence waits for a review, every other plan is ready.
Insert(s, verdict) ==
  /\ NextId(s)
  /\ snap' = [snap EXCEPT ![s] =
       [status |-> verdict, gated |-> verdict = "REVIEW_REQUIRED", fresh |-> TRUE, live |-> FALSE]]
  /\ UNCHANGED <<review, decision, stmt>>

Reviewed(s) == review[s] = "current"

\* The partial unique index: one CONSUMING row in the project.
NobodyConsumes == \A t \in Snaps : snap[t].status # "CONSUMING"

\* Mutant: without the unique index.
MayClaim_NoIndex(s, approved) ==
  /\ snap[s].fresh
  /\ \/ snap[s].status = "PREPARED"
     \/ approved /\ snap[s].status = "REVIEW_REQUIRED" /\ Reviewed(s)

\* Mutant: any review will do, an expired one too.
MayClaim_AnyReview(s, approved) ==
  /\ snap[s].fresh
  /\ \/ snap[s].status = "PREPARED"
     \/ approved /\ snap[s].status = "REVIEW_REQUIRED" /\ review[s] # "none"
  /\ NobodyConsumes

MayClaim(s, approved) ==
  /\ snap[s].fresh
  /\ \/ snap[s].status = "PREPARED"
     \/ approved /\ snap[s].status = "REVIEW_REQUIRED" /\ Reviewed(s)
  /\ NobodyConsumes

Claim(s, approved) ==
  /\ MayClaim(s, approved)
  /\ snap' = [snap EXCEPT ![s].status = "CONSUMING", ![s].live = TRUE]
  /\ UNCHANGED <<review, decision, stmt>>

\* The row is claimed and its lease has not run out.
LiveClaim(s) == snap[s].status = "CONSUMING" /\ snap[s].live

\* A live lease is extended; a lease that may lapse at any moment shows no trace of it.
Renew(s) ==
  /\ LiveClaim(s)
  /\ snap' = [snap EXCEPT ![s].live = TRUE]
  /\ UNCHANGED <<review, decision, stmt>>

Consume(s) ==
  /\ LiveClaim(s)
  /\ snap' = [snap EXCEPT ![s].status = "CONSUMED"]
  /\ UNCHANGED <<review, decision, stmt>>

Fail(s) ==
  /\ snap[s].status \notin Ended \cup {"absent"}
  /\ snap' = [snap EXCEPT ![s].status = "FAILED"]
  /\ UNCHANGED <<review, decision, stmt>>

\* Mutant: a lapsed claim gets a status the table's CHECK does not know.
SweptStatus_Unknown(r) ==
  IF r.status \in Claimables /\ ~r.fresh THEN "EXPIRED"
  ELSE IF r.status = "CONSUMING" /\ ~r.live THEN "ABANDONED"
  ELSE r.status

SweptStatus(r) ==
  IF r.status \in Claimables /\ ~r.fresh THEN "EXPIRED"
  ELSE IF r.status = "CONSUMING" /\ ~r.live THEN "FAILED"
  ELSE r.status

Sweep ==
  /\ snap' = [s \in Snaps |->
       [status |-> SweptStatus(snap[s]), gated |-> snap[s].gated,
        fresh |-> snap[s].fresh, live |-> snap[s].live]]
  /\ UNCHANGED <<review, decision, stmt>>

-----------------------------------------------------------------------------
(* The operators' statements.                                               *)

\* Mutant: a snapshot that is ready to be claimed can be decided about too.
Look_Claimable(o, s, kind) ==
  /\ stmt[o] = Idle
  /\ snap[s].status \in Claimables /\ snap[s].fresh
  /\ review[s] = "none" /\ decision[s] = "none"
  /\ stmt' = [stmt EXCEPT ![o] = [kind |-> kind, snap |-> s]]
  /\ UNCHANGED <<snap, review, decision>>

\* The statement starts: its conditions hold in the MVCC snapshot it reads.
Look(o, s, kind) ==
  /\ stmt[o] = Idle
  /\ snap[s].status = "REVIEW_REQUIRED" /\ snap[s].fresh
  /\ review[s] = "none" /\ decision[s] = "none"
  /\ stmt' = [stmt EXCEPT ![o] = [kind |-> kind, snap |-> s]]
  /\ UNCHANGED <<snap, review, decision>>

Ends(o, kind) == stmt[o].kind = kind /\ stmt' = [stmt EXCEPT ![o] = Idle]

\* The lock is free, the row is inserted, the transaction commits.  A review
\* never outlives its snapshot.
Approve(o) ==
  LET s == stmt[o].snap IN
  /\ Ends(o, "approve")
  /\ review[s] = "none"
  /\ review' = [review EXCEPT ![s] = IF snap[s].fresh THEN "current" ELSE "expired"]
  /\ UNCHANGED <<snap, decision>>

Defer(o) ==
  LET s == stmt[o].snap IN
  /\ Ends(o, "defer")
  /\ decision[s] = "none"
  /\ decision' = [decision EXCEPT ![s] = "DEFERRED"]
  /\ UNCHANGED <<snap, review>>

\* Mutant: a rejection puts the snapshot back in front of the reviewers.
Reject_Reopens(o) ==
  LET s == stmt[o].snap IN
  /\ Ends(o, "reject")
  /\ decision[s] = "none"
  /\ decision' = [decision EXCEPT ![s] = "REJECTED"]
  /\ snap' = [snap EXCEPT ![s].status = "REVIEW_REQUIRED"]
  /\ UNCHANGED review

\* One statement inserts the decision and fails the snapshot it names, whose
\* status it does not read again.
Reject(o) ==
  LET s == stmt[o].snap IN
  /\ Ends(o, "reject")
  /\ decision[s] = "none"
  /\ decision' = [decision EXCEPT ![s] = "REJECTED"]
  /\ snap' = [snap EXCEPT ![s].status = "FAILED"]
  /\ UNCHANGED review

\* Another session holds the advisory lock, or has filled the unique index.
Refused(o) ==
  LET s == stmt[o].snap IN
  /\ stmt[o] # Idle
  /\ \/ \E q \in Operators \ {o} : stmt[q].snap = s
     \/ stmt[o].kind = "approve" /\ review[s] # "none"
     \/ stmt[o].kind # "approve" /\ decision[s] # "none"
  /\ stmt' = [stmt EXCEPT ![o] = Idle]
  /\ UNCHANGED <<snap, review, decision>>

-----------------------------------------------------------------------------
(* The clock.                                                               *)

Lapse(s) ==
  /\ LiveClaim(s)
  /\ snap' = [snap EXCEPT ![s].live = FALSE]
  /\ UNCHANGED <<review, decision, stmt>>

ExpireReview(s) ==
  /\ Reviewed(s)
  /\ review' = [review EXCEPT ![s] = "expired"]
  /\ UNCHANGED <<snap, decision, stmt>>

Expire(s) ==
  /\ snap[s].fresh
  /\ snap' = [snap EXCEPT ![s].fresh = FALSE]
  /\ review' = [review EXCEPT ![s] = IF @ = "none" THEN "none" ELSE "expired"]
  /\ UNCHANGED <<decision, stmt>>

Ages == \E s \in Snaps : Lapse(s) \/ ExpireReview(s) \/ Expire(s)

Operates(o) ==
  \/ \E s \in Snaps, kind \in Kinds : Look(o, s, kind)
  \/ Approve(o) \/ Defer(o) \/ Reject(o) \/ Refused(o)

Ingests ==
  \/ \E s \in Snaps, verdict \in Verdicts : Insert(s, verdict)
  \/ \E s \in Snaps, approved \in BOOLEAN : Claim(s, approved)
  \/ \E s \in Snaps : Renew(s) \/ Consume(s) \/ Fail(s)
  \/ Sweep

GateNext == Ingests \/ Ages \/ \E o \in Operators : Operates(o)

GateSpec == GateInit /\ [][GateNext]_gateVars

-----------------------------------------------------------------------------
(* Properties.                                                              *)

\* Every table holds rows of its shape.
GateTypeOK ==
  /\ snap \in [Snaps -> SnapRow]
  /\ review \in [Snaps -> {"none", "current", "expired"}]
  /\ decision \in [Snaps -> {"none", "DEFERRED", "REJECTED"}]
  /\ stmt \in [Operators -> [kind: Kinds, snap: Snaps] \cup {Idle}]

\* Two ingests of a project never consume at the same time, whatever claims,
\* lapses, sweeps and rejections come between.
OneConsumer ==
  \A s, t \in Snaps :
    snap[s].status = "CONSUMING" /\ snap[t].status = "CONSUMING" => s = t

\* The moment a plan that deletes without evidence is claimed, a review of that
\* very snapshot is there and has not run out, and neither has the snapshot
\* (SPEC-007: REVIEW_REQUIRED is non-consumable until then).
ReviewGates ==
  [][\A s \in Snaps :
       snap[s].status # "CONSUMING" /\ snap'[s].status = "CONSUMING" /\ snap'[s].gated
         => review[s] = "current" /\ snap[s].fresh]_gateVars

\* A snapshot whose lease ran out is lost for good: it is neither renewed, nor
\* consumed, nor claimed again; it can only be failed.
AbandonedOnlyFails ==
  [][\A s \in Snaps :
       snap[s].status = "CONSUMING" /\ ~snap[s].live
         => \/ snap'[s].status = "CONSUMING" /\ ~snap'[s].live
            \/ snap'[s].status = "FAILED"]_gateVars

\* No ended snapshot comes back into play, by a late review, a late rejection
\* or a claim that raced with the sweep.
EndedStaysEnded ==
  [][\A s \in Snaps : snap[s].status \in Ended => snap'[s].status \in Ended]_gateVars

\* The outcome of a completed ingest is rewritten in one way only: two operators
\* review one snapshot at the same time, one approves it, and the other's
\* rejection, which looked before, writes after the ingest has consumed it.  No
\* sweep, no failing ingest and no rejection of an unreviewed snapshot does.
ConsumedIsFinal ==
  [][\A s \in Snaps :
       snap[s].status = "CONSUMED" /\ snap'[s].status # "CONSUMED"
         => /\ review[s] # "none"
            /\ decision[s] = "none" /\ decision'[s] = "REJECTED"]_gateVars

=============================================================================
