------------------------- MODULE SnapshotGateProofs -------------------------
(***************************************************************************)
(* Theorems about the snapshot gate, for any number of snapshots and       *)
(* operators.                                                              *)
(*                                                                         *)
(* OneConsumer is preserved by itself.  The two action properties are not  *)
(* local to one step.  ReviewGates: a claim of a PREPARED row needs no     *)
(* review, so that no such row is gated is carried along (PlansKnown).     *)
(* ConsumedIsFinal: a rejection does not read the status it overwrites, so *)
(* what it can have looked at is carried along (FlightsGated), and what a  *)
(* gated snapshot in or past its claim has behind it (GatedAreReviewed).   *)
(***************************************************************************)
EXTENDS SnapshotGate, TLAPS

\* The status of a row that nobody has claimed tells whether its plan is gated.
PlansKnown ==
  \A s \in Snaps :
    /\ snap[s].status \in {"absent", "PREPARED"} => ~snap[s].gated
    /\ snap[s].status = "REVIEW_REQUIRED" => snap[s].gated

\* A gated snapshot is not claimed, and not consumed, without a review.
GatedAreReviewed ==
  \A s \in Snaps :
    snap[s].gated /\ snap[s].status \in {"CONSUMING", "CONSUMED"} => review[s] # "none"

\* Operators decide about gated snapshots only.
FlightsGated == \A o \in Operators : stmt[o] # Idle => snap[stmt[o].snap].gated

GateInv == GateTypeOK /\ OneConsumer /\ PlansKnown /\ GatedAreReviewed /\ FlightsGated

-----------------------------------------------------------------------------

\* A row with a new status is a row, and differs from the old one in nothing else.
LEMMA WithStatus ==
  ASSUME GateTypeOK, NEW s \in Snaps, NEW st \in SnapStatuses,
         snap' = [snap EXCEPT ![s].status = st]
  PROVE  /\ snap' \in [Snaps -> SnapRow]
         /\ snap'[s].status = st
         /\ snap'[s].gated = snap[s].gated /\ snap'[s].live = snap[s].live
         /\ \A t \in Snaps \ {s} : snap'[t] = snap[t]
<1>1. snap \in [Snaps -> SnapRow] BY DEF GateTypeOK
<1>2. snap[s] \in SnapRow BY <1>1
<1>3. [snap[s] EXCEPT !.status = st] \in SnapRow BY <1>2 DEF SnapRow
<1>4. snap' = [snap EXCEPT ![s] = [snap[s] EXCEPT !.status = st]] BY <1>1
<1>5. snap'[s] = [snap[s] EXCEPT !.status = st] BY <1>1, <1>4
<1>6. snap' \in [Snaps -> SnapRow] BY <1>1, <1>3, <1>4
<1>7. /\ snap'[s].status = st
      /\ snap'[s].gated = snap[s].gated /\ snap'[s].live = snap[s].live
  BY <1>2, <1>5 DEF SnapRow
<1>8. \A t \in Snaps \ {s} : snap'[t] = snap[t] BY <1>1, <1>4
<1> QED BY <1>6, <1>7, <1>8

\* The same of the lease flag.
LEMMA WithLive ==
  ASSUME GateTypeOK, NEW s \in Snaps, NEW b \in BOOLEAN,
         snap' = [snap EXCEPT ![s].live = b]
  PROVE  /\ snap' \in [Snaps -> SnapRow]
         /\ snap'[s].live = b
         /\ snap'[s].gated = snap[s].gated /\ snap'[s].status = snap[s].status
         /\ \A t \in Snaps \ {s} : snap'[t] = snap[t]
<1>1. snap \in [Snaps -> SnapRow] BY DEF GateTypeOK
<1>2. snap[s] \in SnapRow BY <1>1
<1>3. [snap[s] EXCEPT !.live = b] \in SnapRow BY <1>2 DEF SnapRow
<1>4. snap' = [snap EXCEPT ![s] = [snap[s] EXCEPT !.live = b]] BY <1>1
<1>5. snap'[s] = [snap[s] EXCEPT !.live = b] BY <1>1, <1>4
<1>6. snap' \in [Snaps -> SnapRow] BY <1>1, <1>3, <1>4
<1>7. /\ snap'[s].live = b
      /\ snap'[s].gated = snap[s].gated /\ snap'[s].status = snap[s].status
  BY <1>2, <1>5 DEF SnapRow
<1>8. \A t \in Snaps \ {s} : snap'[t] = snap[t] BY <1>1, <1>4
<1> QED BY <1>6, <1>7, <1>8

\* ... and of the expiry flag.
LEMMA WithFresh ==
  ASSUME GateTypeOK, NEW s \in Snaps, NEW b \in BOOLEAN,
         snap' = [snap EXCEPT ![s].fresh = b]
  PROVE  /\ snap' \in [Snaps -> SnapRow]
         /\ \A t \in Snaps : /\ snap'[t].status = snap[t].status
                             /\ snap'[t].gated = snap[t].gated
                             /\ snap'[t].live = snap[t].live
<1>1. snap \in [Snaps -> SnapRow] BY DEF GateTypeOK
<1>2. snap[s] \in SnapRow BY <1>1
<1>3. [snap[s] EXCEPT !.fresh = b] \in SnapRow BY <1>2 DEF SnapRow
<1>4. snap' = [snap EXCEPT ![s] = [snap[s] EXCEPT !.fresh = b]] BY <1>1
<1>5. snap'[s] = [snap[s] EXCEPT !.fresh = b] BY <1>1, <1>4
<1>6. snap' \in [Snaps -> SnapRow] BY <1>1, <1>3, <1>4
<1>7. /\ snap'[s].live = snap[s].live
      /\ snap'[s].gated = snap[s].gated /\ snap'[s].status = snap[s].status
  BY <1>2, <1>5 DEF SnapRow
<1>8. \A t \in Snaps \ {s} : snap'[t] = snap[t] BY <1>1, <1>4
<1> QED BY <1>6, <1>7, <1>8

\* A claim is a change of status and a live lease.
LEMMA WithClaim ==
  ASSUME GateTypeOK, NEW s \in Snaps, NEW approved, Claim(s, approved)
  PROVE  /\ snap' \in [Snaps -> SnapRow]
         /\ snap[s].status \in Claimables
         /\ snap[s].status = "REVIEW_REQUIRED" => Reviewed(s)
         /\ NobodyConsumes /\ snap[s].fresh
         /\ snap'[s].status = "CONSUMING" /\ snap'[s].live
         /\ snap'[s].gated = snap[s].gated
         /\ \A t \in Snaps \ {s} : snap'[t] = snap[t]
<1> DEFINE row == [snap[s] EXCEPT !.status = "CONSUMING", !.live = TRUE]
<1>1. snap \in [Snaps -> SnapRow] BY DEF GateTypeOK
<1>2. snap[s] \in SnapRow BY <1>1
<1>3. row \in SnapRow BY <1>2 DEF SnapRow, SnapStatuses
<1>4. snap' = [snap EXCEPT ![s] = row] BY <1>1 DEF Claim
<1>5. snap'[s] = row BY <1>1, <1>4
<1>6. snap' \in [Snaps -> SnapRow] BY <1>1, <1>3, <1>4
<1>7. snap'[s].status = "CONSUMING" /\ snap'[s].live /\ snap'[s].gated = snap[s].gated
  BY <1>2, <1>5 DEF SnapRow
<1>8. \A t \in Snaps \ {s} : snap'[t] = snap[t] BY <1>1, <1>4
<1>9. MayClaim(s, approved) BY DEF Claim
<1>10. /\ snap[s].status \in Claimables /\ NobodyConsumes /\ snap[s].fresh
       /\ snap[s].status = "REVIEW_REQUIRED" => Reviewed(s)
  BY <1>9 DEF MayClaim, Claimables
<1> QED BY <1>6, <1>7, <1>8, <1>10

\* A new row takes the place of an absent one.
LEMMA WithInsert ==
  ASSUME GateTypeOK, NEW s \in Snaps, NEW verdict \in Verdicts, Insert(s, verdict)
  PROVE  /\ snap' \in [Snaps -> SnapRow]
         /\ snap[s].status = "absent" /\ snap'[s].status = verdict
         /\ verdict # "REVIEW_REQUIRED" => ~snap'[s].gated
         /\ verdict = "REVIEW_REQUIRED" => snap'[s].gated
         /\ \A t \in Snaps \ {s} : snap'[t] = snap[t]
<1> DEFINE row == [status |-> verdict, gated |-> verdict = "REVIEW_REQUIRED",
                   fresh |-> TRUE, live |-> FALSE]
<1>1. snap \in [Snaps -> SnapRow] BY DEF GateTypeOK
<1>2. row \in SnapRow BY DEF SnapRow, SnapStatuses, Verdicts, Claimables, Ended
<1>3. snap' = [snap EXCEPT ![s] = row] BY DEF Insert
<1>4. snap' \in [Snaps -> SnapRow] BY <1>1, <1>2, <1>3
<1>5. snap'[s] = row BY <1>1, <1>3
<1>6. snap'[s].status = verdict BY <1>5
<1>9. ASSUME verdict # "REVIEW_REQUIRED" PROVE ~snap'[s].gated
  <2>1. (verdict = "REVIEW_REQUIRED") = FALSE BY <1>9
  <2>2. snap'[s] = [status |-> verdict, gated |-> FALSE, fresh |-> TRUE, live |-> FALSE]
    BY <1>5, <2>1, Zenon
  <2> QED BY <2>2
<1>10. ASSUME verdict = "REVIEW_REQUIRED" PROVE snap'[s].gated
  <2>1. (verdict = "REVIEW_REQUIRED") = TRUE BY <1>10
  <2>2. snap'[s] = [status |-> verdict, gated |-> TRUE, fresh |-> TRUE, live |-> FALSE]
    BY <1>5, <2>1, Zenon
  <2> QED BY <2>2
<1>7. snap[s].status = "absent" BY DEF Insert, NextId
<1>8. \A t \in Snaps \ {s} : snap'[t] = snap[t] BY <1>1, <1>3
<1> QED BY <1>4, <1>6, <1>7, <1>8, <1>9, <1>10

\* The sweep ends rows and touches nothing else of them.
LEMMA WithSweep ==
  ASSUME GateTypeOK, Sweep
  PROVE  /\ snap' \in [Snaps -> SnapRow]
         /\ \A s \in Snaps : /\ snap'[s].gated = snap[s].gated
                             /\ snap'[s].live = snap[s].live
                             /\ \/ snap'[s].status = snap[s].status
                                \/ snap'[s].status = "EXPIRED" /\ snap[s].status \in Claimables
                                \/ snap'[s].status = "FAILED" /\ snap[s].status = "CONSUMING"
<1> DEFINE row(s) == [status |-> SweptStatus(snap[s]), gated |-> snap[s].gated,
                      fresh |-> snap[s].fresh, live |-> snap[s].live]
<1>1. snap \in [Snaps -> SnapRow] BY DEF GateTypeOK
<1>2. snap' = [s \in Snaps |-> row(s)] BY DEF Sweep
<1>3. ASSUME NEW s \in Snaps
      PROVE  /\ snap'[s] \in SnapRow
             /\ snap'[s].gated = snap[s].gated /\ snap'[s].live = snap[s].live
             /\ \/ snap'[s].status = snap[s].status
                \/ snap'[s].status = "EXPIRED" /\ snap[s].status \in Claimables
                \/ snap'[s].status = "FAILED" /\ snap[s].status = "CONSUMING"
  <2>1. snap'[s] = row(s) BY <1>2
  <2>2. snap[s] \in SnapRow BY <1>1
  <2>3. SweptStatus(snap[s]) \in SnapStatuses
    BY <2>2 DEF SweptStatus, SnapRow, SnapStatuses, Ended
  <2>4. row(s) \in SnapRow BY <2>2, <2>3 DEF SnapRow
  <2> QED BY <2>1, <2>4 DEF SweptStatus
<1>4. snap' \in [Snaps -> SnapRow] BY <1>2, <1>3
<1> QED BY <1>3, <1>4

-----------------------------------------------------------------------------

\* What every step does to a snapshot row.
RowStep(s) ==
  \/ snap'[s].status = snap[s].status /\ snap'[s].gated = snap[s].gated
     /\ (snap'[s].live = snap[s].live \/ LiveClaim(s))
  \/ snap[s].status = "absent" /\ snap'[s].status \in Verdicts
     /\ (snap'[s].status = "PREPARED" => ~snap'[s].gated)
     /\ (snap'[s].status = "REVIEW_REQUIRED" => snap'[s].gated)
  \/ snap[s].status \in Claimables /\ snap'[s].status = "CONSUMING"
     /\ snap'[s].gated = snap[s].gated /\ NobodyConsumes /\ snap[s].fresh
     /\ (snap[s].status = "REVIEW_REQUIRED" => Reviewed(s))
  \/ snap[s].status = "CONSUMING" /\ snap'[s].status = "CONSUMED" /\ snap[s].live
     /\ snap'[s].gated = snap[s].gated
  \/ snap'[s].status \in {"FAILED", "EXPIRED"} /\ snap'[s].gated = snap[s].gated
     /\ (snap'[s].status = "EXPIRED" => snap[s].status \in Claimables)

\* At most one row is claimed in a step.
OneClaim ==
  \A s, t \in Snaps :
    /\ snap[s].status # "CONSUMING" /\ snap'[s].status = "CONSUMING"
    /\ snap[t].status # "CONSUMING" /\ snap'[t].status = "CONSUMING"
    => s = t

ReviewsStay == \A s \in Snaps : review[s] # "none" => review'[s] # "none"

RowSteps ==
  /\ snap' \in [Snaps -> SnapRow]
  /\ \A s \in Snaps : RowStep(s)
  /\ OneClaim

LEMMA IngestSteps == GateTypeOK /\ Ingests => RowSteps /\ UNCHANGED <<review, decision, stmt>>
<1> SUFFICES ASSUME GateTypeOK, Ingests
             PROVE  RowSteps /\ UNCHANGED <<review, decision, stmt>>
  OBVIOUS
<1>0. snap \in [Snaps -> SnapRow] /\ \A s \in Snaps : snap[s] \in SnapRow
  BY DEF GateTypeOK
<1>1. ASSUME NEW s \in Snaps, NEW verdict \in Verdicts, Insert(s, verdict)
      PROVE  RowSteps /\ UNCHANGED <<review, decision, stmt>>
  <2>1. UNCHANGED <<review, decision, stmt>> BY <1>1 DEF Insert
  <2> QED BY <1>1, <2>1, WithInsert DEF RowSteps, RowStep, OneClaim, Verdicts
<1>2. ASSUME NEW s \in Snaps, NEW approved \in BOOLEAN, Claim(s, approved)
      PROVE  RowSteps /\ UNCHANGED <<review, decision, stmt>>
  <2>1. UNCHANGED <<review, decision, stmt>> BY <1>2 DEF Claim
  <2> QED BY <1>2, <2>1, WithClaim DEF RowSteps, RowStep, OneClaim
<1>3. ASSUME NEW s \in Snaps, Renew(s)
      PROVE  RowSteps /\ UNCHANGED <<review, decision, stmt>>
  <2>1. LiveClaim(s) /\ snap' = [snap EXCEPT ![s].live = TRUE]
        /\ UNCHANGED <<review, decision, stmt>>
    BY <1>3 DEF Renew
  <2> QED BY <2>1, WithLive DEF RowSteps, RowStep, OneClaim
<1>4. ASSUME NEW s \in Snaps, Consume(s)
      PROVE  RowSteps /\ UNCHANGED <<review, decision, stmt>>
  <2>1. LiveClaim(s) /\ snap' = [snap EXCEPT ![s].status = "CONSUMED"]
        /\ UNCHANGED <<review, decision, stmt>>
    BY <1>4 DEF Consume
  <2>2. "CONSUMED" \in SnapStatuses BY DEF SnapStatuses, Ended
  <2> QED BY <2>1, <2>2, WithStatus DEF RowSteps, RowStep, OneClaim, LiveClaim
<1>5. ASSUME NEW s \in Snaps, Fail(s)
      PROVE  RowSteps /\ UNCHANGED <<review, decision, stmt>>
  <2>1. snap' = [snap EXCEPT ![s].status = "FAILED"] /\ UNCHANGED <<review, decision, stmt>>
    BY <1>5 DEF Fail
  <2>2. "FAILED" \in SnapStatuses BY DEF SnapStatuses, Ended
  <2> QED BY <2>1, <2>2, WithStatus DEF RowSteps, RowStep, OneClaim
<1>6. ASSUME Sweep PROVE RowSteps /\ UNCHANGED <<review, decision, stmt>>
  <2>1. UNCHANGED <<review, decision, stmt>> BY <1>6 DEF Sweep
  <2> QED BY <1>6, <2>1, WithSweep DEF RowSteps, RowStep, OneClaim
<1> QED BY <1>1, <1>2, <1>3, <1>4, <1>5, <1>6 DEF Ingests

\* A statement in flight is about a snapshot.
LEMMA InFlight ==
  ASSUME GateTypeOK, NEW o \in Operators, NEW kind \in Kinds, Ends(o, kind)
  PROVE  /\ stmt[o].snap \in Snaps
         /\ stmt' \in [Operators -> [kind: Kinds, snap: Snaps] \cup {Idle}]
<1>1. stmt \in [Operators -> [kind: Kinds, snap: Snaps] \cup {Idle}] BY DEF GateTypeOK
<1>2. stmt[o].kind = kind /\ stmt' = [stmt EXCEPT ![o] = Idle] BY DEF Ends
<1>3. stmt[o] # Idle BY <1>2 DEF Idle, Kinds
<1>4. stmt[o] \in [kind: Kinds, snap: Snaps] BY <1>1, <1>3
<1>5. stmt' \in [Operators -> [kind: Kinds, snap: Snaps] \cup {Idle}] BY <1>1, <1>2
<1> QED BY <1>4, <1>5

Reviews == {"none", "current", "expired"}
Decisions == {"none", "DEFERRED", "REJECTED"}

RestOK ==
  /\ review' \in [Snaps -> Reviews]
  /\ decision' \in [Snaps -> Decisions]
  /\ stmt' \in [Operators -> [kind: Kinds, snap: Snaps] \cup {Idle}]

LEMMA SnapsKept == ASSUME GateTypeOK, UNCHANGED snap PROVE RowSteps
<1>1. snap' \in [Snaps -> SnapRow] BY DEF GateTypeOK
<1> QED BY <1>1 DEF RowSteps, RowStep, OneClaim

LEMMA OperatorSteps ==
  ASSUME GateTypeOK, NEW o \in Operators, Operates(o)
  PROVE  RowSteps /\ RestOK /\ ReviewsStay
<1>0. /\ review \in [Snaps -> Reviews] /\ decision \in [Snaps -> Decisions]
      /\ stmt \in [Operators -> [kind: Kinds, snap: Snaps] \cup {Idle}]
  BY DEF GateTypeOK, Reviews, Decisions
<1>1. ASSUME NEW s \in Snaps, NEW kind \in Kinds, Look(o, s, kind)
      PROVE  RowSteps /\ RestOK /\ ReviewsStay
  <2>1. /\ stmt' = [stmt EXCEPT ![o] = [kind |-> kind, snap |-> s]]
        /\ UNCHANGED <<snap, review, decision>>
    BY <1>1 DEF Look
  <2>2. [kind |-> kind, snap |-> s] \in [kind: Kinds, snap: Snaps] OBVIOUS
  <2>3. stmt' \in [Operators -> [kind: Kinds, snap: Snaps] \cup {Idle}] BY <1>0, <2>1, <2>2
  <2>4. RestOK BY <1>0, <2>1, <2>3 DEF RestOK
  <2> QED BY <2>1, <2>4, SnapsKept DEF ReviewsStay
<1>2. ASSUME Approve(o) PROVE RowSteps /\ RestOK /\ ReviewsStay
  <2> DEFINE s == stmt[o].snap
             new == IF snap[s].fresh THEN "current" ELSE "expired"
  <2>1. /\ Ends(o, "approve") /\ review' = [review EXCEPT ![s] = new]
        /\ UNCHANGED <<snap, decision>>
    BY <1>2 DEF Approve
  <2>2. "approve" \in Kinds BY DEF Kinds
  <2>3. s \in Snaps /\ stmt' \in [Operators -> [kind: Kinds, snap: Snaps] \cup {Idle}]
    BY <2>1, <2>2, InFlight
  <2>4. new \in Reviews \ {"none"} BY DEF Reviews
  <2>5. RestOK /\ ReviewsStay
    <3> HIDE DEF s, new
    <3> QED BY <1>0, <2>1, <2>3, <2>4 DEF RestOK, ReviewsStay
  <2> QED BY <2>1, <2>5, SnapsKept
<1>3. ASSUME Defer(o) PROVE RowSteps /\ RestOK /\ ReviewsStay
  <2>1. /\ Ends(o, "defer") /\ decision' = [decision EXCEPT ![stmt[o].snap] = "DEFERRED"]
        /\ UNCHANGED <<snap, review>>
    BY <1>3 DEF Defer
  <2>2. "defer" \in Kinds BY DEF Kinds
  <2>3. stmt' \in [Operators -> [kind: Kinds, snap: Snaps] \cup {Idle}]
    BY <2>1, <2>2, InFlight
  <2>4. RestOK BY <1>0, <2>1, <2>3 DEF RestOK, Decisions
  <2> QED BY <2>1, <2>4, SnapsKept DEF ReviewsStay
<1>4. ASSUME Reject(o) PROVE RowSteps /\ RestOK /\ ReviewsStay
  <2> DEFINE s == stmt[o].snap
  <2>1. /\ Ends(o, "reject") /\ decision' = [decision EXCEPT ![s] = "REJECTED"]
        /\ snap' = [snap EXCEPT ![s].status = "FAILED"] /\ UNCHANGED review
    BY <1>4 DEF Reject
  <2>2. "reject" \in Kinds BY DEF Kinds
  <2>3. s \in Snaps /\ stmt' \in [Operators -> [kind: Kinds, snap: Snaps] \cup {Idle}]
    BY <2>1, <2>2, InFlight
  <2>4. "FAILED" \in SnapStatuses BY DEF SnapStatuses, Ended
  <2>5. RowSteps
    <3> HIDE DEF s
    <3> QED BY <2>1, <2>3, <2>4, WithStatus DEF RowSteps, RowStep, OneClaim
  <2>6. RestOK BY <1>0, <2>1, <2>3 DEF RestOK, Decisions
  <2> QED BY <2>1, <2>5, <2>6 DEF ReviewsStay
<1>5. ASSUME Refused(o) PROVE RowSteps /\ RestOK /\ ReviewsStay
  <2>1. stmt' = [stmt EXCEPT ![o] = Idle] /\ UNCHANGED <<snap, review, decision>>
    BY <1>5 DEF Refused
  <2>2. RestOK BY <1>0, <2>1 DEF RestOK
  <2> QED BY <2>1, <2>2, SnapsKept DEF ReviewsStay
<1> QED BY <1>1, <1>2, <1>3, <1>4, <1>5 DEF Operates

LEMMA ClockSteps == ASSUME GateTypeOK, Ages PROVE RowSteps /\ RestOK /\ ReviewsStay
<1>0. /\ review \in [Snaps -> Reviews] /\ decision \in [Snaps -> Decisions]
      /\ stmt \in [Operators -> [kind: Kinds, snap: Snaps] \cup {Idle}]
  BY DEF GateTypeOK, Reviews, Decisions
<1>1. ASSUME NEW s \in Snaps, Lapse(s) PROVE RowSteps /\ RestOK /\ ReviewsStay
  <2>1. LiveClaim(s) /\ snap' = [snap EXCEPT ![s].live = FALSE]
        /\ UNCHANGED <<review, decision, stmt>>
    BY <1>1 DEF Lapse
  <2>2. RestOK BY <1>0, <2>1 DEF RestOK
  <2> QED BY <2>1, <2>2, WithLive DEF RowSteps, RowStep, OneClaim, ReviewsStay
<1>2. ASSUME NEW s \in Snaps, ExpireReview(s) PROVE RowSteps /\ RestOK /\ ReviewsStay
  <2>1. review' = [review EXCEPT ![s] = "expired"] /\ UNCHANGED <<snap, decision, stmt>>
    BY <1>2 DEF ExpireReview
  <2>2. RestOK /\ ReviewsStay BY <1>0, <2>1 DEF RestOK, ReviewsStay, Reviews
  <2> QED BY <2>1, <2>2, SnapsKept
<1>3. ASSUME NEW s \in Snaps, Expire(s) PROVE RowSteps /\ RestOK /\ ReviewsStay
  <2> DEFINE new == IF review[s] = "none" THEN "none" ELSE "expired"
  <2>1. snap' = [snap EXCEPT ![s].fresh = FALSE] /\ UNCHANGED <<decision, stmt>>
    BY <1>3 DEF Expire
  <2>2. review' = [review EXCEPT ![s] = new] BY <1>3 DEF Expire
  <2>3. RestOK /\ ReviewsStay BY <1>0, <2>1, <2>2 DEF RestOK, ReviewsStay, Reviews
  <2> QED BY <2>1, <2>3, WithFresh DEF RowSteps, RowStep, OneClaim
<1> QED BY <1>1, <1>2, <1>3 DEF Ages

\* Every step of the gate, and none at all.
LEMMA GateSteps == ASSUME GateTypeOK, [GateNext]_gateVars PROVE RowSteps /\ RestOK /\ ReviewsStay
<1>0. /\ review \in [Snaps -> Reviews] /\ decision \in [Snaps -> Decisions]
      /\ stmt \in [Operators -> [kind: Kinds, snap: Snaps] \cup {Idle}]
  BY DEF GateTypeOK, Reviews, Decisions
<1>1. CASE Ingests
  <2>1. RowSteps /\ UNCHANGED <<review, decision, stmt>> BY <1>1, IngestSteps
  <2> QED BY <1>0, <2>1 DEF RestOK, ReviewsStay
<1>2. CASE UNCHANGED gateVars
  <2>1. UNCHANGED <<snap, review, decision, stmt>> BY <1>2 DEF gateVars
  <2> QED BY <1>0, <2>1, SnapsKept DEF RestOK, ReviewsStay
<1> QED BY <1>1, <1>2, OperatorSteps, ClockSteps DEF GateNext

\* A statement starts at a snapshot that waits for a review, and stays at it.
LEMMA FlightSteps ==
  ASSUME GateTypeOK, [GateNext]_gateVars, NEW o \in Operators, stmt'[o] # Idle
  PROVE  \/ stmt'[o] = stmt[o]
         \/ /\ stmt'[o].snap \in Snaps /\ UNCHANGED snap
            /\ snap[stmt'[o].snap].status = "REVIEW_REQUIRED"
<1> DEFINE Stays == stmt'[o] = stmt[o]
           Starts == /\ stmt'[o].snap \in Snaps /\ UNCHANGED snap
                     /\ snap[stmt'[o].snap].status = "REVIEW_REQUIRED"
<1>0. stmt \in [Operators -> [kind: Kinds, snap: Snaps] \cup {Idle}] BY DEF GateTypeOK
<1>1. CASE UNCHANGED gateVars BY <1>1 DEF gateVars
<1>2. CASE Ingests BY <1>2, IngestSteps
<1>3. CASE Ages BY <1>3 DEF Ages, Lapse, ExpireReview, Expire
<1>4. ASSUME NEW q \in Operators, Operates(q) PROVE Stays \/ Starts
  <2>1. ASSUME NEW s \in Snaps, NEW kind \in Kinds, Look(q, s, kind)
        PROVE  Stays \/ Starts
    <3>1. /\ stmt' = [stmt EXCEPT ![q] = [kind |-> kind, snap |-> s]] /\ UNCHANGED snap
          /\ snap[s].status = "REVIEW_REQUIRED"
      BY <2>1 DEF Look
    <3>2. CASE o = q
      <4>1. stmt'[o].snap = s BY <1>0, <3>1, <3>2
      <4> QED BY <3>1, <4>1
    <3>3. CASE o # q BY <1>0, <3>1, <3>3
    <3> QED BY <3>2, <3>3
  <2>2. CASE Approve(q) \/ Defer(q) \/ Reject(q) \/ Refused(q)
    <3>1. stmt' = [stmt EXCEPT ![q] = Idle]
      BY <2>2 DEF Approve, Defer, Reject, Refused, Ends
    <3> QED BY <1>0, <3>1
  <2> QED BY <1>4, <2>1, <2>2 DEF Operates
<1> QED BY <1>1, <1>2, <1>3, <1>4 DEF GateNext

-----------------------------------------------------------------------------

LEMMA GateInvInit == GateInit => GateInv
<1> SUFFICES ASSUME GateInit PROVE GateInv
  OBVIOUS
<1>1. NoRow \in SnapRow BY DEF NoRow, SnapRow, SnapStatuses
<1>2. snap = [s \in Snaps |-> NoRow] /\ \A s \in Snaps : snap[s].status = "absent"
  BY DEF GateInit, NoRow
<1>3. GateTypeOK BY <1>1 DEF GateInit, GateTypeOK
<1>4. \A s \in Snaps : snap[s] = NoRow /\ ~snap[s].gated BY <1>2 DEF NoRow
<1>5. FlightsGated BY DEF GateInit, FlightsGated
<1> QED BY <1>2, <1>3, <1>4, <1>5
     DEF GateInv, OneConsumer, PlansKnown, GatedAreReviewed

LEMMA GateInvStep == GateInv /\ [GateNext]_gateVars => GateInv'
<1> SUFFICES ASSUME GateInv, [GateNext]_gateVars PROVE GateInv'
  OBVIOUS
<1>1. GateTypeOK /\ OneConsumer /\ PlansKnown /\ GatedAreReviewed /\ FlightsGated
  BY DEF GateInv
<1>2. RowSteps /\ RestOK /\ ReviewsStay BY <1>1, GateSteps
<1>3. \A s \in Snaps : RowStep(s) BY <1>2 DEF RowSteps
<1>4. GateTypeOK' BY <1>2 DEF RowSteps, RestOK, GateTypeOK, Reviews, Decisions
<1>5. OneConsumer'
  <2> SUFFICES ASSUME NEW s \in Snaps, NEW t \in Snaps,
                      snap'[s].status = "CONSUMING", snap'[t].status = "CONSUMING"
               PROVE  s = t
    BY DEF OneConsumer
  <2>1. ASSUME NEW u \in Snaps, snap'[u].status = "CONSUMING"
        PROVE  snap[u].status = "CONSUMING" \/ NobodyConsumes
    <3> QED BY <1>3, <2>1 DEF RowStep, Verdicts
  <2>2. CASE NobodyConsumes
    BY <1>2, <2>2 DEF RowSteps, OneClaim, NobodyConsumes
  <2>3. CASE ~NobodyConsumes
    BY <1>1, <2>1, <2>3 DEF OneConsumer
  <2> QED BY <2>2, <2>3
<1>6. PlansKnown'
  <2> SUFFICES ASSUME NEW s \in Snaps
               PROVE  /\ snap'[s].status \in {"absent", "PREPARED"} => ~snap'[s].gated
                      /\ snap'[s].status = "REVIEW_REQUIRED" => snap'[s].gated
    BY DEF PlansKnown
  <2> QED BY <1>1, <1>3 DEF RowStep, PlansKnown, Verdicts
<1>7. GatedAreReviewed'
  <2> SUFFICES ASSUME NEW s \in Snaps, snap'[s].gated,
                      snap'[s].status \in {"CONSUMING", "CONSUMED"}
               PROVE  review'[s] # "none"
    BY DEF GatedAreReviewed
  <2>1. RowStep(s) /\ (review[s] # "none" => review'[s] # "none")
    BY <1>2, <1>3 DEF ReviewsStay
  <2> QED BY <1>1, <2>1
       DEF RowStep, GatedAreReviewed, PlansKnown, Claimables, Reviewed, Verdicts
<1>8. FlightsGated'
  <2> SUFFICES ASSUME NEW o \in Operators, stmt'[o] # Idle PROVE snap'[stmt'[o].snap].gated
    BY DEF FlightsGated
  <2>1. CASE stmt'[o] = stmt[o]
    <3>1. stmt[o].snap \in Snaps BY <1>1, <2>1 DEF GateTypeOK
    <3>2. snap[stmt[o].snap].gated BY <1>1, <2>1 DEF FlightsGated
    <3>3. PICK s \in Snaps : s = stmt[o].snap BY <3>1
    <3>4. RowStep(s) BY <1>3
    <3>5. snap[s].status # "absent" BY <1>1, <3>2, <3>3 DEF PlansKnown
    <3>6. snap'[s].gated = snap[s].gated BY <3>4, <3>5 DEF RowStep
    <3> QED BY <2>1, <3>2, <3>3, <3>6
  <2>2. CASE stmt'[o] # stmt[o]
    BY <1>1, <2>2, FlightSteps DEF PlansKnown
  <2> QED BY <2>1, <2>2
<1> QED BY <1>4, <1>5, <1>6, <1>7, <1>8 DEF GateInv

\* The gate keeps its rows typed, lets one ingest consume at a time and no
\* gated plan through without a review, for any numbers of snapshots and operators.
THEOREM GateInvariant == GateSpec => []GateInv
<1> QED BY GateInvInit, GateInvStep, PTL DEF GateSpec

\* Every table of the gate holds rows of its shape.
THEOREM GateTypes == GateSpec => []GateTypeOK
<1>1. GateInv => GateTypeOK BY DEF GateInv
<1> QED BY GateInvariant, <1>1, PTL

\* Two ingests of a project never consume at the same time.
THEOREM ConsumersExclude == GateSpec => []OneConsumer
<1>1. GateInv => OneConsumer BY DEF GateInv
<1> QED BY GateInvariant, <1>1, PTL

\* A plan that deletes without evidence is claimed only under a review of it that
\* has not run out, and before the snapshot itself has.
THEOREM ReviewsGate == GateSpec => ReviewGates
<1> DEFINE A == \A s \in Snaps :
       snap[s].status # "CONSUMING" /\ snap'[s].status = "CONSUMING" /\ snap'[s].gated
         => review[s] = "current" /\ snap[s].fresh
<1>1. GateInv /\ [GateNext]_gateVars => [A]_gateVars
  <2> SUFFICES ASSUME GateInv, [GateNext]_gateVars, NEW s \in Snaps,
                      snap[s].status # "CONSUMING", snap'[s].status = "CONSUMING",
                      snap'[s].gated
               PROVE  review[s] = "current" /\ snap[s].fresh
    OBVIOUS
  <2>1. RowStep(s) /\ PlansKnown BY GateSteps DEF GateInv, RowSteps
  <2> QED BY <2>1 DEF RowStep, PlansKnown, Reviewed, Claimables, Verdicts
<1> QED BY GateInvariant, <1>1, PTL DEF GateSpec, ReviewGates

\* A snapshot whose lease ran out can only be failed.
THEOREM AbandonedFails == GateSpec => AbandonedOnlyFails
<1> DEFINE A == \A s \in Snaps :
       snap[s].status = "CONSUMING" /\ ~snap[s].live
         => \/ snap'[s].status = "CONSUMING" /\ ~snap'[s].live
            \/ snap'[s].status = "FAILED"
<1>1. GateInv /\ [GateNext]_gateVars => [A]_gateVars
  <2> SUFFICES ASSUME GateInv, [GateNext]_gateVars, NEW s \in Snaps,
                      snap[s].status = "CONSUMING", ~snap[s].live
               PROVE  \/ snap'[s].status = "CONSUMING" /\ ~snap'[s].live
                      \/ snap'[s].status = "FAILED"
    OBVIOUS
  <2>1. RowStep(s) BY GateSteps DEF GateInv, RowSteps
  <2>2. CASE snap'[s].status \in {"FAILED", "EXPIRED"}
    BY <2>1, <2>2 DEF RowStep, Claimables, Verdicts
  <2>3. CASE snap'[s].status = "CONSUMING"
    BY <2>1, <2>3, Zenon DEF RowStep, LiveClaim, Claimables
  <2> QED BY <2>1, <2>2, <2>3 DEF RowStep, Claimables
<1> QED BY GateInvariant, <1>1, PTL DEF GateSpec, AbandonedOnlyFails

\* No ended snapshot comes back into play.
THEOREM EndingsStay == GateSpec => EndedStaysEnded
<1> DEFINE A == \A s \in Snaps : snap[s].status \in Ended => snap'[s].status \in Ended
<1>1. GateInv /\ [GateNext]_gateVars => [A]_gateVars
  <2> SUFFICES ASSUME GateInv, [GateNext]_gateVars, NEW s \in Snaps, snap[s].status \in Ended
               PROVE  snap'[s].status \in Ended
    OBVIOUS
  <2>1. RowStep(s) BY GateSteps DEF GateInv, RowSteps
  <2> QED BY <2>1 DEF RowStep, Ended, Claimables
<1> QED BY GateInvariant, <1>1, PTL DEF GateSpec, EndedStaysEnded

-----------------------------------------------------------------------------
(* What can happen to a completed ingest's snapshot.                        *)

\* Only a rejection takes a snapshot out of CONSUMED: the sweep and the ingests
\* test the status they replace.
LEMMA OnlyRejectionsRewrite ==
  ASSUME GateTypeOK, [GateNext]_gateVars, NEW s \in Snaps,
         snap[s].status = "CONSUMED", snap'[s].status # "CONSUMED"
  PROVE  \E o \in Operators : Reject(o) /\ stmt[o].snap = s
<1>0. snap \in [Snaps -> SnapRow] BY DEF GateTypeOK
<1>1. CASE UNCHANGED snap BY <1>1
<1>2. ASSUME NEW t \in Snaps, NEW verdict \in Verdicts, Insert(t, verdict) PROVE FALSE
  BY <1>2, WithInsert
<1>3. ASSUME NEW t \in Snaps, NEW approved \in BOOLEAN, Claim(t, approved) PROVE FALSE
  BY <1>3, WithClaim DEF Claimables
<1>4. ASSUME NEW t \in Snaps, Renew(t) \/ Lapse(t) PROVE FALSE
  <2>1. PICK b \in BOOLEAN : snap' = [snap EXCEPT ![t].live = b] BY <1>4 DEF Renew, Lapse
  <2> QED BY <2>1, WithLive
<1>5. ASSUME NEW t \in Snaps, Consume(t) \/ Fail(t) PROVE FALSE
  <2>1. snap[t].status # "CONSUMED" BY <1>5 DEF Consume, Fail, LiveClaim, Ended
  <2>2. PICK st \in SnapStatuses : snap' = [snap EXCEPT ![t].status = st]
    BY <1>5 DEF Consume, Fail, SnapStatuses, Ended
  <2> QED BY <2>1, <2>2, WithStatus
<1>6. CASE Sweep BY <1>6, WithSweep DEF Claimables
<1>7. ASSUME NEW t \in Snaps, Expire(t) PROVE FALSE
  <2>1. snap' = [snap EXCEPT ![t].fresh = FALSE] BY <1>7 DEF Expire
  <2> QED BY <2>1, WithFresh
<1>8. ASSUME NEW o \in Operators, Reject(o) PROVE Reject(o) /\ stmt[o].snap = s
  <2>1. stmt[o].snap \in Snaps /\ snap' = [snap EXCEPT ![stmt[o].snap].status = "FAILED"]
    BY <1>8, InFlight DEF Reject, Kinds
  <2>2. "FAILED" \in SnapStatuses BY DEF SnapStatuses, Ended
  <2> QED BY <1>8, <2>1, <2>2, WithStatus
<1>9. ASSUME NEW o \in Operators, Operates(o), ~Reject(o) PROVE UNCHANGED snap
  BY <1>9 DEF Operates, Look, Approve, Defer, Refused
<1>10. ASSUME NEW t \in Snaps, ExpireReview(t) PROVE UNCHANGED snap
  BY <1>10 DEF ExpireReview
<1>11. CASE Ingests BY <1>2, <1>3, <1>4, <1>5, <1>6, <1>11 DEF Ingests
<1>12. CASE Ages BY <1>1, <1>4, <1>7, <1>10, <1>12 DEF Ages
<1>13. CASE UNCHANGED gateVars BY <1>1, <1>13 DEF gateVars
<1> QED BY <1>1, <1>8, <1>9, <1>11, <1>12, <1>13 DEF GateNext

\* Only a new row's gated flag is written.
LEMMA GatedFrozen ==
  ASSUME GateTypeOK, NEW s \in Snaps,
         \/ \E t \in Snaps, approved \in BOOLEAN : Claim(t, approved)
         \/ \E t \in Snaps : Fail(t) \/ Consume(t)
         \/ Sweep \/ Ages \/ (\E o \in Operators : Operates(o)) \/ UNCHANGED snap
  PROVE  snap'[s].gated = snap[s].gated
<1>1. ASSUME NEW t \in Snaps, NEW approved \in BOOLEAN, Claim(t, approved)
      PROVE  snap'[s].gated = snap[s].gated
  BY <1>1, WithClaim
<1>2. ASSUME NEW t \in Snaps, Fail(t) \/ Consume(t) PROVE snap'[s].gated = snap[s].gated
  <2>1. PICK st \in SnapStatuses : snap' = [snap EXCEPT ![t].status = st]
    BY <1>2 DEF Consume, Fail, SnapStatuses, Ended
  <2> QED BY <2>1, WithStatus
<1>3. CASE Sweep BY <1>3, WithSweep
<1>4. ASSUME NEW t \in Snaps, Lapse(t) PROVE snap'[s].gated = snap[s].gated
  <2>1. snap' = [snap EXCEPT ![t].live = FALSE] BY <1>4 DEF Lapse
  <2> QED BY <2>1, WithLive
<1>5. ASSUME NEW t \in Snaps, Expire(t) PROVE snap'[s].gated = snap[s].gated
  <2>1. snap' = [snap EXCEPT ![t].fresh = FALSE] BY <1>5 DEF Expire
  <2> QED BY <2>1, WithFresh
<1>6. CASE Ages BY <1>4, <1>5, <1>6 DEF Ages, ExpireReview
<1>7. ASSUME NEW o \in Operators, Operates(o) PROVE snap'[s].gated = snap[s].gated
  <2>1. CASE Reject(o)
    <3>1. stmt[o].snap \in Snaps /\ snap' = [snap EXCEPT ![stmt[o].snap].status = "FAILED"]
      BY <2>1, InFlight DEF Reject, Kinds
    <3>2. "FAILED" \in SnapStatuses BY DEF SnapStatuses, Ended
    <3> QED BY <3>1, <3>2, WithStatus
  <2>2. CASE ~Reject(o) BY <1>7, <2>2 DEF Operates, Look, Approve, Defer, Refused
  <2> QED BY <2>1, <2>2
<1> QED BY <1>1, <1>2, <1>3, <1>6, <1>7

\* Only Consume makes a snapshot consumed.
LEMMA NothingElseConsumes ==
  ASSUME GateTypeOK, NEW s \in Snaps, snap'[s].status = "CONSUMED",
         \/ \E t \in Snaps, verdict \in Verdicts : Insert(t, verdict)
         \/ \E t \in Snaps, approved \in BOOLEAN : Claim(t, approved)
         \/ \E t \in Snaps : Fail(t)
         \/ Sweep \/ Ages \/ (\E o \in Operators : Operates(o)) \/ UNCHANGED snap
  PROVE  snap[s].status = "CONSUMED"
<1>1. ASSUME NEW t \in Snaps, NEW verdict \in Verdicts, Insert(t, verdict)
      PROVE  snap[s].status = "CONSUMED"
  BY <1>1, WithInsert DEF Verdicts
<1>2. ASSUME NEW t \in Snaps, NEW approved \in BOOLEAN, Claim(t, approved)
      PROVE  snap[s].status = "CONSUMED"
  BY <1>2, WithClaim
<1>3. "FAILED" \in SnapStatuses BY DEF SnapStatuses, Ended
<1>4. ASSUME NEW t \in Snaps, Fail(t) PROVE snap[s].status = "CONSUMED"
  <2>1. snap' = [snap EXCEPT ![t].status = "FAILED"] BY <1>4 DEF Fail
  <2> QED BY <1>3, <2>1, WithStatus
<1>5. CASE Sweep BY <1>5, WithSweep
<1>6. CASE Ages
  <2>1. ASSUME NEW t \in Snaps, Lapse(t) PROVE snap[s].status = "CONSUMED"
    <3>1. snap' = [snap EXCEPT ![t].live = FALSE] BY <2>1 DEF Lapse
    <3> QED BY <3>1, WithLive
  <2>2. ASSUME NEW t \in Snaps, Expire(t) PROVE snap[s].status = "CONSUMED"
    <3>1. snap' = [snap EXCEPT ![t].fresh = FALSE] BY <2>2 DEF Expire
    <3> QED BY <3>1, WithFresh
  <2> QED BY <1>6, <2>1, <2>2 DEF Ages, ExpireReview
<1>7. ASSUME NEW o \in Operators, Operates(o) PROVE snap[s].status = "CONSUMED"
  <2>1. CASE Reject(o)
    <3>1. stmt[o].snap \in Snaps /\ snap' = [snap EXCEPT ![stmt[o].snap].status = "FAILED"]
      BY <2>1, InFlight DEF Reject, Kinds
    <3> QED BY <1>3, <3>1, WithStatus
  <2>2. CASE ~Reject(o) BY <1>7, <2>2 DEF Operates, Look, Approve, Defer, Refused
  <2> QED BY <2>1, <2>2
<1> QED BY <1>1, <1>2, <1>4, <1>5, <1>6, <1>7

\* The outcome of a completed ingest is rewritten only by a rejection, and only of
\* a snapshot that somebody has approved: the race of two reviews, which the code
\* does not exclude, is the one way to it.
THEOREM ConsumedStaysConsumed == GateSpec => ConsumedIsFinal
<1> DEFINE A == \A s \in Snaps :
       snap[s].status = "CONSUMED" /\ snap'[s].status # "CONSUMED"
         => /\ review[s] # "none"
            /\ decision[s] = "none" /\ decision'[s] = "REJECTED"
<1>1. GateInv /\ [GateNext]_gateVars => [A]_gateVars
  <2> SUFFICES ASSUME GateInv, [GateNext]_gateVars, NEW s \in Snaps,
                      snap[s].status = "CONSUMED", snap'[s].status # "CONSUMED"
               PROVE  /\ review[s] # "none"
                      /\ decision[s] = "none" /\ decision'[s] = "REJECTED"
    OBVIOUS
  <2>1. GateTypeOK /\ GatedAreReviewed /\ FlightsGated BY DEF GateInv
  <2>2. PICK o \in Operators : Reject(o) /\ stmt[o].snap = s BY <2>1, OnlyRejectionsRewrite
  <2>3. snap[s].gated BY <2>1, <2>2 DEF FlightsGated, Reject, Ends, Idle
  <2>4. review[s] # "none" BY <2>1, <2>3 DEF GatedAreReviewed
  <2>5. decision \in [Snaps -> Decisions] BY <2>1 DEF GateTypeOK, Decisions
  <2>6. decision[s] = "none" /\ decision' = [decision EXCEPT ![s] = "REJECTED"]
    BY <2>2 DEF Reject
  <2> QED BY <2>4, <2>5, <2>6
<1> QED BY GateInvariant, <1>1, PTL DEF GateSpec, ConsumedIsFinal

=============================================================================
