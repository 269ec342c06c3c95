--------------------------- MODULE PublishedBuilds ---------------------------
(***************************************************************************)
(* What readers of the project index are promised, and nothing of how it   *)
(* is kept.  Builds are numbered in the order they are published; what a   *)
(* build shows of each file is fixed when it is published; one build is    *)
(* published from the first publication on; a collected build shows        *)
(* nothing, and the collector never takes the build that was published     *)
(* just before the present one, so a reader bound to a build survives one  *)
(* publication.                                                            *)
(***************************************************************************)
EXTENDS Naturals

CONSTANTS Builds,     \* the numbers builds may get: 1 .. some bound
          Views,      \* what a build may show
          Nothing     \* what no build and a collected build show

VARIABLES state,      \* of each build: none, published, retired, collected
          shown       \* of each build: what it shows

vars == <<state, shown>>

States == {"none", "published", "retired", "collected"}

(* The index starts empty, or with the build the migration of an older     *)
(* database published.                                                     *)
Init ==
  \/ /\ state = [b \in Builds |-> "none"]
     /\ shown = [b \in Builds |-> Nothing]
  \/ \E view \in Views :
       /\ state = [b \in Builds |-> IF b = 1 THEN "published" ELSE "none"]
       /\ shown = [b \in Builds |-> IF b = 1 THEN view ELSE Nothing]

(* The number a publication gets.                                          *)
IsNext(b) == \A c \in Builds : (state[c] = "none") <=> (c >= b)

Publish(b, view) ==
  /\ IsNext(b)
  /\ state' = [c \in Builds |->
                 CASE c = b -> "published"
                   [] state[c] = "published" -> "retired"
                   [] OTHER -> state[c]]
  /\ shown' = [shown EXCEPT ![b] = view]

(* A retired build that another retired build was published after.         *)
Collectable(b) ==
  /\ state[b] = "retired"
  /\ \E c \in Builds : c > b /\ state[c] = "retired"

Collect(S) ==
  /\ \A b \in S : Collectable(b)
  /\ state' = [b \in Builds |-> IF b \in S THEN "collected" ELSE state[b]]
  /\ shown' = [b \in Builds |-> IF b \in S THEN Nothing ELSE shown[b]]

Next ==
  \/ \E b \in Builds, view \in Views : Publish(b, view)
  \/ \E S \in SUBSET Builds : Collect(S)

Spec == Init /\ [][Next]_vars
=============================================================================
