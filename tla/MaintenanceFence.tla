-------------------------- MODULE MaintenanceFence --------------------------
(***************************************************************************)
(* What the migration lock and the maintenance marker promise together,    *)
(* whatever runs behind them: a database is open or closed for its         *)
(* writers, it closes only when no writer is inside, a writer enters only  *)
(* while it is open, and its schema changes only while it is closed.       *)
(* Migrations implements it (Migrations!RefinesFence).                     *)
(***************************************************************************)
CONSTANT Writers

VARIABLES
    open,     \* writers may enter
    inside,   \* the writers whose transaction is under way
    schema    \* what the migrations have made of the database

fenceVars == <<open, inside, schema>>

FenceInit ==
    /\ open = TRUE
    /\ inside = {}

Shut ==
    /\ open
    /\ inside = {}
    /\ open' = FALSE
    /\ UNCHANGED <<inside, schema>>

Reopen ==
    /\ ~open
    /\ open' = TRUE
    /\ UNCHANGED <<inside, schema>>

Enter(w) ==
    /\ open
    /\ inside' = inside \cup {w}
    /\ UNCHANGED <<open, schema>>

Leave(w) ==
    /\ inside' = inside \ {w}
    /\ UNCHANGED <<open, schema>>

Migrate ==
    /\ ~open
    /\ inside = {}
    /\ schema' # schema
    /\ UNCHANGED <<open, inside>>

FenceNext ==
    \/ Shut \/ Reopen \/ Migrate
    \/ \E w \in Writers : Enter(w) \/ Leave(w)

FenceSpec == FenceInit /\ [][FenceNext]_fenceVars
=============================================================================
