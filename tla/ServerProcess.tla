--------------------------- MODULE ServerProcess -----------------------------
(***************************************************************************)
(* What every actor of the server process shares: the durable table, which *)
(* outlives the process, and the world it runs in.  A crash can happen     *)
(* between any two actions; each component says what memory it loses.      *)
(***************************************************************************)
EXTENDS OutsideWorld

CONSTANT MaxCrashes   \* bound on process crashes

ASSUME ProcessAssumption == MaxCrashes \in Nat

VARIABLES
    db,       \* the watch table: a row for each identifier
    crashes   \* crashes of the process so far

ProcessInit ==
    /\ db = EmptyTable
    /\ crashes = 0
    /\ LedgerInit

(* The part of a crash that is common to all components. *)
ProcessDies ==
    /\ crashes < MaxCrashes
    /\ crashes' = crashes + 1
    /\ UNCHANGED <<db, ledgerVars>>

=============================================================================
