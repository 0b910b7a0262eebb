----------------------------- MODULE RoundWatch -----------------------------
(***************************************************************************)
(* The service: purchases, the settlement reconciler and the poller run    *)
(* interleaved in one process over one watch table, one Indexer and one    *)
(* chain; a crash loses the memory of all three at once.                   *)
(***************************************************************************)
EXTENDS Settlement, Polling

vars == <<db, settlementVars, pollingVars, ledgerVars, crashes>>

Init ==
    /\ ProcessInit
    /\ SettlementInit
    /\ PollingInit

Crash ==
    /\ ProcessDies
    /\ LoseSettlementMemory
    /\ LosePollingMemory

Next ==
    \/ (PurchaseNext \/ ReconcilerNext) /\ UNCHANGED <<pollingVars, crashes>>
    \/ PollerNext /\ UNCHANGED <<settlementVars, crashes>>
    \/ (NewBlock \/ ClockTick) /\ UNCHANGED <<db, settlementVars, pollingVars, crashes>>
    \/ Crash

Spec == Init /\ [][Next]_vars

(* Both workers are driven by interval timers and all their requests end,   *)
(* with an answer or an error; nothing is assumed of buyers, facilitator,   *)
(* chain or clock.                                                          *)
FairSpec ==
    /\ Spec
    /\ WF_vars(ReconcilerStep /\ UNCHANGED <<pollingVars, crashes>>)
    /\ WF_vars(PollerStep /\ UNCHANGED <<settlementVars, crashes>>)
    /\ \A w \in Watches :
        /\ WF_vars(ReconcileDue(w) /\ UNCHANGED <<pollingVars, crashes>>)
        /\ WF_vars(PollDue(w) /\ UNCHANGED <<settlementVars, crashes>>)

-----------------------------------------------------------------------------
(* What the buyer sees of a row. *)
PhaseOf(row) ==
    CASE row.state = "absent" -> "none"
      [] Reconcilable(row) -> "reserved"
      [] Rejected(row) -> "rejected"
      [] row.state \in {"active", "matched", "expired", "indeterminate"} -> row.state

LifeOf(row) ==
    [phase |-> PhaseOf(row), spec |-> row.spec, tx |-> row.tx, proof |-> row.proof,
     expiresAt |-> row.expiresAt, activationRound |-> row.activationRound,
     matchedRound |-> row.matchedRound]

Contract == INSTANCE WatchContract WITH watch <- [w \in Watches |-> LifeOf(db[w])]

(* The service keeps the buyer's contract: every change of a row is a step *)
(* the contract allows on the chain as it is at that moment.               *)
KeepsContract == Contract!ContractSpec

(* Any open watch with a known payment ends in an outcome a buyer can read:*)
(* matched, expired, rejected or, after its work budget, indeterminate.    *)
EveryWatchConcludes ==
    \A w \in Watches :
        (Open(db[w]) /\ db[w].tx # None) ~> ~Open(db[w])

=============================================================================
