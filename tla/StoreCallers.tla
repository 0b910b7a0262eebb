---------------------------- MODULE StoreCallers ----------------------------
(***************************************************************************)
(* The watch table under any caller: every store method may be invoked at  *)
(* any time with any argument it accepts, so what holds here the purchase  *)
(* handler, the reconciler and the poller keep whatever they race with,    *)
(* and whatever stale copies of a row they act on.                         *)
(***************************************************************************)
EXTENDS WatchStore

CONSTANTS
    Rounds,      \* rounds callers pass
    MaxAttempts  \* bound on the two failure counters

ASSUME CallersAssumption ==
    /\ Rounds \subseteq Nat
    /\ MaxAttempts \in Nat

VARIABLE db   \* the watch table

Prepare(w) ==
    /\ db[w].state = "absent"
    /\ \E k \in Keys, s \in Specs, t \in Opt(Txs) :
        /\ PrepareOutcome(db, w, k, s, t) = "created"
        /\ db' = PrepareWatch(db, w, k, s, t, 0)

Candidate(w) ==
    \E t \in Txs :
        /\ CandidateAccepted(db, w, t)
        /\ db' = RecordSettlementCandidate(db, w, t)

Activate(w) ==
    \E t \in Txs, round \in Rounds :
        /\ ActivationAccepted(db, w, t)
        /\ db' = ActivateWatch(db, w, t, round)

ReconcileOutcome(w) ==
    \/ db' = MarkSettlementUnknown(db, w)
    \/ db' = MarkSettlementInvalid(db, w)
    \/ db[w].attempts < MaxAttempts /\ db' = RecordReconciliationFailure(db, w)
    \/ db' = ReconcileRetryDue(db, w)

Claim(w) ==
    \/ \E t \in Txs, attempts \in 0..MaxAttempts :
         db' = ClaimWorkUnit(db, w, ReconciliationEligible(db[w], t, attempts))
    \/ \E scanAfter \in Rounds, closing \in Opt(Rounds), failures \in 0..MaxAttempts :
         db' = ClaimWorkUnit(db, w, PollingEligible(db[w], scanAfter, closing, failures))

PollFailed(w) ==
    \/ db[w].failures < MaxAttempts /\ \E permanent \in BOOLEAN :
         db' = RecordPollingFailure(db, w, permanent)
    \/ db' = ClearPollingFailure(db, w)
    \/ db' = PollRetryDue(db, w)

PollOutcome(w) ==
    \E expected, round \in Rounds :
        \/ db' = MarkMatched(db, w, round)
        \/ db' = AdvanceScanRound(db, w, expected, round)
        \/ db' = SetClosingRound(db, w, round)
        \/ db' = MarkExpired(db, w, expected, round)

CallersInit == db = EmptyTable

CallersNext ==
    \E w \in Watches :
        \/ Prepare(w)
        \/ Candidate(w)
        \/ Activate(w)
        \/ ReconcileOutcome(w)
        \/ Claim(w)
        \/ PollFailed(w)
        \/ PollOutcome(w)

CallersSpec == CallersInit /\ [][CallersNext]_db

-----------------------------------------------------------------------------
(* Type invariant of the table. *)
TableTypeOK == db \in [Watches -> Row]

(* Admission control: the obligations the service has taken on never       *)
(* exceed the global cap, nor those sold to one payer with a verified      *)
(* intent the payer's cap, although rows also reopen, change state and     *)
(* gain payers after admission.                                            *)
CapsRespected ==
    /\ Cardinality(OpenWatches(db)) <= MaxOpenWatches
    /\ \A p \in Payers :
         Cardinality({w \in OpenWatchesOf(db, p) : db[w].proof}) <= MaxOpenWatchesPerPayer

(* One payer never holds two watches under one idempotency key, and one    *)
(* signed payment is never the expected or the service payment of two.     *)
NoSharedReservation ==
    \A v, w \in Watches :
        v # w =>
            /\ db[v].tx # None => db[v].tx # db[w].tx
            /\ db[v].serviceTx # None => db[v].serviceTx # db[w].serviceTx
            /\ db[v].payer # None /\ db[v].payer = db[w].payer => db[v].key # db[w].key

(* A watch never works beyond its budget, and is only closed for want of   *)
(* budget when all of it was spent.                                        *)
BudgetRespected ==
    \A w \in Watches :
        /\ db[w].used <= WorkUnitBudget
        /\ db[w].reason = "work_budget_exhausted" => db[w].used = WorkUnitBudget

(* An expired watch was scanned through its closing round, starting at the *)
(* round of the payment that activated it.                                 *)
ExpiredWasScanned ==
    \A w \in Watches :
        db[w].state = "expired" =>
            /\ db[w].closing # None
            /\ db[w].scanAfter >= db[w].closing
            /\ db[w].scanAfter >= db[w].activationRound
            /\ db[w].serviceTx # None

(* Whatever is called, every row only progresses: its terms and its payment *)
(* stay, the cursor never moves back, the checkpoint never moves, no work   *)
(* unit is refunded and no outcome is revised.                              *)
RowOnlyProgresses == [][\A w \in Watches : Progresses(db[w], db'[w])]_db

=============================================================================
