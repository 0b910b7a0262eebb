----------------------------- MODULE WatchStore -----------------------------
(***************************************************************************)
(* The durable watch table of RoundWatch (roundwatch-store.ts).  Every     *)
(* store method runs synchronously inside one SQLite statement or one      *)
(* BEGIN IMMEDIATE transaction, so each is one atomic function of the      *)
(* table: M(d, ...) is the table after method M on table d.  Methods that  *)
(* throw have a predicate that says when they do not.  The table itself is *)
(* the variable of whoever runs the methods (ServerProcess, StoreCallers). *)
(***************************************************************************)
EXTENDS Integers, FiniteSets

CONSTANTS
    Watches,                 \* row identifiers (randomUUID)
    Keys,                    \* idempotency keys
    Specs,                   \* watch specifications, compared as a whole
    Payers,                  \* service payers
    Txs,                     \* signed service payments (transaction ids)
    PayerOf,                 \* sender of a signed service payment
    MaxOpenWatches,          \* global admission cap
    MaxOpenWatchesPerPayer,  \* per-payer admission cap
    WorkUnitBudget,          \* work units granted to a new watch
    None                     \* SQL NULL

(* IndeterminateReason *)
Reasons == {"work_budget_exhausted", "indexer_permanent_failure"}

ASSUME StoreAssumption ==
    /\ IsFiniteSet(Watches)
    /\ PayerOf \in [Txs -> Payers]
    /\ MaxOpenWatches \in Nat
    /\ MaxOpenWatchesPerPayer \in Nat
    /\ WorkUnitBudget \in Nat
    /\ None \notin Watches
    /\ None \notin Payers
    /\ None \notin Txs
    /\ None \notin Int
    /\ None \notin Reasons

Opt(S) == S \cup {None}

(***************************************************************************)
(* WatchState and the columns of roundwatch_watches.  "absent" is a row    *)
(* that has not been inserted.  The deadlines polling_retry_at and         *)
(* reconciliation_next_attempt_at are kept as "still in the future".  The  *)
(* immutable service terms (payer, receiver, asset, amount, validity) are  *)
(* a function of the signed payment tx, present when evidence_version = 1. *)
(***************************************************************************)
WatchState == {"settlement_pending", "settlement_unknown", "active",
               "matched", "expired", "indeterminate"}

Row == [state            : WatchState \cup {"absent"},
        key              : Opt(Keys),
        spec             : Opt(Specs),
        tx               : Opt(Txs),      \* expected_service_transaction
        payer            : Opt(Payers),   \* expected_service_payer
        proof            : BOOLEAN,       \* evidence_version = 1
        expiresAt        : Nat,
        serviceTx        : Opt(Txs),
        servicePayer     : Opt(Payers),
        activationRound  : Opt(Nat),
        scanAfter        : Opt(Nat),
        closing          : Opt(Nat),
        matchedRound     : Opt(Nat),
        terminal         : BOOLEAN,       \* settlement_reconciliation_terminal
        attempts         : Nat,           \* reconciliation_attempts
        reconcileWaiting : BOOLEAN,
        used             : Nat,           \* work_units_used
        failures         : Nat,           \* polling_failure_count
        pollWaiting      : BOOLEAN,
        reason           : Opt(Reasons)]

NoRow == [state |-> "absent", key |-> None, spec |-> None, tx |-> None,
          payer |-> None, proof |-> FALSE, expiresAt |-> 0,
          serviceTx |-> None, servicePayer |-> None, activationRound |-> None,
          scanAfter |-> None, closing |-> None, matchedRound |-> None,
          terminal |-> FALSE, attempts |-> 0, reconcileWaiting |-> FALSE,
          used |-> 0, failures |-> 0, pollWaiting |-> FALSE, reason |-> None]

EmptyTable == [w \in Watches |-> NoRow]

Coalesce(a, b) == IF a # None THEN a ELSE b

Settling(row) == row.state \in {"settlement_pending", "settlement_unknown"}

Reconcilable(row) == Settling(row) /\ ~row.terminal

(* OPEN_OBLIGATION_PREDICATE *)
Open(row) ==
    \/ row.state \in {"settlement_pending", "active"}
    \/ row.state = "settlement_unknown" /\ ~row.terminal

OpenWatches(d) == {w \in Watches : Open(d[w])}

OpenWatchesOf(d, p) ==
    {w \in OpenWatches(d) : Coalesce(d[w].payer, d[w].servicePayer) = p}

-----------------------------------------------------------------------------
(***************************************************************************)
(* Admission: prepareWatch.                                                *)
(***************************************************************************)

(* findIdempotencyRow: the payer's own row, else a legacy row without payer. *)
FindIdempotencyRow(d, k, p) ==
    LET own    == {w \in Watches : d[w].key = k /\ p # None /\ d[w].payer = p}
        legacy == {w \in Watches : d[w].key = k /\ d[w].payer = None}
    IN  IF own # {} THEN own ELSE legacy

(* Mutant: the table has no index on expected_service_transaction. *)
UniqueForKeyOnly(d, w, k, t, p) ==
    \A v \in Watches \ {w} : d[v].state # "absent" => ~(d[v].payer = p /\ d[v].key = k)

(* The two unique indexes that an insert or an update of tx, payer can hit. *)
UniqueFor(d, w, k, t, p) ==
    \A v \in Watches \ {w} :
        d[v].state # "absent" =>
            /\ t # None => d[v].tx # t
            /\ ~(d[v].payer = p /\ d[v].key = k)

(* Mutant: the cap is compared after the fact. *)
FullWhenExceeded(d) == Cardinality(OpenWatches(d)) > MaxOpenWatches

(* countOpenObligations against the caps. *)
Full(d) == Cardinality(OpenWatches(d)) >= MaxOpenWatches

(* Mutant: a watch counts for its payer only once its payment settled. *)
PayerFullOnceSettled(d, p) ==
    Cardinality({w \in OpenWatches(d) : d[w].servicePayer = p}) >= MaxOpenWatchesPerPayer

PayerFull(d, p) == Cardinality(OpenWatchesOf(d, p)) >= MaxOpenWatchesPerPayer

(* What prepareWatch answers; t is the extracted settlement intent or None. *)
PrepareOutcome(d, w, k, s, t) ==
    LET p         == IF t = None THEN None ELSE PayerOf[t]
        known     == FindIdempotencyRow(d, k, p)
        legacy    == p # None /\ \E v \in known : d[v].payer = None
        differs   == \E v \in known : d[v].spec # s
        full      == Full(d)
        payerFull == p # None /\ PayerFull(d, p)
    IN  CASE known # {} /\ legacy                  -> "legacy_conflict"
          [] known # {} /\ ~legacy /\ differs      -> "idempotency_conflict"
          [] known # {} /\ ~legacy /\ ~differs     -> "replay"
          [] known = {} /\ full                    -> "global_capacity"
          [] known = {} /\ ~full /\ payerFull      -> "payer_capacity"
          [] known = {} /\ ~full /\ ~payerFull /\ UniqueFor(d, w, k, t, p)  -> "created"
          [] known = {} /\ ~full /\ ~payerFull /\ ~UniqueFor(d, w, k, t, p) -> "constraint"

(* Mutant: the terms are stored, the payment they belong to at settlement. *)
PrepareWatchUnbound(d, w, k, s, t, expiresAt) ==
    [d EXCEPT ![w] = [NoRow EXCEPT !.state = "settlement_pending", !.key = k, !.spec = s,
                                   !.proof = (t # None), !.expiresAt = expiresAt]]

(* The inserted row; only for outcome "created" and a fresh identifier. *)
PrepareWatch(d, w, k, s, t, expiresAt) ==
    [d EXCEPT ![w] = [NoRow EXCEPT
        !.state = "settlement_pending", !.key = k, !.spec = s, !.tx = t,
        !.payer = IF t = None THEN None ELSE PayerOf[t],
        !.proof = (t # None), !.expiresAt = expiresAt]]

-----------------------------------------------------------------------------
(***************************************************************************)
(* Settlement: recordSettlementCandidate, activateWatch, the two marks.    *)
(***************************************************************************)

(* assertSettlementEvidenceMatches (one network is configured). *)
EvidenceMatches(row, t) ==
    /\ row.tx \in {None, t}
    /\ row.payer \in {None, PayerOf[t]}

(* recordSettlementCandidate returns instead of throwing. *)
CandidateAccepted(d, w, t) ==
    /\ d[w].state # "absent"
    /\ EvidenceMatches(d[w], t)
    /\ \/ d[w].state \in {"active", "matched"} /\ d[w].serviceTx = t
       \/ Settling(d[w]) /\ (Reconcilable(d[w]) => UniqueFor(d, w, d[w].key, t, PayerOf[t]))

RecordSettlementCandidate(d, w, t) ==
    IF Reconcilable(d[w])
    THEN [d EXCEPT ![w].tx = Coalesce(@, t), ![w].payer = Coalesce(@, PayerOf[t])]
    ELSE d

(* activateWatch returns instead of throwing. *)
ActivationAccepted(d, w, t) ==
    /\ d[w].state # "absent"
    /\ EvidenceMatches(d[w], t)
    /\ \/ d[w].state \in {"active", "matched"} /\ d[w].serviceTx = t
       \/ Reconcilable(d[w]) /\ \A v \in Watches \ {w} : d[v].serviceTx # t

ActivateWatch(d, w, t, round) ==
    IF Reconcilable(d[w])
    THEN [d EXCEPT ![w].state = "active", ![w].serviceTx = t,
                   ![w].servicePayer = PayerOf[t],
                   ![w].activationRound = round, ![w].scanAfter = round]
    ELSE d

(* Mutant: a late settlement failure reopens what was decided. *)
MarkSettlementUnknownAgain(d, w) ==
    IF Settling(d[w])
    THEN [d EXCEPT ![w].state = "settlement_unknown", ![w].terminal = FALSE]
    ELSE d

MarkSettlementUnknown(d, w) ==
    IF d[w].state = "settlement_pending"
    THEN [d EXCEPT ![w].state = "settlement_unknown", ![w].terminal = FALSE]
    ELSE d

MarkSettlementInvalid(d, w) ==
    IF Settling(d[w])
    THEN [d EXCEPT ![w].state = "settlement_unknown", ![w].terminal = TRUE]
    ELSE d

RecordReconciliationFailure(d, w) ==
    IF Reconcilable(d[w])
    THEN [d EXCEPT ![w].attempts = @ + 1, ![w].reconcileWaiting = TRUE]
    ELSE d

-----------------------------------------------------------------------------
(***************************************************************************)
(* Work units: claimWorkUnit re-establishes the caller's plan atomically   *)
(* with the charge, and closes a watch whose budget is spent.              *)
(***************************************************************************)
PollingEligible(row, scanAfter, closing, failures) ==
    /\ row.state = "active"
    /\ row.proof
    /\ row.scanAfter = scanAfter
    /\ row.closing = closing
    /\ row.failures = failures
    /\ ~row.pollWaiting

ReconciliationEligible(row, t, attempts) ==
    /\ Reconcilable(row)
    /\ row.tx = t
    /\ row.attempts = attempts
    /\ ~row.reconcileWaiting

(* Mutant: one unit too many. *)
ClaimOutcomeOneMore(row, eligible) ==
    IF ~eligible THEN "inactive"
    ELSE IF row.used <= WorkUnitBudget THEN "claimed" ELSE "exhausted"

ClaimOutcome(row, eligible) ==
    IF ~eligible THEN "inactive"
    ELSE IF row.used < WorkUnitBudget THEN "claimed" ELSE "exhausted"

(* Mutant: a watch whose budget is spent stays open. *)
ClaimWorkUnitLeavingOpen(d, w, eligible) ==
    IF ClaimOutcome(d[w], eligible) = "claimed" THEN [d EXCEPT ![w].used = @ + 1] ELSE d

ClaimWorkUnit(d, w, eligible) ==
    CASE ClaimOutcome(d[w], eligible) = "claimed"   -> [d EXCEPT ![w].used = @ + 1]
      [] ClaimOutcome(d[w], eligible) = "exhausted" ->
            [d EXCEPT ![w].state = "indeterminate", ![w].terminal = TRUE,
                      ![w].reason = "work_budget_exhausted"]
      [] ClaimOutcome(d[w], eligible) = "inactive"  -> d

-----------------------------------------------------------------------------
(***************************************************************************)
(* Polling: cursor, checkpoint, failures and the two outcomes.             *)
(***************************************************************************)
RecordPollingFailure(d, w, permanent) ==
    IF d[w].state # "active" THEN d
    ELSE IF permanent
    THEN [d EXCEPT ![w].state = "indeterminate", ![w].failures = @ + 1,
                   ![w].pollWaiting = FALSE,
                   ![w].reason = "indexer_permanent_failure"]
    ELSE [d EXCEPT ![w].failures = @ + 1, ![w].pollWaiting = TRUE]

ClearPollingFailure(d, w) ==
    IF d[w].state = "active"
    THEN [d EXCEPT ![w].failures = 0, ![w].pollWaiting = FALSE]
    ELSE d

MarkMatched(d, w, round) ==
    IF d[w].state = "active"
    THEN [d EXCEPT ![w].state = "matched", ![w].matchedRound = round]
    ELSE d

CanAdvance(row, expected, round) ==
    row.state = "active" /\ row.scanAfter = expected /\ round > expected

AdvanceScanRound(d, w, expected, round) ==
    IF CanAdvance(d[w], expected, round)
    THEN [d EXCEPT ![w].scanAfter = round]
    ELSE d

(* Mutant: a later checkpoint replaces the first. *)
SetClosingRoundAgain(d, w, round) ==
    IF d[w].state = "active" /\ d[w].proof THEN [d EXCEPT ![w].closing = round] ELSE d

SetClosingRound(d, w, round) ==
    IF d[w].state = "active" /\ d[w].proof
    THEN [d EXCEPT ![w].closing = Coalesce(@, round)]
    ELSE d

(* Mutant: the scan need not have reached the closing round. *)
MarkExpiredUnscanned(d, w, expectedScan, closing) ==
    IF /\ d[w].state = "active" /\ d[w].proof
       /\ d[w].scanAfter = expectedScan
       /\ d[w].closing = closing
    THEN [d EXCEPT ![w].state = "expired"]
    ELSE d

MarkExpired(d, w, expectedScan, closing) ==
    IF /\ d[w].state = "active"
       /\ d[w].proof
       /\ d[w].scanAfter = expectedScan
       /\ d[w].closing = closing
       /\ d[w].scanAfter >= d[w].closing
    THEN [d EXCEPT ![w].state = "expired"]
    ELSE d

(* The clock passes polling_retry_at or reconciliation_next_attempt_at. *)
PollRetryDue(d, w) == [d EXCEPT ![w].pollWaiting = FALSE]

ReconcileRetryDue(d, w) == [d EXCEPT ![w].reconcileWaiting = FALSE]

-----------------------------------------------------------------------------
(***************************************************************************)
(* What a row may become.                                                  *)
(***************************************************************************)
Final(row) ==
    \/ row.state \in {"matched", "expired", "indeterminate"}
    \/ row.state = "settlement_unknown" /\ row.terminal

(* Terms, payment, payer and activation stay once they are there, cursor and *)
(* work only grow, and an outcome is never revised.                          *)
Progresses(old, new) ==
    /\ old.state # "absent" =>
         /\ new.state # "absent"
         /\ new.key = old.key /\ new.spec = old.spec
         /\ new.proof = old.proof /\ new.expiresAt = old.expiresAt
    /\ old.tx # None => new.tx = old.tx
    /\ old.payer # None => new.payer = old.payer
    /\ old.serviceTx # None =>
         new.serviceTx = old.serviceTx /\ new.activationRound = old.activationRound
    /\ old.scanAfter # None => new.scanAfter # None /\ new.scanAfter >= old.scanAfter
    /\ old.closing # None => new.closing = old.closing
    /\ new.used >= old.used
    /\ Final(old) =>
         /\ new.state = old.state /\ new.reason = old.reason /\ new.terminal = old.terminal
         /\ new.serviceTx = old.serviceTx /\ new.matchedRound = old.matchedRound

=============================================================================
