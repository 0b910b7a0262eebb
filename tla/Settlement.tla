----------------------------- MODULE Settlement -----------------------------
(***************************************************************************)
(* A paid purchase (app.ts) and the settlement reconciler                  *)
(* (roundwatch-reconciler.ts) around the watch table.                      *)
(*                                                                         *)
(* An action is the code that runs between two awaits.  A purchase:        *)
(*   handler, prepareWatch            -> "settle"                          *)
(*   x402 hands the payment over      -> "settling"                        *)
(*   onAfterSettle, first half        -> "lookup"                          *)
(*   onAfterSettle, second half       -> "respond"                         *)
(*   response guard                   -> "done"                            *)
(* A reconciler turn: claim -> "lookup" -> "tip" -> "page", each await     *)
(* answered by some replica or by an error.                                *)
(***************************************************************************)
EXTENDS ServerProcess, FiniteSetsExt

CONSTANTS
    Requests,                 \* purchase requests, each made once
    RequireSettlementIntent,  \* TRUE on MainNet
    TxPage,                   \* page of the id search that lists a payment
    LastPage                  \* index of the last page of an id search

ASSUME SettlementAssumption ==
    /\ RequireSettlementIntent \in BOOLEAN
    /\ LastPage \in Nat
    /\ TxPage \in [Txs -> 0..LastPage]
    /\ None # "purchased"

VARIABLES
    req,       \* purchase requests in flight (process memory)
    rec,       \* the reconciler's sweep and current turn (process memory)
    absence    \* absenceProofSessions (process memory)

settlementVars == <<req, rec, absence>>
settlementSpecVars == <<db, settlementVars, ledgerVars, crashes>>

NewRequest == [pc |-> "idle", watch |-> None, key |-> None, tx |-> None, answer |-> None]

IdleReconciler == [pc |-> "idle", todo |-> {}, attempts |-> <<>>, watch |-> None]

NoSessions == [w \in Watches |-> None]

SettlementInit ==
    /\ req = [q \in Requests |-> NewRequest]
    /\ rec = IdleReconciler
    /\ absence = NoSessions

-----------------------------------------------------------------------------
(***************************************************************************)
(* Purchase.                                                               *)
(***************************************************************************)

(* The paid handler: the intent is extracted from the signed payment t,    *)
(* or may be missing off MainNet; no await separates prepareWatch from it. *)
PurchaseHandler(q) ==
    /\ req[q].pc = "idle"
    /\ now + TTL <= MaxClock
    /\ \E k \in Keys, s \in Specs, t \in Txs,
          intent \in {TRUE, RequireSettlementIntent},
          w \in {v \in Watches : db[v].state = "absent"} :
            LET i       == IF intent THEN t ELSE None
                outcome == PrepareOutcome(db, w, k, s, i)
            IN  \/ /\ outcome = "created"
                   /\ db' = PrepareWatch(db, w, k, s, i, now + TTL)
                   /\ req' = [req EXCEPT ![q] = [pc |-> "settle", watch |-> w,
                                    key |-> k, tx |-> t, answer |-> None]]
                \/ /\ outcome # "created"
                   /\ req' = [req EXCEPT ![q] = [pc |-> "done", watch |-> None,
                                    key |-> k, tx |-> t, answer |-> outcome]]
                   /\ UNCHANGED db
    /\ UNCHANGED <<rec, absence, ledgerVars>>

(* x402 asks the facilitator to settle: from here on the payment can land. *)
SettleCall(q) ==
    /\ req[q].pc = "settle"
    /\ req' = [req EXCEPT ![q].pc = "settling"]
    /\ submitted' = submitted \cup {req[q].tx}
    /\ UNCHANGED <<db, rec, absence, blocks, landed, now>>

(* onSettleFailure: an error or a timeout, whether or not the payment lands. *)
SettleFailed(q) ==
    /\ req[q].pc \in {"settle", "settling"}
    /\ db' = MarkSettlementUnknown(db, req[q].watch)
    /\ req' = [req EXCEPT ![q].pc = "done", ![q].answer = "error"]
    /\ UNCHANGED <<rec, absence, ledgerVars>>

(* onAfterSettle up to the Indexer lookup.  When the record throws, the    *)
(* library decides whether the response still reaches the guard.           *)
Settled(q) ==
    /\ req[q].pc = "settling"
    /\ \/ /\ CandidateAccepted(db, req[q].watch, req[q].tx)
          /\ db' = RecordSettlementCandidate(db, req[q].watch, req[q].tx)
          /\ req' = [req EXCEPT ![q].pc = "lookup"]
       \/ /\ ~CandidateAccepted(db, req[q].watch, req[q].tx)
          /\ \/ req' = [req EXCEPT ![q].pc = "respond"]
             \/ req' = [req EXCEPT ![q].pc = "done", ![q].answer = "error"]
          /\ UNCHANGED db
    /\ UNCHANGED <<rec, absence, ledgerVars>>

(* Mutant: amount, receiver and asset of the transfer are not compared. *)
TermsMatchByRoundOnly(row, t) == row.proof /\ landed[t] <= LastValid[t]

(* The transfer the lookup returned against the terms the row was sold     *)
(* under; a row without intent has no terms to match.                      *)
TermsMatch(row, t) == row.proof /\ t \in Conforming /\ landed[t] <= LastValid[t]

(* What onAfterSettle does with a confirmed transfer. *)
ApplyActivation(d, w, t) ==
    IF ~TermsMatch(d[w], t) THEN MarkSettlementInvalid(d, w)
    ELSE IF ActivationAccepted(d, w, t) THEN ActivateWatch(d, w, t, landed[t])
    ELSE d

(* onAfterSettle after the lookup: an Indexer error or an absent transfer  *)
(* leaves the row to the reconciler.                                       *)
ActivationLookup(q) ==
    /\ req[q].pc = "lookup"
    /\ req' = [req EXCEPT ![q].pc = "respond"]
    /\ \/ UNCHANGED db
       \/ \E view \in Views :
            /\ Confirmed(req[q].tx, view)
            /\ db' = ApplyActivation(db, req[q].watch, req[q].tx)
    /\ UNCHANGED <<rec, absence, ledgerVars>>

(* Mutant: the handler's 201 is sent as it is. *)
RespondUnguarded(q) ==
    /\ req[q].pc = "respond"
    /\ req' = [req EXCEPT ![q].pc = "done", ![q].answer = "purchased"]
    /\ UNCHANGED <<db, rec, absence, ledgerVars>>

(* The response guard: success only for a durably active or matched watch. *)
Respond(q) ==
    /\ req[q].pc = "respond"
    /\ req' = [req EXCEPT ![q].pc = "done",
                          ![q].answer = IF db[req[q].watch].state \in {"active", "matched"}
                                        THEN "purchased" ELSE "unconfirmed"]
    /\ UNCHANGED <<db, rec, absence, ledgerVars>>

(* POST watch/recover answers an exact row of the payer with the watch.     *)
Recoverable(row) ==
    /\ row.serviceTx # None
    /\ row.state \in {"active", "matched", "expired", "indeterminate"}

(* recoveryDisposition: the buyer is told to ask again later. *)
ToldRetry(row) ==
    \/ row.state = "settlement_pending"
    \/ row.state = "settlement_unknown" /\ ~row.terminal

(* recoveryDisposition: the buyer is told that nothing more will happen. *)
ToldTerminal(row) == row.state # "absent" /\ ~Recoverable(row) /\ ~ToldRetry(row)

PurchaseNext ==
    \E q \in Requests :
        \/ PurchaseHandler(q)
        \/ SettleCall(q)
        \/ SettleFailed(q)
        \/ Settled(q)
        \/ ActivationLookup(q)
        \/ Respond(q)

-----------------------------------------------------------------------------
(***************************************************************************)
(* Reconciler.                                                             *)
(***************************************************************************)

(* listSettlementReconciliationCandidates *)
ReconcileCandidates ==
    {w \in Watches : Reconcilable(db[w]) /\ db[w].tx # None /\ ~db[w].reconcileWaiting}

SessionCompatible(session, row) == Reconcilable(row) /\ row.tx = session.tx

(* pruneAbsenceProofSessions *)
Pruned(sessions) ==
    [w \in Watches |-> IF sessions[w] # None /\ ~SessionCompatible(sessions[w], db[w])
                       THEN None ELSE sessions[w]]

StartSweep ==
    /\ rec.pc = "idle"
    /\ ReconcileCandidates # {}
    /\ rec' = [pc |-> "sweep", todo |-> ReconcileCandidates, watch |-> None,
               attempts |-> [w \in ReconcileCandidates |-> db[w].attempts]]
    /\ absence' = Pruned(absence)
    /\ UNCHANGED <<db, req, ledgerVars>>

EndSweep ==
    /\ rec.pc = "sweep"
    /\ rec.todo = {}
    /\ rec' = IdleReconciler
    /\ absence' = Pruned(absence)
    /\ UNCHANGED <<db, req, ledgerVars>>

TurnOver == [rec EXCEPT !.pc = "sweep", !.watch = None]

DropSession(w) == [absence EXCEPT ![w] = None]

(* reconcileWatch up to its first await: claim a unit of work under the    *)
(* attempts count seen at the start of the sweep.                          *)
ReconcileClaim(w) ==
    LET row      == db[w]
        eligible == ReconciliationEligible(row, row.tx, rec.attempts[w])
        outcome  == ClaimOutcome(row, eligible)
        next     == [rec EXCEPT !.todo = @ \ {w}]
        session  == absence[w]
    IN  /\ rec.pc = "sweep"
        /\ w \in rec.todo
        /\ \/ /\ outcome = "claimed" /\ row.proof
              /\ db' = ClaimWorkUnit(db, w, eligible)
              /\ IF session # None /\ session.tx = row.tx
                 THEN /\ rec' = [next EXCEPT !.pc = "page", !.watch = w]
                      /\ UNCHANGED absence
                 ELSE /\ rec' = [next EXCEPT !.pc = "lookup", !.watch = w]
                      /\ absence' = DropSession(w)
           \/ /\ outcome = "claimed" /\ ~row.proof
              /\ db' = RecordReconciliationFailure(ClaimWorkUnit(db, w, eligible), w)
              /\ rec' = next
              /\ UNCHANGED absence
           \/ /\ outcome = "exhausted"
              /\ db' = ClaimWorkUnit(db, w, eligible)
              /\ rec' = next
              /\ absence' = DropSession(w)
           \/ /\ outcome = "inactive"
              /\ rec' = next
              /\ absence' = IF session # None /\ ~SessionCompatible(session, row)
                            THEN DropSession(w) ELSE absence
              /\ UNCHANGED db
        /\ UNCHANGED <<req, ledgerVars>>

(* applyConfirmed; a throwing activation is caught by the sweep, which defers. *)
ApplyConfirmed(d, w) ==
    LET t == d[w].tx
    IN  IF ~TermsMatch(d[w], t) THEN MarkSettlementInvalid(d, w)
        ELSE IF ActivationAccepted(d, w, t) THEN ActivateWatch(d, w, t, landed[t])
        ELSE RecordReconciliationFailure(d, w)

(* The catch of reconcileSweep: any await of a turn may reject. *)
ReconcileError ==
    /\ rec.pc \in {"lookup", "tip", "page"}
    /\ db' = RecordReconciliationFailure(db, rec.watch)
    /\ rec' = TurnOver
    /\ absence' = DropSession(rec.watch)
    /\ UNCHANGED <<req, ledgerVars>>

ReconcileLookup ==
    /\ rec.pc = "lookup"
    /\ \E view \in Views :
        \/ /\ Confirmed(db[rec.watch].tx, view)
           /\ db' = ApplyConfirmed(db, rec.watch)
           /\ rec' = TurnOver
           /\ absence' = DropSession(rec.watch)
        \/ /\ ~Confirmed(db[rec.watch].tx, view)
           /\ rec' = [rec EXCEPT !.pc = "tip"]
           /\ UNCHANGED <<db, absence>>
    /\ UNCHANGED <<req, ledgerVars>>

(* An absence proof starts only once a tip beyond LastValid was reported. *)
ReconcileTip ==
    /\ rec.pc = "tip"
    /\ \E view \in Views :
        \/ /\ view <= LastValid[db[rec.watch].tx]
           /\ db' = RecordReconciliationFailure(db, rec.watch)
           /\ rec' = TurnOver
           /\ UNCHANGED absence
        \/ /\ view > LastValid[db[rec.watch].tx]
           /\ rec' = [rec EXCEPT !.pc = "page"]
           /\ absence' = [absence EXCEPT ![rec.watch] =
                [tx |-> db[rec.watch].tx, token |-> 0, seen |-> {}, coverage |-> None]]
           /\ UNCHANGED db
    /\ UNCHANGED <<req, ledgerVars>>

(* Continuation tokens: page i names page i + 1, or a stalled provider     *)
(* repeats a token the session has already used.                           *)
NextTokens(token) == IF token = LastPage THEN {None} ELSE {token, token + 1}

(* Mutant: the last page alone decides what the session covered. *)
CoveredByLastPage(session, view) == view

(* coverage: the least current-round of the pages of one session. *)
Covered(session, view) ==
    IF session.coverage = None THEN view ELSE Min({session.coverage, view})

(* One page of the id search and what the turn concludes from it. *)
ReconcilePage ==
    /\ rec.pc = "page"
    /\ rec' = TurnOver
    /\ \E view \in Views, nextToken \in NextTokens(absence[rec.watch].token) :
        LET w        == rec.watch
            t        == absence[w].tx
            session  == [absence[w] EXCEPT !.coverage = Covered(absence[w], view)]
            found    == TxPage[t] = session.token /\ Confirmed(t, view)
            repeated == nextToken = session.token \/ nextToken \in session.seen
        IN  \/ /\ found
               /\ db' = ApplyConfirmed(db, w)
               /\ absence' = DropSession(w)
            \/ /\ ~found /\ nextToken # None /\ ~repeated
               /\ db' = RecordReconciliationFailure(db, w)
               /\ absence' = [absence EXCEPT ![w] =
                    [session EXCEPT !.token = nextToken, !.seen = @ \cup {nextToken}]]
            \/ /\ ~found
               /\ \/ nextToken # None /\ repeated
                  \/ nextToken = None /\ session.coverage <= LastValid[t]
               /\ db' = RecordReconciliationFailure(db, w)
               /\ absence' = DropSession(w)
            \/ /\ ~found /\ nextToken = None /\ session.coverage > LastValid[t]
               /\ db' = MarkSettlementInvalid(db, w)
               /\ absence' = DropSession(w)
    /\ UNCHANGED <<req, ledgerVars>>

(* The clock passes reconciliation_next_attempt_at. *)
ReconcileDue(w) ==
    /\ db[w].reconcileWaiting
    /\ db' = ReconcileRetryDue(db, w)
    /\ UNCHANGED <<settlementVars, ledgerVars>>

ReconcilerStep ==
    \/ StartSweep
    \/ EndSweep
    \/ \E w \in Watches : ReconcileClaim(w)
    \/ ReconcileLookup
    \/ ReconcileTip
    \/ ReconcilePage
    \/ ReconcileError

ReconcilerNext ==
    \/ ReconcilerStep
    \/ \E w \in Watches : ReconcileDue(w)

-----------------------------------------------------------------------------
(***************************************************************************)
(* The settlement half of the service on its own.                          *)
(***************************************************************************)

(* The process dies: the table and the ledger survive, memory does not. *)
LoseSettlementMemory ==
    /\ req' = [q \in Requests |->
                IF req[q].pc \in {"idle", "done"} THEN req[q]
                ELSE [req[q] EXCEPT !.pc = "done", !.answer = "lost"]]
    /\ rec' = IdleReconciler
    /\ absence' = NoSessions

SettlementCrash ==
    /\ ProcessDies
    /\ LoseSettlementMemory

SettlementNext ==
    \/ PurchaseNext /\ UNCHANGED crashes
    \/ ReconcilerNext /\ UNCHANGED crashes
    \/ (NewBlock \/ ClockTick) /\ UNCHANGED <<db, settlementVars, crashes>>
    \/ SettlementCrash

SettlementStart ==
    /\ ProcessInit
    /\ SettlementInit

SettlementSpec ==
    /\ SettlementStart
    /\ [][SettlementNext]_settlementSpecVars

-----------------------------------------------------------------------------
(***************************************************************************)
(* Properties.                                                             *)
(***************************************************************************)

Rejected(row) == row.state = "settlement_unknown" /\ row.terminal

Activated(row) == row.serviceTx # None

(* A watch sold with an extracted intent is rejected for good only when its *)
(* payment can never be confirmed with the stored terms: the absence proof  *)
(* and the mismatch branch never write off a paid watch.                    *)
NoPaidWatchRejected ==
    \A w \in Watches :
        Rejected(db[w]) /\ db[w].proof =>
            /\ ~Paid(db[w].tx)
            /\ landed[db[w].tx] = 0 => Tip > LastValid[db[w].tx]

(* An activated watch was paid: its service transaction is the expected one,*)
(* confirmed on chain under the stored terms in exactly the round the scan  *)
(* starts after, whichever of callback and reconciler got there first.      *)
ActivatedWasPaid ==
    \A w \in Watches :
        Activated(db[w]) =>
            /\ db[w].serviceTx = db[w].tx
            /\ Paid(db[w].tx)
            /\ db[w].activationRound = landed[db[w].tx]

(* A request that reached settlement with its intent reserved, as every     *)
(* request on MainNet does.                                                 *)
Reserved(q) == req[q].watch # None /\ db[req[q].watch].proof

(* No reserved payment and no idempotency key of a payer is sent to          *)
(* settlement twice: the retry of a purchase that is in flight, crashed or   *)
(* lost its answer is refused before x402 settles it.                        *)
NoDoubleSettlement ==
    \A q1, q2 \in Requests :
        q1 # q2 /\ Reserved(q1) /\ Reserved(q2) =>
            /\ req[q1].watch # req[q2].watch
            /\ req[q1].tx # req[q2].tx
            /\ PayerOf[req[q1].tx] = PayerOf[req[q2].tx] => req[q1].key # req[q2].key

(* A payment is handed to the facilitator only once a durable row expects   *)
(* it, so whatever crashes afterwards the reconciler can find it; the one   *)
(* exception is a request whose intent could not be extracted, off MainNet. *)
EveryPaymentIsReserved ==
    \A t \in submitted :
        \/ \E w \in Watches : db[w].tx = t
        \/ /\ ~RequireSettlementIntent
           /\ \E q \in Requests : req[q].tx = t /\ ~Reserved(q)

(* What the recovery endpoint has told a buyer stays true, whatever callback *)
(* or reconciler turn is still to come: a purchase called terminal never     *)
(* comes alive, and a watch that was recoverable stays so.                   *)
RecoveryAnswerStands ==
    [][\A w \in Watches :
        /\ ToldTerminal(db[w]) => ToldTerminal(db'[w])
        /\ Recoverable(db[w]) => Recoverable(db'[w])]_db

(* A purchase answered with success names a watch that is durably activated *)
(* by a confirmed payment, also when the answer crosses other writers.      *)
SuccessIsDurable ==
    \A q \in Requests :
        req[q].answer = "purchased" =>
            Activated(db[req[q].watch]) /\ Paid(req[q].tx)

(* README: an idempotency key is unique in the whole service database. *)
KeyGloballyUnique ==
    \A v, w \in Watches :
        db[v].state # "absent" /\ db[w].state # "absent" /\ db[v].key = db[w].key => v = w

=============================================================================
