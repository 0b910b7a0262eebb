------------------------- MODULE StoreOpeningProofs -------------------------
(***************************************************************************)
(* The database through its openings, for any rows, crashes, restarts and  *)
(* recorders: what the store's methods keep stays kept on a database an    *)
(* older version left, whichever statement the last opening died after.    *)
(***************************************************************************)
EXTENDS StoreOpening, WatchStoreProofs

(***************************************************************************)
(* Whatever is called on the store, with whatever stale or repeated        *)
(* arguments, for any number of rows, payments, payers and keys: the table *)
(* stays sound and every row only progresses.                              *)
(***************************************************************************)

(* Every call on a row is a sound step of the table.                        *)
LEMMA CallIsSound ==
  ASSUME TableInv(db), CallersNext
  PROVE  SoundStep(db, db')
<1> USE CallersAssumption
<1>1. PICK w \in Watches :
        \/ Prepare(w) \/ Candidate(w) \/ Activate(w) \/ ReconcileOutcome(w)
        \/ Claim(w) \/ PollFailed(w) \/ PollOutcome(w)
  BY DEF CallersNext
<1>2. CASE Prepare(w)
  BY <1>2, PrepareIsSound DEF Prepare
<1>3. CASE Candidate(w)
  BY <1>3, CandidateIsSound DEF Candidate
<1>4. CASE Activate(w)
  BY <1>4, ActivateIsSound DEF Activate
<1>5. CASE ReconcileOutcome(w)
  BY <1>5, MarkUnknownIsSound, MarkInvalidIsSound, ReconciliationFailureIsSound, RetryDueIsSound
  DEF ReconcileOutcome
<1>6. CASE Claim(w)
  <2>1. ASSUME NEW t \in Txs, NEW attempts \in 0..MaxAttempts,
               db' = ClaimWorkUnit(db, w, ReconciliationEligible(db[w], t, attempts))
        PROVE  SoundStep(db, db')
    <3>1. ReconciliationEligible(db[w], t, attempts) \in BOOLEAN
      BY DEF ReconciliationEligible, Reconcilable, TableInv, RowInv, Row
    <3> QED
      BY <2>1, <3>1, ClaimIsSound DEF ReconciliationEligible
  <2>2. ASSUME NEW scan \in Rounds, NEW closing \in Opt(Rounds), NEW failures \in 0..MaxAttempts,
               db' = ClaimWorkUnit(db, w, PollingEligible(db[w], scan, closing, failures))
        PROVE  SoundStep(db, db')
    <3>1. PollingEligible(db[w], scan, closing, failures) \in BOOLEAN
      BY DEF PollingEligible, TableInv, RowInv, Row
    <3> QED
      BY <2>2, <3>1, ClaimIsSound DEF PollingEligible
  <2> QED
    BY <1>6, <2>1, <2>2 DEF Claim
<1>7. CASE PollFailed(w)
  BY <1>7, PollingFailureIsSound, ClearFailureIsSound, RetryDueIsSound DEF PollFailed
<1>8. CASE PollOutcome(w)
  BY <1>8, MatchedIsSound, AdvanceIsSound, SetClosingIsSound, ExpiredIsSound DEF PollOutcome
<1> QED
  BY <1>1, <1>2, <1>3, <1>4, <1>5, <1>6, <1>7, <1>8

(* The table is sound in every reachable state.                             *)
THEOREM TableStaysSound == CallersSpec => []TableInv(db)
<1>1. CallersInit => TableInv(db)
  BY EmptyTableIsSound DEF CallersInit
<1>2. TableInv(db) /\ [CallersNext]_db => TableInv(db)'
  BY CallIsSound DEF SoundStep
<1> QED
  BY <1>1, <1>2, PTL DEF CallersSpec

(* Every reachable table is well typed.                                     *)
THEOREM TableTypes == CallersSpec => []TableTypeOK
<1>1. TableInv(db) => TableTypeOK
  BY DEF TableInv, TableTypeOK
<1> QED
  BY <1>1, TableStaysSound, PTL

(* Open obligations never exceed the global cap nor, per payer with a       *)
(* verified intent, the payer's cap.                                        *)
THEOREM CapsAlwaysRespected == CallersSpec => []CapsRespected
<1>1. TableInv(db) => CapsRespected
  BY DEF TableInv, CapsRespected, SoldTo
<1> QED
  BY <1>1, TableStaysSound, PTL

(* No two rows share an expected payment, a service payment, or a payer     *)
(* with an idempotency key.                                                 *)
THEOREM ReservationsUnshared == CallersSpec => []NoSharedReservation
<1>1. TableInv(db) => NoSharedReservation
  BY DEF TableInv, NoSharedReservation, Apart
<1> QED
  BY <1>1, TableStaysSound, PTL

(* No row works beyond its budget.                                          *)
THEOREM BudgetAlwaysRespected == CallersSpec => []BudgetRespected
<1>1. TableInv(db) => BudgetRespected
  BY DEF TableInv, RowInv, BudgetRespected
<1> QED
  BY <1>1, TableStaysSound, PTL

(* No row expires before the scan reached its closing round.                *)
THEOREM ExpiredAlwaysScanned == CallersSpec => []ExpiredWasScanned
<1>1. TableInv(db) => ExpiredWasScanned
  BY StoreAssumption DEF TableInv, RowInv, ExpiredWasScanned
<1> QED
  BY <1>1, TableStaysSound, PTL

(* Rows only progress: no store method moves a cursor back, moves a closing *)
(* round, refunds work, changes terms or revises an outcome.                *)
THEOREM RowsOnlyProgress == CallersSpec => RowOnlyProgresses
<1>1. TableInv(db) /\ [CallersNext]_db => [\A w \in Watches : Progresses(db[w], db'[w])]_db
  BY CallIsSound DEF SoundStep
<1> QED
  BY <1>1, TableStaysSound, PTL DEF CallersSpec, RowOnlyProgresses

(***************************************************************************)
(* Calls of the service.                                                   *)
(***************************************************************************)

(* A call deletes no row and reopens none that was closed.                  *)
RowsStay(d, e) ==
    \A v \in Watches :
        /\ d[v].state # "absent" => e[v].state # "absent"
        /\ Open(e[v]) => Open(d[v]) \/ d[v].state = "absent"

(* Each store method touches its own row and opens only an absent one. *)
LEMMA CallKeepsRows ==
  ASSUME TableInv(db), CallersNext
  PROVE  RowsStay(db, db')
<1> USE DEF RowsStay, TableInv, Row, Open
<1>1. PICK w \in Watches :
        \/ Prepare(w) \/ Candidate(w) \/ Activate(w) \/ ReconcileOutcome(w)
        \/ Claim(w) \/ PollFailed(w) \/ PollOutcome(w)
  BY DEF CallersNext
<1>2. CASE Prepare(w)
  BY <1>2 DEF Prepare, PrepareWatch
<1>3. CASE Candidate(w)
  BY <1>3 DEF Candidate, RecordSettlementCandidate, Reconcilable, Settling
<1>4. CASE Activate(w)
  BY <1>4 DEF Activate, ActivateWatch, Reconcilable, Settling
<1>5. CASE ReconcileOutcome(w)
  <2>1. CASE db' = MarkSettlementUnknown(db, w)
    BY <2>1 DEF MarkSettlementUnknown
  <2>2. CASE db' = MarkSettlementInvalid(db, w)
    BY <2>2 DEF MarkSettlementInvalid
  <2>3. CASE db' = RecordReconciliationFailure(db, w) \/ db' = ReconcileRetryDue(db, w)
    BY <2>3 DEF RecordReconciliationFailure, ReconcileRetryDue
  <2> QED
    BY <1>5, <2>1, <2>2, <2>3 DEF ReconcileOutcome
<1>6. CASE Claim(w)
  <2>1. PICK eligible : db' = ClaimWorkUnit(db, w, eligible)
    BY <1>6 DEF Claim
  <2>2. CASE db' = db
    BY <2>2
  <2>3. CASE db' = [db EXCEPT ![w].used = @ + 1]
    BY <2>3
  <2>4. CASE db' = [db EXCEPT ![w].state = "indeterminate", ![w].terminal = TRUE,
                              ![w].reason = "work_budget_exhausted"]
    BY <2>4
  <2> QED
    BY <2>1, <2>2, <2>3, <2>4 DEF ClaimWorkUnit, ClaimOutcome
<1>7. CASE PollFailed(w)
  <2>1. CASE \E permanent \in BOOLEAN : db' = RecordPollingFailure(db, w, permanent)
    BY <2>1 DEF RecordPollingFailure
  <2>2. CASE db' = ClearPollingFailure(db, w) \/ db' = PollRetryDue(db, w)
    BY <2>2 DEF ClearPollingFailure, PollRetryDue
  <2> QED
    BY <1>7, <2>1, <2>2 DEF PollFailed
<1>8. CASE PollOutcome(w)
  BY <1>8 DEF PollOutcome, MarkMatched, AdvanceScanRound, SetClosingRound, MarkExpired
<1> QED
  BY <1>1, <1>2, <1>3, <1>4, <1>5, <1>6, <1>7, <1>8

(***************************************************************************)
(* The invariant.                                                          *)
(***************************************************************************)
Call == [at : {"idle", "lookup", "insert"}, watch : Opt(Watches), tx : Opt(RefundTxs), terms : Opt(Terms)]

Schema == [exists : BOOLEAN, columns : 0..ColumnGroups, current : BOOLEAN,
           indexes : SUBSET UniqueIndexes, open : {"none", "broad", "partial"},
           refunds : {"none", "watches"}]

(* The constructor is past the rebuild of the table. *)
Rebuilt == server \in {"refunds", "indexes", "repair", "serving"}

(* The file: the audit table only ever joins a table that is not rebuilt    *)
(* any more.                                                                *)
SchemaInv ==
    /\ schema \in Schema
    /\ Rebuilt \/ schema.refunds # "none" => schema.current

(* A budget is the configured one and belongs to a row; while the store     *)
(* serves every open row has it.                                            *)
BudgetInv ==
    /\ budget \in [Watches -> {None, WorkUnitBudget}]
    /\ \A w \in Watches : budget[w] # None => db[w].state # "absent"
    /\ server = "serving" => \A w \in Watches : Open(db[w]) => budget[w] # None

(* Refunds, and what recorders are about to insert, belong to rows. *)
RefundInv ==
    /\ refunds \in [RefundTxs -> {None} \cup [watch : Watches, terms : Terms]]
    /\ recorder \in [Recorders -> Call]
    /\ \A r \in Recorders : recorder[r].at # "idle" =>
         recorder[r].watch \in Watches /\ recorder[r].tx \in RefundTxs /\ recorder[r].terms \in Terms
    /\ \A r \in Recorders : recorder[r].at = "insert" => db[recorder[r].watch].state # "absent"
    /\ \A x \in RefundTxs : refunds[x] # None => db[refunds[x].watch].state # "absent"

OpeningInv == TableInv(db) /\ SchemaInv /\ BudgetInv /\ RefundInv

(* A row before its settlement. *)
Unsettled(row) ==
    /\ row \in Row
    /\ row.used = 0 /\ row.reason = None /\ row.serviceTx = None
    /\ row.scanAfter = None /\ row.closing = None /\ ~row.terminal
    /\ row.proof => row.payer # None

(* Such a row is sound, whether its settlement is pending or unknown. *)
LEMMA UnsettledIsSound ==
  ASSUME NEW row, Unsettled(row), NEW terminal \in BOOLEAN
  PROVE  RowInv(Pending(row)) /\ RowInv(Unknown(row, terminal))
<1> DEFINE a == Pending(row)
           b == Unknown(row, terminal)
<1>1. a \in Row /\ b \in Row
  BY DEF Pending, Unknown, Unsettled, Row, WatchState
<1>2. \A r \in {a, b} :
        /\ r.state \in {"settlement_pending", "settlement_unknown"}
        /\ r.used = 0 /\ r.reason = None /\ r.serviceTx = None
        /\ r.scanAfter = None /\ r.closing = None /\ r.proof = row.proof /\ r.payer = row.payer
        /\ r.state = "settlement_pending" => ~r.terminal
  BY DEF Pending, Unknown, Unsettled, Row
<1> HIDE DEF a, b
<1>3. \A r \in {a, b} : RowInv(r)
  BY <1>1, <1>2, StoreAssumption DEF RowInv, Unsettled, Reasons
<1> QED
  BY <1>3 DEF a, b

(* A row whose settlement was recorded, and one that went on to match. *)
LEMMA SettledIsSound ==
  ASSUME NEW row, Unsettled(row), NEW t \in Txs, NEW round \in Rounds
  PROVE  RowInv(Settled(row, t, round)) /\ RowInv(Matched(row, t, round))
<1>1. /\ t \in Opt(Txs) /\ PayerOf[t] \in Opt(Payers) /\ t # None
      /\ round \in Nat /\ round \in Opt(Nat)
  BY StoreAssumption, CallersAssumption DEF Opt
<1> DEFINE a == Settled(row, t, round)
           m == Matched(row, t, round)
<1>2. a \in Row
  BY <1>1 DEF Settled, Unsettled, Row, WatchState
<1>3. m \in Row
  BY <1>1, <1>2 DEF Matched, Row, WatchState
<1>4. /\ a.state = "active"
      /\ a.used = 0 /\ a.reason = None /\ a.serviceTx = t /\ a.activationRound = round
      /\ a.scanAfter = round /\ a.proof = row.proof /\ a.payer = row.payer
  BY DEF Settled, Unsettled, Row
<1>5. /\ m.state = "matched"
      /\ m.used = 0 /\ m.reason = None /\ m.serviceTx = t /\ m.activationRound = round
      /\ m.scanAfter = round /\ m.proof = row.proof /\ m.payer = row.payer
  BY <1>2, <1>4 DEF Matched, Row
<1> HIDE DEF a, m
<1>6. \A r \in {a, m} : RowInv(r)
  BY <1>1, <1>2, <1>3, <1>4, <1>5, StoreAssumption DEF RowInv, Settling, Unsettled, Reasons
<1> QED
  BY <1>6 DEF a, m

(* The rows of older versions are sound. *)
LEMMA LegacyRowIsSound ==
  ASSUME NEW columns, NEW row \in LegacyRows(columns)
  PROVE  RowInv(row)
<1>1. PICK k \in Keys : row \in UnprovenRows(k) \cup ProvenRows(k)
  BY DEF LegacyRows
<1>2. NoRow \in Row
  BY DEF NoRow, Row, Opt, WatchState
<1>3. /\ NoRow.used = 0 /\ NoRow.reason = None /\ NoRow.serviceTx = None
      /\ NoRow.scanAfter = None /\ NoRow.closing = None /\ NoRow.proof = FALSE
      /\ NoRow.terminal = FALSE
  BY DEF NoRow
<1>4. (CHOOSE s \in Specs : TRUE) \in Opt(Specs) /\ k \in Opt(Keys)
  BY OpeningAssumption DEF Opt
<1>5. Unsettled(Unproven(k))
  BY <1>2, <1>3, <1>4 DEF Unproven, Unsettled, Row
<1>6. ASSUME NEW t \in Txs PROVE Unsettled(Proven(k, t))
  <2>1. t \in Opt(Txs) /\ PayerOf[t] \in Opt(Payers) /\ PayerOf[t] # None
    BY StoreAssumption DEF Opt
  <2> QED
    BY <1>5, <2>1 DEF Proven, Unsettled, Row
<1>7. CASE row \in UnprovenRows(k)
  <2>1. CASE row \in {Pending(Unproven(k)), Unknown(Unproven(k), FALSE)}
    BY <1>5, <2>1, UnsettledIsSound
  <2>2. CASE \E t \in Txs, round \in Rounds :
               row = Settled(Unproven(k), t, round) \/ row = Matched(Unproven(k), t, round)
    <3>1. PICK t \in Txs, round \in Rounds :
            row = Settled(Unproven(k), t, round) \/ row = Matched(Unproven(k), t, round)
      BY <2>2
    <3>2. RowInv(Settled(Unproven(k), t, round)) /\ RowInv(Matched(Unproven(k), t, round))
      BY <1>5, SettledIsSound
    <3> QED
      BY <3>1, <3>2
  <2> QED
    BY <1>7, <2>1, <2>2 DEF UnprovenRows
<1>8. CASE row \in ProvenRows(k)
  <2>1. CASE \E t \in Txs : row = Pending(Proven(k, t)) \/ row = Unknown(Proven(k, t), TRUE)
    <3>1. PICK t \in Txs : row = Pending(Proven(k, t)) \/ row = Unknown(Proven(k, t), TRUE)
      BY <2>1
    <3>2. RowInv(Pending(Proven(k, t))) /\ RowInv(Unknown(Proven(k, t), TRUE))
      BY <1>6, UnsettledIsSound
    <3> QED
      BY <3>1, <3>2
  <2>2. CASE \E t \in Txs, round \in Rounds : row = Settled(Proven(k, t), t, round)
    <3>1. PICK t \in Txs, round \in Rounds : row = Settled(Proven(k, t), t, round)
      BY <2>2
    <3>2. RowInv(Settled(Proven(k, t), t, round))
      BY <1>6, SettledIsSound
    <3> QED
      BY <3>1, <3>2
  <2> QED
    BY <1>8, <2>1, <2>2 DEF ProvenRows
<1> QED
  BY <1>1, <1>7, <1>8

(* A table with one row of an older version is sound. *)
LEMMA LegacyIsSound ==
  ASSUME NEW columns, NEW w \in Watches, NEW row \in LegacyRows(columns)
  PROVE  TableInv([EmptyTable EXCEPT ![w] = row])
<1> DEFINE d == [EmptyTable EXCEPT ![w] = row]
<1>1. \A v \in Watches : EmptyTable[v] = NoRow /\ RowInv(EmptyTable[v])
  BY EmptyTableIsSound DEF TableInv, EmptyTable
<1>7. RowInv(row)
  BY LegacyRowIsSound
<1>8. d \in [Watches -> Row] /\ d[w] = row /\ \A v \in Watches \ {w} : d[v] = NoRow
  BY <1>1, <1>7 DEF EmptyTable, RowInv
<1> HIDE DEF d
<1>9. \A u, v \in Watches : u # v => Apart(d[u], d[v])
  <2>1. NoRow.tx = None /\ NoRow.serviceTx = None /\ NoRow.payer = None
    BY DEF NoRow
  <2> QED
    BY <1>8, <2>1 DEF Apart
<1>10. OpenWatches(d) \subseteq {w}
  BY <1>8 DEF OpenWatches, Open, NoRow
<1>11. Cardinality({w}) = 1 /\ IsFiniteSet({w})
  BY FS_Singleton
<1>12. Cardinality(OpenWatches(d)) <= MaxOpenWatches
  <2>1. Cardinality(OpenWatches(d)) \in Nat /\ Cardinality(OpenWatches(d)) <= 1
    BY <1>10, <1>11, FS_Subset, FS_CardinalityType
  <2> QED
    BY <2>1, OpeningAssumption, StoreAssumption
<1>13. ASSUME NEW p \in Payers PROVE Cardinality(SoldTo(d, p)) <= MaxOpenWatchesPerPayer
  <2>1. SoldTo(d, p) \subseteq {w}
    BY <1>10 DEF SoldTo, OpenWatchesOf
  <2>2. Cardinality(SoldTo(d, p)) \in Nat /\ Cardinality(SoldTo(d, p)) <= 1
    BY <2>1, <1>11, FS_Subset, FS_CardinalityType
  <2> QED
    BY <2>2, OpeningAssumption, StoreAssumption
<1>14. \A v \in Watches : RowInv(d[v])
  BY <1>1, <1>7, <1>8
<1>15. TableInv(d)
  BY <1>8, <1>9, <1>12, <1>13, <1>14 DEF TableInv
<1> QED
  BY <1>15 DEF d

(* Whatever file is found, the invariant holds before the first opening. *)
LEMMA OpeningInvInit == OpeningInit => OpeningInv
<1> SUFFICES ASSUME OpeningInit PROVE OpeningInv
  OBVIOUS
<1>1. TableInv(db)
  <2>1. CASE schema = NoFile /\ CallersInit
    BY <2>1, EmptyTableIsSound DEF CallersInit
  <2>2. CASE \E w \in Watches, row \in LegacyRows(schema.columns) : db = [EmptyTable EXCEPT ![w] = row]
    BY <2>2, LegacyIsSound
  <2> QED
    BY <2>1, <2>2 DEF OpeningInit
<1>2. SchemaInv
  <2>1. schema \in Schema /\ schema.refunds = "none"
    <3> DEFINE old == {[NoFile EXCEPT !.exists = TRUE, !.columns = c, !.open = i] :
                          c \in {0, HasEvidence}, i \in {"none", "broad"}}
    <3>1. NoFile \in Schema /\ NoFile.refunds = "none"
      BY DEF NoFile, Schema, ColumnGroups
    <3>2. CASE schema = NoFile
      BY <3>1, <3>2
    <3>3. CASE schema \in old
      <4>1. PICK c \in {0, HasEvidence}, i \in {"none", "broad"} :
              schema = [NoFile EXCEPT !.exists = TRUE, !.columns = c, !.open = i]
        BY <3>3
      <4>2. c \in 0..ColumnGroups /\ i \in {"none", "broad", "partial"}
        BY DEF ColumnGroups, HasEvidence
      <4> QED
        BY <3>1, <4>1, <4>2 DEF Schema
    <3>4. schema = NoFile \/ schema \in old
      BY DEF OpeningInit
    <3> HIDE DEF old
    <3> QED
      BY <3>2, <3>3, <3>4
  <2>2. ~Rebuilt
    BY DEF OpeningInit, Rebuilt
  <2> QED
    BY <2>1, <2>2 DEF SchemaInv
<1>3. BudgetInv
  BY DEF OpeningInit, BudgetInv
<1>4. RefundInv
  BY DEF OpeningInit, RefundInv, NoCall, Call, Opt
<1> QED
  BY <1>1, <1>2, <1>3, <1>4 DEF OpeningInv

(***************************************************************************)
(* Steps.                                                                  *)
(***************************************************************************)

(* The constructor's statements, each of which may be the last. *)
LEMMA ConstructorKeeps ==
  ASSUME OpeningInv,
         \/ OpenFile \/ EnsureColumn \/ EnsureWatchStateConstraint \/ CreateRefundAuditTable
         \/ CreateUniqueIndex \/ CreateOpenIndex \/ RepairBudgets \/ ServerStops
  PROVE  OpeningInv' /\ db' = db
<1>1. db' = db
  BY DEF OpenFile, EnsureColumn, EnsureWatchStateConstraint, CreateRefundAuditTable,
         CreateUniqueIndex, CreateOpenIndex, RepairBudgets, ServerStops, Copied
<1>2. TableInv(db)'
  BY <1>1 DEF OpeningInv
<1>3. refunds' = refunds /\ recorder' = recorder
  BY DEF OpenFile, EnsureColumn, EnsureWatchStateConstraint, CreateRefundAuditTable,
         CreateUniqueIndex, CreateOpenIndex, RepairBudgets, ServerStops
<1>4. RefundInv'
  BY <1>1, <1>3 DEF OpeningInv, RefundInv
<1>5. SchemaInv'
  <2> USE DEF OpeningInv, SchemaInv, Rebuilt
  <2>1. CASE OpenFile
    <3>1. Created \in Schema /\ Created.refunds = "none"
      <4>1. NoFile \in Schema /\ NoFile.refunds = "none"
        BY DEF NoFile, Schema, ColumnGroups
      <4>2. ColumnGroups \in 0..ColumnGroups
        BY DEF ColumnGroups
      <4> QED
        BY <4>1, <4>2 DEF Created, Schema
    <3> QED
      BY <2>1, <3>1 DEF OpenFile
  <2>2. CASE EnsureColumn
    <3>1. schema.columns < ColumnGroups => schema.columns + 1 \in 0..ColumnGroups
      BY DEF Schema, ColumnGroups
    <3> QED
      BY <2>2, <3>1 DEF EnsureColumn, Schema
  <2>3. CASE EnsureWatchStateConstraint
    BY <2>3 DEF EnsureWatchStateConstraint, Schema
  <2>4. CASE CreateRefundAuditTable
    BY <2>4 DEF CreateRefundAuditTable, Schema
  <2>5. CASE CreateUniqueIndex
    <3>1. PICK index \in UniqueIndexes \ schema.indexes :
            \/ schema' = [schema EXCEPT !.indexes = @ \cup {index}] /\ server' = server
            \/ server' = "down" /\ schema' = schema
      BY <2>5 DEF CreateUniqueIndex
    <3>2. server = "indexes"
      BY <2>5 DEF CreateUniqueIndex
    <3>3. schema.indexes \cup {index} \in SUBSET UniqueIndexes
      BY DEF Schema
    <3> QED
      BY <3>1, <3>2, <3>3 DEF Schema
  <2>6. CASE CreateOpenIndex
    BY <2>6 DEF CreateOpenIndex, Schema
  <2>7. CASE RepairBudgets \/ ServerStops
    BY <2>7 DEF RepairBudgets, ServerStops
  <2> QED
    BY <2>1, <2>2, <2>3, <2>4, <2>5, <2>6, <2>7
<1>6. BudgetInv'
  <2> USE DEF OpeningInv, BudgetInv
  <2>1. CASE RepairBudgets
    <3>1. budget' = Repaired
      BY <2>1 DEF RepairBudgets
    <3>2. WorkUnitBudget # None
      BY StoreAssumption
    <3>3. \A w \in Watches :
            /\ Open(db[w]) => budget'[w] # None
            /\ budget'[w] \in {None, WorkUnitBudget}
            /\ budget'[w] # None => db[w].state # "absent"
      BY <3>1, <3>2 DEF Repaired, Coalesce, Open
    <3>4. budget' \in [Watches -> {None, WorkUnitBudget}]
      BY <3>1, <3>3 DEF Repaired
    <3> QED
      BY <1>1, <3>3, <3>4
  <2>2. CASE \/ OpenFile \/ EnsureColumn \/ EnsureWatchStateConstraint \/ CreateRefundAuditTable
             \/ CreateUniqueIndex \/ CreateOpenIndex \/ ServerStops
    <3>1. budget' = budget /\ server' # "serving"
      BY <2>2 DEF OpenFile, EnsureColumn, EnsureWatchStateConstraint, CreateRefundAuditTable,
                  CreateUniqueIndex, CreateOpenIndex, ServerStops
    <3> QED
      BY <1>1, <3>1
  <2> QED
    BY <2>1, <2>2
<1> QED
  BY <1>1, <1>2, <1>4, <1>5, <1>6 DEF OpeningInv

(* The calls of the service. *)
LEMMA ServingKeeps ==
  ASSUME OpeningInv, Serve
  PROVE  OpeningInv' /\ SoundStep(db, db') /\ RowsStay(db, db')
<1>1. SoundStep(db, db') /\ RowsStay(db, db')
  BY CallIsSound, CallKeepsRows DEF OpeningInv, Serve
<1>2. /\ schema' = schema /\ server' = server /\ refunds' = refunds /\ recorder' = recorder
      /\ server = "serving"
  BY DEF Serve
<1>3. SchemaInv'
  BY <1>2 DEF OpeningInv, SchemaInv, Rebuilt
<1>4. RefundInv'
  <2>1. \A r \in Recorders : recorder[r].at = "insert" => db'[recorder[r].watch].state # "absent"
    BY <1>1 DEF OpeningInv, RefundInv, RowsStay
  <2>2. ASSUME NEW x \in RefundTxs, refunds[x] # None PROVE db'[refunds[x].watch].state # "absent"
    <3>1. refunds[x] \in [watch : Watches, terms : Terms]
      BY <2>2 DEF OpeningInv, RefundInv
    <3>2. refunds[x].watch \in Watches
      BY <3>1
    <3> QED
      BY <1>1, <2>2, <3>2 DEF OpeningInv, RefundInv, RowsStay
  <2> QED
    BY <1>2, <2>1, <2>2 DEF OpeningInv, RefundInv
<1>5. BudgetInv'
  <2>1. budget' = [w \in Watches |->
                    IF db[w].state = "absent" /\ db'[w].state # "absent"
                    THEN WorkUnitBudget ELSE budget[w]]
    BY DEF Serve
  <2>2. WorkUnitBudget # None
    BY StoreAssumption
  <2>3. budget' \in [Watches -> {None, WorkUnitBudget}]
    BY <2>1 DEF OpeningInv, BudgetInv
  <2>4. \A w \in Watches : budget'[w] # None => db'[w].state # "absent"
    BY <1>1, <2>1 DEF OpeningInv, BudgetInv, RowsStay
  <2>5. ASSUME NEW w \in Watches, Open(db'[w]) PROVE budget'[w] # None
    <3>1. db'[w].state # "absent"
      BY <2>5 DEF Open
    <3> QED
      BY <1>1, <1>2, <2>1, <2>2, <2>5, <3>1 DEF OpeningInv, BudgetInv, RowsStay
  <2> QED
    BY <2>3, <2>4, <2>5 DEF BudgetInv
<1> QED
  BY <1>1, <1>3, <1>4, <1>5 DEF OpeningInv, SoundStep

(* A recorder's two statements. *)
LEMMA RecordingKeeps ==
  ASSUME OpeningInv, NEW r \in Recorders,
         OpenForAudit(r) \/ LookUpRefund(r) \/ InsertRefund(r)
  PROVE  OpeningInv' /\ db' = db
<1>1. db' = db /\ schema' = schema /\ budget' = budget /\ server' = server
  BY DEF OpenForAudit, LookUpRefund, InsertRefund
<1>2. TableInv(db)' /\ SchemaInv' /\ BudgetInv'
  BY <1>1 DEF OpeningInv, SchemaInv, Rebuilt, BudgetInv
<1>3. RefundInv'
  <2>0. NoCall \in Call /\ NoCall.at = "idle"
    BY DEF NoCall, Call, Opt
  <2>1. CASE OpenForAudit(r)
    <3>1. PICK w \in Watches, x \in RefundTxs, terms \in Terms :
            recorder' = [recorder EXCEPT ![r] = [at |-> "lookup", watch |-> w, tx |-> x, terms |-> terms]]
      BY <2>1 DEF OpenForAudit
    <3>2. [at |-> "lookup", watch |-> w, tx |-> x, terms |-> terms] \in Call
      BY DEF Call, Opt
    <3>3. refunds' = refunds
      BY <2>1 DEF OpenForAudit
    <3> QED
      BY <1>1, <3>1, <3>2, <3>3 DEF OpeningInv, RefundInv
  <2>2. CASE LookUpRefund(r)
    <3>1. refunds' = refunds /\ recorder[r].at = "lookup"
      BY <2>2 DEF LookUpRefund
    <3>2. \/ recorder' = [recorder EXCEPT ![r] = NoCall]
          \/ /\ recorder' = [recorder EXCEPT ![r] = [@ EXCEPT !.at = "insert"]]
             /\ db[recorder[r].watch].state # "absent"
      BY <2>2 DEF LookUpRefund, OpeningInv, RefundInv
    <3>3. CASE recorder' = [recorder EXCEPT ![r] = NoCall]
      BY <1>1, <2>0, <3>1, <3>3 DEF OpeningInv, RefundInv
    <3>4. CASE /\ recorder' = [recorder EXCEPT ![r] = [@ EXCEPT !.at = "insert"]]
               /\ db[recorder[r].watch].state # "absent"
      BY <1>1, <3>1, <3>4 DEF OpeningInv, RefundInv, Call
    <3> QED
      BY <3>2, <3>3, <3>4
  <2>3. CASE InsertRefund(r)
    <3> DEFINE call == recorder[r]
    <3>1. /\ call.at = "insert" /\ call.watch \in Watches /\ call.tx \in RefundTxs
          /\ call.terms \in Terms /\ db[call.watch].state # "absent"
      BY <2>3 DEF InsertRefund, OpeningInv, RefundInv
    <3>2. Evidence(call) \in [watch : Watches, terms : Terms] /\ Evidence(call).watch = call.watch
      BY <3>1 DEF Evidence
    <3>3. recorder' = [recorder EXCEPT ![r] = NoCall]
      BY <2>3 DEF InsertRefund
    <3>4. refunds' = refunds \/ refunds' = [refunds EXCEPT ![call.tx] = Coalesce(@, Evidence(call))]
      BY <2>3 DEF InsertRefund
    <3>5. \A x \in RefundTxs : refunds'[x] = refunds[x] \/ refunds'[x] = Evidence(call)
      BY <3>1, <3>4 DEF OpeningInv, RefundInv, Coalesce
    <3>6. refunds' \in [RefundTxs -> {None} \cup [watch : Watches, terms : Terms]]
      <4>1. refunds \in [RefundTxs -> {None} \cup [watch : Watches, terms : Terms]]
        BY DEF OpeningInv, RefundInv
      <4>2. Coalesce(refunds[call.tx], Evidence(call)) \in {None} \cup [watch : Watches, terms : Terms]
        BY <3>1, <3>2, <4>1 DEF Coalesce
      <4> QED
        BY <3>4, <4>1, <4>2
    <3>7. \A x \in RefundTxs : refunds'[x] # None => db[refunds'[x].watch].state # "absent"
      BY <3>1, <3>2, <3>5 DEF OpeningInv, RefundInv
    <3>8. recorder' \in [Recorders -> Call]
      BY <2>0, <3>3 DEF OpeningInv, RefundInv
    <3> QED
      BY <1>1, <2>0, <3>3, <3>6, <3>7, <3>8 DEF OpeningInv, RefundInv
  <2> QED
    BY <2>1, <2>2, <2>3
<1> QED
  BY <1>1, <1>2, <1>3 DEF OpeningInv

(* Every step keeps the invariant and lets rows only progress. *)
LEMMA OpeningInvNext ==
  OpeningInv /\ [OpeningNext]_<<db, openingVars>> => OpeningInv' /\ SoundStep(db, db')
<1> SUFFICES ASSUME OpeningInv, [OpeningNext]_<<db, openingVars>>
             PROVE  OpeningInv' /\ SoundStep(db, db')
  OBVIOUS
<1>1. SoundStep(db, db)
  BY StutterIsSound DEF OpeningInv
<1>2. CASE \/ OpenFile \/ EnsureColumn \/ EnsureWatchStateConstraint \/ CreateRefundAuditTable
           \/ CreateUniqueIndex \/ CreateOpenIndex \/ RepairBudgets \/ ServerStops
  BY <1>1, <1>2, ConstructorKeeps
<1>3. CASE Serve
  BY <1>3, ServingKeeps
<1>4. CASE \E r \in Recorders : OpenForAudit(r) \/ LookUpRefund(r) \/ InsertRefund(r)
  BY <1>1, <1>4, RecordingKeeps
<1>5. CASE UNCHANGED <<db, openingVars>>
  <2>1. OpeningInv'
    BY <1>5 DEF openingVars, OpeningInv, SchemaInv, Rebuilt, BudgetInv, RefundInv
  <2> QED
    BY <1>1, <1>5, <2>1
<1> QED
  BY <1>2, <1>3, <1>4, <1>5 DEF OpeningNext

(* The invariant of the opening, in every state. *)
LEMMA OpeningInvHolds == OpeningSpec => []OpeningInv
<1>1. OpeningInv /\ [OpeningNext]_<<db, openingVars>> => OpeningInv'
  BY OpeningInvNext
<1> QED
  BY <1>1, OpeningInvInit, PTL DEF OpeningSpec

(***************************************************************************)
(* The properties.                                                         *)
(***************************************************************************)

(* The RoundWatchStore constructor: on any old file, however often its      *)
(* opening was cut short, a serving store owes no open row its budget.      *)
THEOREM EveryOpenRowAlwaysPaid == OpeningSpec => []EveryOpenRowIsPaid
<1>1. OpeningInv => EveryOpenRowIsPaid
  <2> SUFFICES ASSUME OpeningInv, server = "serving", NEW w \in Watches
               PROVE  /\ Open(db[w]) => budget[w] # None
                      /\ budget[w] # None => db[w].used <= budget[w]
    BY DEF EveryOpenRowIsPaid
  <2>1. budget[w] \in {None, WorkUnitBudget} /\ db[w].used <= WorkUnitBudget
    BY DEF OpeningInv, BudgetInv, TableInv, RowInv
  <2> QED
    BY <2>1 DEF OpeningInv, BudgetInv
<1> QED
  BY <1>1, OpeningInvHolds, PTL

(* createRefundAuditTable runs after the rebuild, so no rebuild, crash or   *)
(* recorder ever detaches a refund from its watch.                          *)
THEOREM RefundsAlwaysLinked == OpeningSpec => []RefundsStayLinked
<1>1. OpeningInv => RefundsStayLinked
  BY DEF OpeningInv, SchemaInv, Schema, RefundInv, RefundsStayLinked
<1> QED
  BY <1>1, OpeningInvHolds, PTL

(* recordRefundEvidence and the budget repair: what is recorded for a       *)
(* refund transaction and the budget a row was granted are never replaced,  *)
(* by another recorder, by a restart or by a later opening.                 *)
THEOREM RecordsAlwaysStand == OpeningSpec => RecordsStand
<1>1. OpeningInv /\ [OpeningNext]_<<db, openingVars>> =>
        [/\ \A x \in RefundTxs : refunds[x] # None => refunds'[x] = refunds[x]
         /\ \A w \in Watches : budget[w] # None => budget'[w] = budget[w]]_<<refunds, budget>>
  <2> SUFFICES ASSUME OpeningInv, OpeningNext \/ UNCHANGED <<db, openingVars>>
               PROVE  /\ \A x \in RefundTxs : refunds[x] # None => refunds'[x] = refunds[x]
                      /\ \A w \in Watches : budget[w] # None => budget'[w] = budget[w]
    OBVIOUS
  <2>1. CASE \E r \in Recorders : InsertRefund(r)
    <3>1. PICK r \in Recorders : InsertRefund(r)
      BY <2>1
    <3>2. /\ budget' = budget
          /\ \/ refunds' = refunds
             \/ refunds' = [refunds EXCEPT ![recorder[r].tx] = Coalesce(@, Evidence(recorder[r]))]
      BY <3>1 DEF InsertRefund
    <3> QED
      BY <3>2 DEF OpeningInv, RefundInv, Coalesce
  <2>2. CASE RepairBudgets
    BY <2>2 DEF RepairBudgets, Repaired, Coalesce
  <2>3. CASE Serve
    <3>1. \A w \in Watches : budget[w] # None => db[w].state # "absent"
      BY DEF OpeningInv, BudgetInv
    <3> QED
      BY <2>3, <3>1 DEF Serve
  <2>4. CASE \/ OpenFile \/ EnsureColumn \/ EnsureWatchStateConstraint \/ CreateRefundAuditTable
             \/ CreateUniqueIndex \/ CreateOpenIndex \/ ServerStops
             \/ \E r \in Recorders : OpenForAudit(r) \/ LookUpRefund(r)
    BY <2>4 DEF OpenFile, EnsureColumn, EnsureWatchStateConstraint, CreateRefundAuditTable,
                CreateUniqueIndex, CreateOpenIndex, ServerStops, OpenForAudit, LookUpRefund
  <2>5. CASE UNCHANGED <<db, openingVars>>
    BY <2>5 DEF openingVars
  <2> QED
    BY <2>1, <2>2, <2>3, <2>4, <2>5 DEF OpeningNext
<1> QED
  BY <1>1, OpeningInvHolds, PTL DEF OpeningSpec, RecordsStand

(* What the store's methods keep they keep on a database that an older      *)
(* version left and that was opened again and again.                        *)
THEOREM OpenedTableStaysSound ==
  OpeningSpec => []CapsRespected /\ []NoSharedReservation /\ []BudgetRespected /\ []ExpiredWasScanned
<1>1. OpeningInv => CapsRespected /\ NoSharedReservation /\ BudgetRespected /\ ExpiredWasScanned
  <2> SUFFICES ASSUME TableInv(db)
               PROVE  CapsRespected /\ NoSharedReservation /\ BudgetRespected /\ ExpiredWasScanned
    BY DEF OpeningInv
  <2>1. CapsRespected
    BY DEF TableInv, CapsRespected, SoldTo
  <2>2. NoSharedReservation
    BY DEF TableInv, NoSharedReservation, Apart
  <2>3. BudgetRespected
    BY DEF TableInv, RowInv, BudgetRespected
  <2>4. ExpiredWasScanned
    BY StoreAssumption DEF TableInv, RowInv, ExpiredWasScanned
  <2> QED
    BY <2>1, <2>2, <2>3, <2>4
<1> QED
  BY <1>1, OpeningInvHolds, PTL

(* Rows only progress, through rebuilds and restarts as through calls.      *)
THEOREM OpenedRowsOnlyProgress == OpeningSpec => RowOnlyProgresses
<1>1. OpeningInv /\ [OpeningNext]_<<db, openingVars>> => [\A w \in Watches : Progresses(db[w], db'[w])]_db
  BY OpeningInvNext DEF SoundStep
<1> QED
  BY <1>1, OpeningInvHolds, PTL DEF OpeningSpec, RowOnlyProgresses
=============================================================================
