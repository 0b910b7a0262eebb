-------------------------- MODULE WatchStoreProofs --------------------------
(***************************************************************************)
(* Lemmas about the store's methods as functions of the table: each one    *)
(* keeps TableInv and only lets a row progress.  They hold for every table *)
(* and argument, so they serve any specification that calls the methods.   *)
(***************************************************************************)
EXTENDS WatchStore, FiniteSetTheorems, TLAPS

(* The row a method leaves at w. *)
Put(d, w, row) == [d EXCEPT ![w] = row]

(* What every row satisfies. *)
RowInv(row) ==
    /\ row \in Row
    /\ row.state = "absent" => row.tx = None /\ row.payer = None /\ row.used = 0
    /\ row.state = "absent" \/ Settling(row) =>
         row.serviceTx = None /\ row.scanAfter = None /\ row.closing = None
    /\ row.state = "settlement_pending" => ~row.terminal
    /\ row.proof => row.payer # None
    /\ row.used <= WorkUnitBudget
    /\ row.reason = "work_budget_exhausted" => row.used = WorkUnitBudget
    /\ row.state \in {"active", "matched", "expired"} =>
         /\ row.serviceTx # None
         /\ row.activationRound \in Nat
         /\ row.scanAfter \in Nat
         /\ row.scanAfter >= row.activationRound
    /\ row.state = "expired" => row.closing \in Nat /\ row.scanAfter >= row.closing

(* Rows v and w do not claim the same payment or the same payer and key. *)
Apart(a, b) ==
    /\ a.tx # None => a.tx # b.tx
    /\ a.serviceTx # None => a.serviceTx # b.serviceTx
    /\ a.payer # None /\ a.payer = b.payer => a.key # b.key

(* Open obligations of payer p that were sold with a verified intent. *)
SoldTo(d, p) == {w \in OpenWatchesOf(d, p) : d[w].proof}

TableInv(d) ==
    /\ d \in [Watches -> Row]
    /\ \A w \in Watches : RowInv(d[w])
    /\ \A v, w \in Watches : v # w => Apart(d[v], d[w])
    /\ Cardinality(OpenWatches(d)) <= MaxOpenWatches
    /\ \A p \in Payers : Cardinality(SoldTo(d, p)) <= MaxOpenWatchesPerPayer

(* A change of one row that takes no claim and opens no obligation. *)
Quiet(old, new) ==
    /\ new.key = old.key /\ new.tx = old.tx /\ new.payer = old.payer
    /\ new.serviceTx = old.serviceTx /\ new.servicePayer = old.servicePayer
    /\ new.proof = old.proof
    /\ Open(new) => Open(old)

-----------------------------------------------------------------------------
(* Sets of watches are finite, so caps on them are numbers.                 *)
LEMMA WatchSetsFinite ==
  ASSUME NEW S \in SUBSET Watches
  PROVE  IsFiniteSet(S) /\ Cardinality(S) \in Nat
BY StoreAssumption, FS_Subset, FS_CardinalityType

(* A smaller set of obligations stays within its cap.                       *)
LEMMA FewerStayWithin ==
  ASSUME NEW S \in SUBSET Watches, NEW T \in SUBSET S, NEW cap \in Nat, Cardinality(S) <= cap
  PROVE  Cardinality(T) <= cap
BY WatchSetsFinite, FS_Subset

(* One more obligation fits where there was room.                           *)
LEMMA OneMoreFits ==
  ASSUME NEW S \in SUBSET Watches, NEW w \in Watches, NEW cap \in Nat, Cardinality(S) < cap
  PROVE  Cardinality(S \cup {w}) <= cap
<1>1. Cardinality(S \cup {w}) = IF w \in S THEN Cardinality(S) ELSE Cardinality(S) + 1
  BY WatchSetsFinite, FS_AddElement, Zenon
<1> QED
  BY <1>1, WatchSetsFinite

(* A quiet change of a row keeps the table sound.                           *)
LEMMA QuietKeepsTable ==
  ASSUME NEW d, TableInv(d), NEW w \in Watches, NEW row, RowInv(row), Quiet(d[w], row)
  PROVE  TableInv(Put(d, w, row))
<1> DEFINE e == Put(d, w, row)
<1>1. d \in [Watches -> Row] /\ row \in Row
  BY DEF TableInv, RowInv
<1>2. e \in [Watches -> Row] /\ e[w] = row /\ \A v \in Watches \ {w} : e[v] = d[v]
  BY <1>1 DEF Put
<1> HIDE DEF e
<1>3. \A v \in Watches : RowInv(e[v])
  BY <1>2 DEF TableInv
<1>4. \A u, v \in Watches : u # v => Apart(e[u], e[v])
  BY <1>2 DEF TableInv, Apart, Quiet
<1>5. OpenWatches(e) \subseteq OpenWatches(d)
  BY <1>2 DEF OpenWatches, Quiet
<1>6. ASSUME NEW p \in Payers PROVE SoldTo(e, p) \subseteq SoldTo(d, p)
  <2> SUFFICES ASSUME NEW v \in SoldTo(e, p) PROVE v \in SoldTo(d, p)
    OBVIOUS
  <2>1. v \in Watches /\ v \in OpenWatches(d)
    BY <1>5 DEF SoldTo, OpenWatchesOf, OpenWatches
  <2>2. /\ e[v].payer = d[v].payer /\ e[v].servicePayer = d[v].servicePayer
        /\ e[v].proof = d[v].proof
    BY <1>2, <2>1 DEF Quiet
  <2> QED
    BY <2>1, <2>2 DEF SoldTo, OpenWatchesOf, Coalesce
<1>7. Cardinality(OpenWatches(e)) <= MaxOpenWatches
  BY <1>5, FewerStayWithin, StoreAssumption DEF TableInv, OpenWatches
<1>8. ASSUME NEW p \in Payers PROVE Cardinality(SoldTo(e, p)) <= MaxOpenWatchesPerPayer
  <2>1. SoldTo(d, p) \in SUBSET Watches
    BY DEF SoldTo, OpenWatchesOf, OpenWatches
  <2> QED
    BY <1>6, <2>1, FewerStayWithin, StoreAssumption DEF TableInv
<1>9. TableInv(e)
  BY <1>2, <1>3, <1>4, <1>7, <1>8 DEF TableInv
<1> QED
  BY <1>9 DEF e

-----------------------------------------------------------------------------
(* A step of the table is sound: it keeps TableInv and only progresses.     *)
SoundStep(d, e) ==
    /\ TableInv(e)
    /\ \A w \in Watches : Progresses(d[w], e[w])

(* Doing nothing is sound.                                                  *)
LEMMA StutterIsSound ==
  ASSUME NEW d, TableInv(d)
  PROVE  SoundStep(d, d)
<1>1. ASSUME NEW w \in Watches
      PROVE  /\ d[w].scanAfter # None => d[w].scanAfter >= d[w].scanAfter
             /\ d[w].used >= d[w].used
  BY DEF TableInv, Row, Opt
<1> QED
  BY <1>1 DEF SoundStep, Progresses

(* A quiet change that progresses the row is sound.                         *)
LEMMA QuietStep ==
  ASSUME NEW d, TableInv(d), NEW w \in Watches, NEW row,
         RowInv(row), Quiet(d[w], row), Progresses(d[w], row)
  PROVE  SoundStep(d, Put(d, w, row))
<1>1. TableInv(Put(d, w, row))
  BY QuietKeepsTable
<1>2. Put(d, w, row)[w] = row /\ \A v \in Watches \ {w} : Put(d, w, row)[v] = d[v]
  BY DEF TableInv, Put
<1>3. \A v \in Watches : Progresses(d[v], d[v])
  BY StutterIsSound DEF SoundStep
<1> QED
  BY <1>1, <1>2, <1>3 DEF SoundStep

(* markSettlementUnknown reopens nothing: only a pending row becomes unknown. *)
LEMMA MarkUnknownIsSound ==
  ASSUME NEW d, TableInv(d), NEW w \in Watches
  PROVE  SoundStep(d, MarkSettlementUnknown(d, w))
<1>1. CASE d[w].state = "settlement_pending"
  <2> DEFINE row == [d[w] EXCEPT !.state = "settlement_unknown", !.terminal = FALSE]
  <2>1. MarkSettlementUnknown(d, w) = Put(d, w, row)
    BY <1>1 DEF MarkSettlementUnknown, Put, TableInv
  <2>2. RowInv(d[w])
    BY DEF TableInv
  <2>3. RowInv(row)
    BY <1>1, <2>2 DEF RowInv, Row, WatchState, Settling
  <2>4. Quiet(d[w], row)
    BY <1>1, <2>2 DEF Quiet, Open, RowInv, Row
  <2>5. Progresses(d[w], row)
    BY <1>1, <2>2 DEF Progresses, RowInv, Row, Opt, Final
  <2> QED
    BY <2>1, <2>3, <2>4, <2>5, QuietStep
<1>2. CASE d[w].state # "settlement_pending"
  BY <1>2, StutterIsSound DEF MarkSettlementUnknown
<1> QED
  BY <1>1, <1>2

(* markSettlementInvalid closes a settling row for good.                    *)
LEMMA MarkInvalidIsSound ==
  ASSUME NEW d, TableInv(d), NEW w \in Watches
  PROVE  SoundStep(d, MarkSettlementInvalid(d, w))
<1>1. RowInv(d[w]) /\ Progresses(d[w], d[w])
  BY StutterIsSound DEF TableInv, SoundStep
<1>2. CASE Settling(d[w])
  <2> DEFINE row == [d[w] EXCEPT !.state = "settlement_unknown", !.terminal = TRUE]
  <2>1. MarkSettlementInvalid(d, w) = Put(d, w, row)
    BY <1>2 DEF MarkSettlementInvalid, Put, TableInv
  <2>2. row \in Row
    BY <1>1, <1>2 DEF RowInv, Row, WatchState
  <2>3. RowInv(row)
    BY <1>1, <1>2, <2>2 DEF RowInv, Row, Settling
  <2>4. Quiet(d[w], row)
    BY <1>1, <1>2 DEF Quiet, Open, RowInv, Row, Settling
  <2>5. Progresses(d[w], row)
    BY <1>1, <1>2 DEF Progresses, RowInv, Row, Final, Settling
  <2> QED
    BY <2>1, <2>3, <2>4, <2>5, QuietStep
<1>3. CASE ~(Settling(d[w]))
  BY <1>3, StutterIsSound DEF MarkSettlementInvalid
<1> QED
  BY <1>2, <1>3

(* A reconciliation failure only counts.                                    *)
LEMMA ReconciliationFailureIsSound ==
  ASSUME NEW d, TableInv(d), NEW w \in Watches
  PROVE  SoundStep(d, RecordReconciliationFailure(d, w))
<1>1. RowInv(d[w]) /\ Progresses(d[w], d[w])
  BY StutterIsSound DEF TableInv, SoundStep
<1>2. CASE Reconcilable(d[w])
  <2> DEFINE row == [d[w] EXCEPT !.attempts = @ + 1, !.reconcileWaiting = TRUE]
  <2>1. RecordReconciliationFailure(d, w) = Put(d, w, row)
    BY <1>2 DEF RecordReconciliationFailure, Put, TableInv
  <2>2. d[w].attempts + 1 \in Nat
    BY <1>1 DEF RowInv, Row
  <2>3. row \in Row
    BY <1>1, <1>2, <2>2 DEF RowInv, Row, WatchState, Reconcilable
  <2>4. RowInv(row)
    BY <1>1, <1>2, <2>3 DEF RowInv, Row, Settling, Reconcilable
  <2>5. Quiet(d[w], row)
    BY <1>1, <1>2 DEF Quiet, Open, RowInv, Row, Settling, Reconcilable
  <2>6. Progresses(d[w], row)
    BY <1>1, <1>2 DEF Progresses, RowInv, Row, Final, Settling, Reconcilable
  <2> QED
    BY <2>1, <2>4, <2>5, <2>6, QuietStep
<1>3. CASE ~(Reconcilable(d[w]))
  BY <1>3, StutterIsSound DEF RecordReconciliationFailure
<1> QED
  BY <1>2, <1>3

(* A polling failure counts, or closes the row as indeterminate.            *)
LEMMA PollingFailureIsSound ==
  ASSUME NEW d, TableInv(d), NEW w \in Watches, NEW permanent \in BOOLEAN
  PROVE  SoundStep(d, RecordPollingFailure(d, w, permanent))
<1>1. RowInv(d[w]) /\ Progresses(d[w], d[w])
  BY StutterIsSound DEF TableInv, SoundStep
<1>2. CASE d[w].state = "active" /\ permanent
  <2> DEFINE row == [d[w] EXCEPT !.state = "indeterminate", !.failures = @ + 1,
                              !.pollWaiting = FALSE, !.reason = "indexer_permanent_failure"]
  <2>1. RecordPollingFailure(d, w, permanent) = Put(d, w, row)
    BY <1>2 DEF RecordPollingFailure, Put, TableInv
  <2>2. d[w].failures + 1 \in Nat
    BY <1>1 DEF RowInv, Row
  <2>3. row \in Row
    <3>1. "indexer_permanent_failure" \in Opt(Reasons)
      BY DEF Opt, Reasons
    <3> QED
      BY <1>1, <1>2, <2>2, <3>1 DEF RowInv, Row, WatchState
  <2>4. RowInv(row)
    BY <1>1, <1>2, <2>3 DEF RowInv, Row, Settling
  <2>5. Quiet(d[w], row)
    BY <1>1, <1>2 DEF Quiet, Open, RowInv, Row, Settling
  <2>6. Progresses(d[w], row)
    BY <1>1, <1>2 DEF Progresses, RowInv, Row, Final, Settling
  <2> QED
    BY <2>1, <2>4, <2>5, <2>6, QuietStep
<1>3. CASE d[w].state = "active" /\ ~permanent
  <2> DEFINE row == [d[w] EXCEPT !.failures = @ + 1, !.pollWaiting = TRUE]
  <2>1. RecordPollingFailure(d, w, permanent) = Put(d, w, row)
    BY <1>3 DEF RecordPollingFailure, Put, TableInv
  <2>2. d[w].failures + 1 \in Nat
    BY <1>1 DEF RowInv, Row
  <2>3. row \in Row
    BY <1>1, <1>3, <2>2 DEF RowInv, Row, WatchState
  <2>4. RowInv(row)
    BY <1>1, <1>3, <2>3 DEF RowInv, Row, Settling
  <2>5. Quiet(d[w], row)
    BY <1>1, <1>3 DEF Quiet, Open, RowInv, Row, Settling
  <2>6. Progresses(d[w], row)
    BY <1>1, <1>3 DEF Progresses, RowInv, Row, Final, Settling
  <2> QED
    BY <2>1, <2>4, <2>5, <2>6, QuietStep
<1>4. CASE ~((d[w].state = "active" /\ permanent) \/ (d[w].state = "active" /\ ~permanent))
  BY <1>4, StutterIsSound DEF RecordPollingFailure
<1> QED
  BY <1>2, <1>3, <1>4

(* Clearing the failure record touches nothing else.                        *)
LEMMA ClearFailureIsSound ==
  ASSUME NEW d, TableInv(d), NEW w \in Watches
  PROVE  SoundStep(d, ClearPollingFailure(d, w))
<1>1. RowInv(d[w]) /\ Progresses(d[w], d[w])
  BY StutterIsSound DEF TableInv, SoundStep
<1>2. CASE d[w].state = "active"
  <2> DEFINE row == [d[w] EXCEPT !.failures = 0, !.pollWaiting = FALSE]
  <2>1. ClearPollingFailure(d, w) = Put(d, w, row)
    BY <1>2 DEF ClearPollingFailure, Put, TableInv
  <2>2. row \in Row
    BY <1>1, <1>2 DEF RowInv, Row, WatchState
  <2>3. RowInv(row)
    BY <1>1, <1>2, <2>2 DEF RowInv, Row, Settling
  <2>4. Quiet(d[w], row)
    BY <1>1, <1>2 DEF Quiet, Open, RowInv, Row, Settling
  <2>5. Progresses(d[w], row)
    BY <1>1, <1>2 DEF Progresses, RowInv, Row, Final, Settling
  <2> QED
    BY <2>1, <2>3, <2>4, <2>5, QuietStep
<1>3. CASE ~(d[w].state = "active")
  BY <1>3, StutterIsSound DEF ClearPollingFailure
<1> QED
  BY <1>2, <1>3

(* markMatched ends an active row.                                          *)
LEMMA MatchedIsSound ==
  ASSUME NEW d, TableInv(d), NEW w \in Watches, NEW round \in Nat
  PROVE  SoundStep(d, MarkMatched(d, w, round))
<1>1. RowInv(d[w]) /\ Progresses(d[w], d[w])
  BY StutterIsSound DEF TableInv, SoundStep
<1>2. CASE d[w].state = "active"
  <2> DEFINE row == [d[w] EXCEPT !.state = "matched", !.matchedRound = round]
  <2>1. MarkMatched(d, w, round) = Put(d, w, row)
    BY <1>2 DEF MarkMatched, Put, TableInv
  <2>2. round \in Opt(Nat)
    BY DEF Opt
  <2>3. row \in Row
    BY <1>1, <1>2, <2>2 DEF RowInv, Row, WatchState
  <2>4. RowInv(row)
    BY <1>1, <1>2, <2>3 DEF RowInv, Row, Settling
  <2>5. Quiet(d[w], row)
    BY <1>1, <1>2 DEF Quiet, Open, RowInv, Row, Settling
  <2>6. Progresses(d[w], row)
    BY <1>1, <1>2 DEF Progresses, RowInv, Row, Final, Settling
  <2> QED
    BY <2>1, <2>4, <2>5, <2>6, QuietStep
<1>3. CASE ~(d[w].state = "active")
  BY <1>3, StutterIsSound DEF MarkMatched
<1> QED
  BY <1>2, <1>3

(* The cursor moves only forward, whatever stale cursor a caller holds.     *)
LEMMA AdvanceIsSound ==
  ASSUME NEW d, TableInv(d), NEW w \in Watches, NEW expected \in Nat, NEW round \in Nat
  PROVE  SoundStep(d, AdvanceScanRound(d, w, expected, round))
<1>1. RowInv(d[w]) /\ Progresses(d[w], d[w])
  BY StutterIsSound DEF TableInv, SoundStep
<1>2. CASE CanAdvance(d[w], expected, round)
  <2> DEFINE row == [d[w] EXCEPT !.scanAfter = round]
  <2>1. AdvanceScanRound(d, w, expected, round) = Put(d, w, row)
    BY <1>2 DEF AdvanceScanRound, Put, TableInv
  <2>2. round \in Opt(Nat)
    BY DEF Opt
  <2>3. row \in Row
    BY <1>1, <1>2, <2>2 DEF RowInv, Row, WatchState, CanAdvance
  <2>4. RowInv(row)
    BY <1>1, <1>2, <2>3 DEF RowInv, Row, Settling, CanAdvance
  <2>5. Quiet(d[w], row)
    BY <1>1, <1>2 DEF Quiet, Open, RowInv, Row, Settling, CanAdvance
  <2>6. Progresses(d[w], row)
    <3>1. round # None
      BY StoreAssumption
    <3> QED
      BY <1>1, <1>2, <3>1 DEF Progresses, RowInv, Row, Final, Settling, CanAdvance
  <2> QED
    BY <2>1, <2>4, <2>5, <2>6, QuietStep
<1>3. CASE ~(CanAdvance(d[w], expected, round))
  BY <1>3, StutterIsSound DEF AdvanceScanRound
<1> QED
  BY <1>2, <1>3

(* The closing round is written once.                                       *)
LEMMA SetClosingIsSound ==
  ASSUME NEW d, TableInv(d), NEW w \in Watches, NEW round \in Nat
  PROVE  SoundStep(d, SetClosingRound(d, w, round))
<1>1. RowInv(d[w]) /\ Progresses(d[w], d[w])
  BY StutterIsSound DEF TableInv, SoundStep
<1>2. CASE d[w].state = "active" /\ d[w].proof
  <2> DEFINE row == [d[w] EXCEPT !.closing = Coalesce(@, round)]
  <2>1. SetClosingRound(d, w, round) = Put(d, w, row)
    BY <1>2 DEF SetClosingRound, Put, TableInv
  <2>2. Coalesce(d[w].closing, round) \in Opt(Nat)
    BY <1>1 DEF Coalesce, Opt, RowInv, Row
  <2>3. row \in Row
    BY <1>1, <1>2, <2>2 DEF RowInv, Row, WatchState, Coalesce
  <2>4. RowInv(row)
    BY <1>1, <1>2, <2>3 DEF RowInv, Row, Settling, Coalesce
  <2>5. Quiet(d[w], row)
    BY <1>1, <1>2 DEF Quiet, Open, RowInv, Row, Settling, Coalesce
  <2>6. Progresses(d[w], row)
    BY <1>1, <1>2 DEF Progresses, RowInv, Row, Final, Settling, Coalesce
  <2> QED
    BY <2>1, <2>4, <2>5, <2>6, QuietStep
<1>3. CASE ~((d[w].state = "active" /\ d[w].proof))
  BY <1>3, StutterIsSound DEF SetClosingRound
<1> QED
  BY <1>2, <1>3

(* markExpired expires only a row scanned through its closing round.        *)
LEMMA ExpiredIsSound ==
  ASSUME NEW d, TableInv(d), NEW w \in Watches, NEW scan \in Nat, NEW closing \in Nat
  PROVE  SoundStep(d, MarkExpired(d, w, scan, closing))
<1>1. RowInv(d[w]) /\ Progresses(d[w], d[w])
  BY StutterIsSound DEF TableInv, SoundStep
<1>2. CASE /\ d[w].state = "active" /\ d[w].proof
          /\ d[w].scanAfter = scan /\ d[w].closing = closing
          /\ d[w].scanAfter >= d[w].closing
  <2> DEFINE row == [d[w] EXCEPT !.state = "expired"]
  <2>1. MarkExpired(d, w, scan, closing) = Put(d, w, row)
    BY <1>2 DEF MarkExpired, Put, TableInv
  <2>2. row \in Row
    BY <1>1, <1>2 DEF RowInv, Row, WatchState
  <2>3. RowInv(row)
    BY <1>1, <1>2, <2>2 DEF RowInv, Row, Settling
  <2>4. Quiet(d[w], row)
    BY <1>1, <1>2 DEF Quiet, Open, RowInv, Row, Settling
  <2>5. Progresses(d[w], row)
    BY <1>1, <1>2 DEF Progresses, RowInv, Row, Final, Settling
  <2> QED
    BY <2>1, <2>3, <2>4, <2>5, QuietStep
<1>3. CASE ~((/\ d[w].state = "active" /\ d[w].proof
          /\ d[w].scanAfter = scan /\ d[w].closing = closing
          /\ d[w].scanAfter >= d[w].closing))
  BY <1>3, StutterIsSound DEF MarkExpired
<1> QED
  BY <1>2, <1>3

(* A due retry only becomes eligible again.                                 *)
LEMMA RetryDueIsSound ==
  ASSUME NEW d, TableInv(d), NEW w \in Watches
  PROVE  SoundStep(d, PollRetryDue(d, w)) /\ SoundStep(d, ReconcileRetryDue(d, w))
<1>1. RowInv(d[w]) /\ Progresses(d[w], d[w])
  BY StutterIsSound DEF TableInv, SoundStep
<1>2. ASSUME NEW row \in {[d[w] EXCEPT !.pollWaiting = FALSE],
                          [d[w] EXCEPT !.reconcileWaiting = FALSE]}
      PROVE  SoundStep(d, Put(d, w, row))
  <2>1. row \in Row
    <3>1. [d[w] EXCEPT !.pollWaiting = FALSE] \in Row
      BY <1>1 DEF RowInv, Row
    <3>2. [d[w] EXCEPT !.reconcileWaiting = FALSE] \in Row
      BY <1>1 DEF RowInv, Row
    <3> QED
      BY <3>1, <3>2
  <2>2. RowInv(row)
    BY <1>1, <2>1 DEF RowInv, Row, Settling
  <2>3. Quiet(d[w], row)
    BY <1>1 DEF Quiet, Open, RowInv, Row
  <2>4. Progresses(d[w], row)
    BY <1>1 DEF Progresses, RowInv, Row, Final
  <2> QED
    BY <2>2, <2>3, <2>4, QuietStep
<1>3. /\ PollRetryDue(d, w) = Put(d, w, [d[w] EXCEPT !.pollWaiting = FALSE])
      /\ ReconcileRetryDue(d, w) = Put(d, w, [d[w] EXCEPT !.reconcileWaiting = FALSE])
  BY DEF PollRetryDue, ReconcileRetryDue, Put, TableInv
<1> QED
  BY <1>2, <1>3

(* A work unit is charged within the budget, and a row that has none left   *)
(* is closed, provided the claim was for a row that is still being worked   *)
(* for.                                                                     *)
LEMMA ClaimIsSound ==
  ASSUME NEW d, TableInv(d), NEW w \in Watches, NEW eligible \in BOOLEAN,
         eligible => d[w].state = "active" \/ Reconcilable(d[w])
  PROVE  SoundStep(d, ClaimWorkUnit(d, w, eligible))
<1>1. RowInv(d[w]) /\ Progresses(d[w], d[w])
  BY StutterIsSound DEF TableInv, SoundStep
<1>2. CASE ClaimOutcome(d[w], eligible) = "claimed"
  <2> DEFINE row == [d[w] EXCEPT !.used = @ + 1]
  <2>1. ClaimWorkUnit(d, w, eligible) = Put(d, w, row)
    BY <1>2 DEF ClaimWorkUnit, Put, TableInv
  <2>2. eligible /\ d[w].used < WorkUnitBudget
    BY <1>2 DEF ClaimOutcome
  <2>3. d[w].used \in Nat /\ d[w].used + 1 \in Nat
    BY <1>1 DEF RowInv, Row
  <2>4. row \in Row
    BY <1>1, <2>3 DEF RowInv, Row
  <2>5. RowInv(row)
    BY <1>1, <2>2, <2>3, <2>4, StoreAssumption DEF RowInv, Row, Settling, Reconcilable
  <2>6. Quiet(d[w], row)
    BY <1>1 DEF Quiet, Open, RowInv, Row
  <2>7. Progresses(d[w], row)
    BY <1>1, <2>3 DEF Progresses, RowInv, Row, Final
  <2> QED
    BY <2>1, <2>5, <2>6, <2>7, QuietStep
<1>3. CASE ClaimOutcome(d[w], eligible) = "exhausted"
  <2> DEFINE row == [d[w] EXCEPT !.state = "indeterminate", !.terminal = TRUE,
                                 !.reason = "work_budget_exhausted"]
  <2>1. ClaimWorkUnit(d, w, eligible) = Put(d, w, row)
    BY <1>3 DEF ClaimWorkUnit, Put, TableInv
  <2>2. eligible /\ ~(d[w].used < WorkUnitBudget)
    BY <1>3 DEF ClaimOutcome
  <2>3. d[w].used = WorkUnitBudget
    BY <1>1, <2>2, StoreAssumption DEF RowInv, Row
  <2>4. row \in Row
    <3>1. "work_budget_exhausted" \in Opt(Reasons)
      BY DEF Opt, Reasons
    <3> QED
      BY <1>1, <3>1 DEF RowInv, Row, WatchState
  <2>5. RowInv(row)
    BY <1>1, <2>2, <2>3, <2>4 DEF RowInv, Row, Settling
  <2>6. Quiet(d[w], row)
    BY <1>1 DEF Quiet, Open, RowInv, Row
  <2>7. Progresses(d[w], row)
    BY <1>1, <2>2 DEF Progresses, RowInv, Row, Final, Reconcilable, Settling
  <2> QED
    BY <2>1, <2>5, <2>6, <2>7, QuietStep
<1>4. CASE ClaimOutcome(d[w], eligible) = "inactive"
  BY <1>4, StutterIsSound DEF ClaimWorkUnit
<1> QED
  BY <1>2, <1>3, <1>4 DEF ClaimOutcome

-----------------------------------------------------------------------------
(* activateWatch takes the service payment for one row only.                *)
LEMMA ActivateIsSound ==
  ASSUME NEW d, TableInv(d), NEW w \in Watches, NEW t \in Txs, NEW round \in Nat,
         ActivationAccepted(d, w, t)
  PROVE  SoundStep(d, ActivateWatch(d, w, t, round))
<1>1. RowInv(d[w]) /\ d[w] \in Row /\ Progresses(d[w], d[w])
  BY StutterIsSound DEF TableInv, SoundStep
<1>2. CASE ~Reconcilable(d[w])
  BY <1>2, StutterIsSound DEF ActivateWatch
<1>3. CASE Reconcilable(d[w])
  <2> DEFINE row == [d[w] EXCEPT !.state = "active", !.serviceTx = t,
                                 !.servicePayer = PayerOf[t],
                                 !.activationRound = round, !.scanAfter = round]
             e == Put(d, w, row)
  <2>1. ActivateWatch(d, w, t, round) = e
    BY <1>3 DEF ActivateWatch, Put, TableInv
  <2>2. t \in Opt(Txs) /\ PayerOf[t] \in Opt(Payers) /\ round \in Opt(Nat) /\ t # None
    BY StoreAssumption DEF Opt
  <2>3. row \in Row
    BY <1>1, <2>2 DEF Row, WatchState
  <2>4. RowInv(row)
    BY <1>1, <2>2, <2>3 DEF RowInv, Row, Settling
  <2>5. /\ row.key = d[w].key /\ row.tx = d[w].tx /\ row.payer = d[w].payer
        /\ row.proof = d[w].proof /\ row.serviceTx = t
    BY <1>1 DEF Row
  <2>6. e \in [Watches -> Row] /\ e[w] = row /\ \A v \in Watches \ {w} : e[v] = d[v]
    BY <2>3 DEF Put, TableInv
  <2>7. Open(d[w])
    BY <1>3 DEF Reconcilable, Settling, Open
  <2>8. Progresses(d[w], row)
    BY <1>1, <1>3 DEF Progresses, RowInv, Row, Final, Reconcilable, Settling
  <2> HIDE DEF row, e
  <2>9. \A u, v \in Watches : u # v => Apart(e[u], e[v])
    BY <1>3, <2>2, <2>5, <2>6
    DEF TableInv, Apart, ActivationAccepted, Reconcilable, Settling
  <2>10. OpenWatches(e) \subseteq OpenWatches(d)
    BY <2>6, <2>7 DEF OpenWatches
  <2>11. ASSUME NEW p \in Payers, NEW v \in SoldTo(e, p) PROVE v \in SoldTo(d, p)
    <3>1. v \in Watches /\ v \in OpenWatches(d) /\ e[v].proof
      BY <2>10 DEF SoldTo, OpenWatchesOf, OpenWatches
    <3>2. e[v].payer = d[v].payer /\ d[v].proof /\ d[v].payer # None
      BY <2>5, <2>6, <3>1 DEF TableInv, RowInv
    <3> QED
      BY <2>11, <3>1, <3>2 DEF SoldTo, OpenWatchesOf, Coalesce
  <2>12. Cardinality(OpenWatches(e)) <= MaxOpenWatches
    BY <2>10, FewerStayWithin, StoreAssumption DEF TableInv, OpenWatches
  <2>13. ASSUME NEW p \in Payers PROVE Cardinality(SoldTo(e, p)) <= MaxOpenWatchesPerPayer
    <3>1. SoldTo(d, p) \in SUBSET Watches /\ SoldTo(e, p) \subseteq SoldTo(d, p)
      BY <2>11 DEF SoldTo, OpenWatchesOf, OpenWatches
    <3> QED
      BY <3>1, FewerStayWithin, StoreAssumption DEF TableInv
  <2>14. TableInv(e)
    BY <2>4, <2>6, <2>9, <2>12, <2>13 DEF TableInv
  <2> QED
    BY <2>1, <2>6, <2>8, <2>14, StutterIsSound DEF SoundStep
<1> QED
  BY <1>2, <1>3

(* recordSettlementCandidate binds a payment and its payer to one row only. *)
LEMMA CandidateIsSound ==
  ASSUME NEW d, TableInv(d), NEW w \in Watches, NEW t \in Txs, CandidateAccepted(d, w, t)
  PROVE  SoundStep(d, RecordSettlementCandidate(d, w, t))
<1>1. RowInv(d[w]) /\ d[w] \in Row /\ Progresses(d[w], d[w])
  BY StutterIsSound DEF TableInv, SoundStep
<1>2. CASE ~Reconcilable(d[w])
  BY <1>2, StutterIsSound DEF RecordSettlementCandidate
<1>3. CASE Reconcilable(d[w])
  <2> DEFINE row == [d[w] EXCEPT !.tx = t, !.payer = PayerOf[t]]
             e == Put(d, w, row)
  <2>1. Coalesce(d[w].tx, t) = t /\ Coalesce(d[w].payer, PayerOf[t]) = PayerOf[t]
    BY DEF CandidateAccepted, EvidenceMatches, Coalesce
  <2>2. RecordSettlementCandidate(d, w, t) = e
    BY <1>3, <2>1 DEF RecordSettlementCandidate, Put, TableInv
  <2>3. t \in Opt(Txs) /\ PayerOf[t] \in Opt(Payers) /\ PayerOf[t] # None /\ t # None
    BY StoreAssumption DEF Opt
  <2>4. row \in Row
    BY <1>1, <2>3 DEF Row
  <2>5. RowInv(row)
    BY <1>1, <1>3, <2>3, <2>4 DEF RowInv, Row, Settling, Reconcilable
  <2>6. /\ row.key = d[w].key /\ row.tx = t /\ row.payer = PayerOf[t]
        /\ row.serviceTx = d[w].serviceTx /\ row.proof = d[w].proof
        /\ Open(row) = Open(d[w])
    BY <1>1 DEF Row, Open
  <2>7. e \in [Watches -> Row] /\ e[w] = row /\ \A v \in Watches \ {w} : e[v] = d[v]
    BY <2>4 DEF Put, TableInv
  <2>8. Progresses(d[w], row)
    <3>1. d[w].tx \in {None, t} /\ d[w].payer \in {None, PayerOf[t]}
      BY DEF CandidateAccepted, EvidenceMatches
    <3> QED
      BY <1>1, <1>3, <3>1 DEF Progresses, RowInv, Row, Final, Reconcilable, Settling
  <2>9. \A v \in Watches \ {w} : Apart(row, d[v]) /\ Apart(d[v], row)
    <3> SUFFICES ASSUME NEW v \in Watches \ {w} PROVE Apart(row, d[v]) /\ Apart(d[v], row)
      OBVIOUS
    <3>1. UniqueFor(d, w, d[w].key, t, PayerOf[t])
      BY <1>3 DEF CandidateAccepted, Reconcilable, Settling
    <3>2. d[v].tx # t /\ ~(d[v].payer = PayerOf[t] /\ d[v].key = d[w].key)
      BY <2>3, <3>1 DEF UniqueFor, TableInv, RowInv
    <3>3. Apart(d[w], d[v]) /\ Apart(d[v], d[w])
      BY DEF TableInv
    <3> QED
      BY <2>6, <3>2, <3>3 DEF Apart
  <2> HIDE DEF row, e
  <2>10. \A u, v \in Watches : u # v => Apart(e[u], e[v])
    BY <2>7, <2>9 DEF TableInv
  <2>11. OpenWatches(e) \subseteq OpenWatches(d)
    BY <2>6, <2>7 DEF OpenWatches
  <2>12. ASSUME NEW p \in Payers, NEW v \in SoldTo(e, p) PROVE v \in SoldTo(d, p)
    <3>1. v \in Watches /\ v \in OpenWatches(d) /\ e[v].proof
      BY <2>11 DEF SoldTo, OpenWatchesOf, OpenWatches
    <3>2. d[v].proof /\ d[v].payer # None
      BY <2>6, <2>7, <3>1 DEF TableInv, RowInv
    <3>3. e[v].payer = d[v].payer
      <4>1. CASE v = w
        BY <2>6, <2>7, <3>2, <4>1 DEF CandidateAccepted, EvidenceMatches
      <4>2. CASE v # w
        BY <2>7, <3>1, <4>2
      <4> QED
        BY <4>1, <4>2
    <3> QED
      BY <2>12, <3>1, <3>2, <3>3 DEF SoldTo, OpenWatchesOf, Coalesce
  <2>13. Cardinality(OpenWatches(e)) <= MaxOpenWatches
    BY <2>11, FewerStayWithin, StoreAssumption DEF TableInv, OpenWatches
  <2>14. ASSUME NEW p \in Payers PROVE Cardinality(SoldTo(e, p)) <= MaxOpenWatchesPerPayer
    <3>1. SoldTo(d, p) \in SUBSET Watches /\ SoldTo(e, p) \subseteq SoldTo(d, p)
      BY <2>12 DEF SoldTo, OpenWatchesOf, OpenWatches
    <3> QED
      BY <3>1, FewerStayWithin, StoreAssumption DEF TableInv
  <2>15. TableInv(e)
    BY <2>5, <2>7, <2>10, <2>13, <2>14 DEF TableInv
  <2> QED
    BY <2>2, <2>7, <2>8, <2>15, StutterIsSound DEF SoundStep
<1> QED
  BY <1>2, <1>3

(* prepareWatch inserts within both caps and takes only unclaimed payment,  *)
(* payer and key.                                                           *)
LEMMA PrepareIsSound ==
  ASSUME NEW d, TableInv(d), NEW w \in Watches, d[w].state = "absent",
         NEW k \in Keys, NEW s \in Specs, NEW t \in Opt(Txs), NEW expiresAt \in Nat,
         PrepareOutcome(d, w, k, s, t) = "created"
  PROVE  SoundStep(d, PrepareWatch(d, w, k, s, t, expiresAt))
<1> DEFINE payer == IF t = None THEN None ELSE PayerOf[t]
           row == [NoRow EXCEPT !.state = "settlement_pending", !.key = k, !.spec = s,
                                !.tx = t, !.payer = payer, !.proof = (t # None),
                                !.expiresAt = expiresAt]
           e == Put(d, w, row)
<1>1. PrepareWatch(d, w, k, s, t, expiresAt) = e
  BY DEF PrepareWatch, Put
<1>2. /\ ~(Cardinality(OpenWatches(d)) >= MaxOpenWatches)
      /\ ~(payer # None /\ Cardinality(OpenWatchesOf(d, payer)) >= MaxOpenWatchesPerPayer)
      /\ UniqueFor(d, w, k, t, payer)
  BY DEF PrepareOutcome, Full, PayerFull
<1>3. payer \in Opt(Payers) /\ (t # None => payer \in Payers /\ payer # None)
  BY StoreAssumption DEF Opt
<1>4. NoRow \in Row
  BY DEF NoRow, Row, Opt, WatchState
<1>5. row \in Row
  <2>1. k \in Opt(Keys) /\ s \in Opt(Specs) /\ (t # None) \in BOOLEAN
    BY DEF Opt
  <2> QED
    BY <1>3, <1>4, <2>1 DEF Row, WatchState
<1>6. /\ row.state = "settlement_pending" /\ row.key = k /\ row.tx = t /\ row.payer = payer
      /\ row.proof = (t # None) /\ row.serviceTx = None /\ row.servicePayer = None
      /\ row.scanAfter = None /\ row.closing = None /\ row.used = 0 /\ row.reason = None
      /\ ~row.terminal
  BY DEF NoRow
<1> HIDE DEF row
<1>7. RowInv(row)
  <2>1. row.proof => row.payer # None
    BY <1>3, <1>6
  <2>2. row.used <= WorkUnitBudget /\ row.reason # "work_budget_exhausted"
    BY <1>6, StoreAssumption DEF Reasons
  <2> QED
    BY <1>5, <1>6, <2>1, <2>2 DEF RowInv, Settling
<1>8. e \in [Watches -> Row] /\ e[w] = row /\ \A v \in Watches \ {w} : e[v] = d[v]
  BY <1>5 DEF Put, TableInv
<1>9. Progresses(d[w], row)
  <2>1. RowInv(d[w]) /\ ~Settling(d[w]) /\ d[w].used = 0 /\ d[w].tx = None
        /\ d[w].payer = None /\ d[w].serviceTx = None /\ d[w].scanAfter = None /\ d[w].closing = None
    BY DEF TableInv, RowInv, Settling
  <2> QED
    BY <1>6, <2>1 DEF Progresses, Final
<1>10. \A v \in Watches \ {w} : Apart(row, d[v]) /\ Apart(d[v], row)
  <2> SUFFICES ASSUME NEW v \in Watches \ {w} PROVE Apart(row, d[v]) /\ Apart(d[v], row)
    OBVIOUS
  <2>1. d[v].tx # None => d[v].tx # t
    BY <1>2 DEF UniqueFor, TableInv, RowInv
  <2>2. d[v].payer # None /\ d[v].payer = payer => d[v].key # k
    BY <1>2 DEF UniqueFor, TableInv, RowInv
  <2> QED
    BY <1>6, <2>1, <2>2 DEF Apart
<1> HIDE DEF e
<1>11. \A u, v \in Watches : u # v => Apart(e[u], e[v])
  BY <1>8, <1>10 DEF TableInv
<1>12. Cardinality(OpenWatches(e)) <= MaxOpenWatches
  <2>1. OpenWatches(e) \subseteq OpenWatches(d) \cup {w}
    BY <1>8 DEF OpenWatches
  <2>2. OpenWatches(d) \in SUBSET Watches
    BY DEF OpenWatches
  <2>3. Cardinality(OpenWatches(d)) < MaxOpenWatches
    BY <1>2, <2>2, WatchSetsFinite, StoreAssumption
  <2>4. Cardinality(OpenWatches(d) \cup {w}) <= MaxOpenWatches
    BY <2>2, <2>3, OneMoreFits, StoreAssumption
  <2> QED
    BY <2>1, <2>2, <2>4, FewerStayWithin, StoreAssumption
<1>13. ASSUME NEW p \in Payers PROVE Cardinality(SoldTo(e, p)) <= MaxOpenWatchesPerPayer
  <2>1. /\ SoldTo(d, p) \in SUBSET Watches /\ OpenWatchesOf(d, p) \in SUBSET Watches
        /\ SoldTo(d, p) \subseteq OpenWatchesOf(d, p)
    BY DEF SoldTo, OpenWatchesOf, OpenWatches
  <2>2. ASSUME NEW v \in SoldTo(e, p), v # w PROVE v \in SoldTo(d, p)
    BY <1>8, <2>2 DEF SoldTo, OpenWatchesOf, OpenWatches
  <2>3. CASE payer # p
    <3>1. w \notin SoldTo(e, p)
      BY <1>3, <1>6, <1>8, <2>3 DEF SoldTo, OpenWatchesOf, Coalesce
    <3>2. SoldTo(e, p) \subseteq SoldTo(d, p)
      BY <2>2, <3>1
    <3> QED
      BY <2>1, <3>2, FewerStayWithin, StoreAssumption DEF TableInv
  <2>4. CASE payer = p
    <3>1. Cardinality(OpenWatchesOf(d, p)) < MaxOpenWatchesPerPayer
      BY <1>2, <2>1, <2>4, WatchSetsFinite, StoreAssumption
    <3>2. Cardinality(OpenWatchesOf(d, p) \cup {w}) <= MaxOpenWatchesPerPayer
      BY <2>1, <3>1, OneMoreFits, StoreAssumption
    <3>3. SoldTo(e, p) \subseteq OpenWatchesOf(d, p) \cup {w}
      BY <2>1, <2>2
    <3> QED
      BY <2>1, <3>2, <3>3, FewerStayWithin, StoreAssumption
  <2> QED
    BY <2>3, <2>4
<1>14. TableInv(e)
  <2>1. \A v \in Watches : RowInv(e[v])
    BY <1>7, <1>8 DEF TableInv
  <2> QED
    BY <1>8, <1>11, <1>12, <1>13, <2>1 DEF TableInv
<1> QED
  BY <1>1, <1>8, <1>9, <1>14, StutterIsSound DEF SoundStep

(* The empty table is sound.                                                *)
LEMMA EmptyTableIsSound == TableInv(EmptyTable)
<1>1. NoRow \in Row
  BY DEF NoRow, Row, Opt, WatchState
<1>2. RowInv(NoRow) /\ Apart(NoRow, NoRow)
  <2>1. /\ NoRow.state = "absent" /\ NoRow.tx = None /\ NoRow.payer = None
        /\ NoRow.proof = FALSE /\ NoRow.serviceTx = None /\ NoRow.scanAfter = None
        /\ NoRow.closing = None /\ NoRow.used = 0 /\ NoRow.reason = None
    BY DEF NoRow
  <2> QED
    BY <1>1, <2>1, StoreAssumption DEF RowInv, Settling, Apart, Reasons
<1>3. OpenWatches(EmptyTable) = {} /\ \A p : SoldTo(EmptyTable, p) = {}
  BY DEF OpenWatches, OpenWatchesOf, SoldTo, EmptyTable, NoRow, Open
<1>4. EmptyTable \in [Watches -> Row] /\ \A w \in Watches : EmptyTable[w] = NoRow
  BY <1>1 DEF EmptyTable
<1> QED
  BY <1>2, <1>3, <1>4, FS_EmptySet, StoreAssumption DEF TableInv
=============================================================================
