\* New and old files, restarts in every step of the opening, any caller, refunds.
SPECIFICATION OpeningSpec
CONSTANTS
    None = None
    p1 = p1
    p2 = p2
    t1 = t1
    t2 = t2
    Watches = {w1, w2, w3}
    Keys = {k1, k2}
    Specs = {s1}
    Payers = {p1, p2}
    Txs = {t1, t2, t3}
    PayerOf <- MCPayerOf
    MaxOpenWatches = 2
    MaxOpenWatchesPerPayer = 1
    WorkUnitBudget = 2
    Rounds = {1, 2}
    MaxAttempts = 1
    Recorders = {r1, r2}
    RefundTxs = {x1}
    Terms = {a1, a2}
    MaxOpenings = 2
CHECK_DEADLOCK FALSE
SYMMETRY Symmetry
CONSTRAINT Explored
INVARIANTS
    CapsRespected
    NoSharedReservation
    BudgetRespected
    ExpiredWasScanned
    EveryOpenRowIsPaid
    RefundsStayLinked
PROPERTIES
    RowOnlyProgresses
    RecordsStand
