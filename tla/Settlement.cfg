\* One and two purchases, with and without intent: lost answers, late landing, paged proofs, crashes.
SPECIFICATION SettlementSpec
CONSTANTS
    None = None
    w1 = w1
    w2 = w2
    p1 = p1
    p2 = p2
    t1 = t1
    t2 = t2
    k1 = k1
    k2 = k2
    Watches = {w1, w2}
    Keys = {k1, k2}
    Specs = {s1}
    Payers = {p1, p2}
    Txs = {t1, t2}
    PayerOf <- MCSamePayer
    MaxOpenWatches = 2
    MaxOpenWatchesPerPayer = 2
    WorkUnitBudget = 5
    LastValid <- MCLastValid
    Conforming = {t1}
    Transfers = {None}
    MaxRound = 4
    MaxBlockTime = 0
    MaxClock = 0
    MsPerSecond = 1
    TTL = 0
    Requests = {q1, q2}
    RequireSettlementIntent = FALSE
    TxPage <- MCMiddlePage
    LastPage = 2
    MaxCrashes = 2
CHECK_DEADLOCK FALSE
SYMMETRY Symmetry
CONSTRAINT Explored
INVARIANTS
    NoDoubleSettlement
    EveryPaymentIsReserved
    NoPaidWatchRejected
    SuccessIsDurable
    ActivatedWasPaid
PROPERTY
    RecoveryAnswerStands
