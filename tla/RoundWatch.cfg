\* One watch from purchase to outcome, all three actors, fair workers and a crash.
SPECIFICATION FairSpec
CONSTANTS
    None = None
    Watches = {w1}
    Keys = {k1}
    Specs = {s1}
    Payers = {p1}
    Txs = {t1}
    PayerOf <- MCPayerOf
    MaxOpenWatches = 1
    MaxOpenWatchesPerPayer = 1
    WorkUnitBudget = 2
    LastValid <- MCLastValid
    Conforming = {t1}
    Transfers = {None, s1}
    MaxRound = 2
    MaxBlockTime = 1
    MaxClock = 1
    MsPerSecond = 1
    TTL = 1
    Requests = {q1}
    RequireSettlementIntent = TRUE
    TxPage <- MCTxPage
    LastPage = 0
    RoundWindow = 2
    MaxCrashes = 1
CHECK_DEADLOCK FALSE
PROPERTIES
    KeepsContract
    EveryWatchConcludes

