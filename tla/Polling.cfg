\* Lagging replicas, split pages, provider failures, crashes; a shared tip and cache.
SPECIFICATION PollingSpec
CONSTANTS
    None = None
    s1 = s1
    Watches = {w1, w2}
    Keys = {k1, k2}
    Specs = {s1, s2}
    Payers = {p1}
    Txs = {t1, t2}
    PayerOf <- MCPayerOf
    MaxOpenWatches = 2
    MaxOpenWatchesPerPayer = 2
    WorkUnitBudget = 4
    LastValid <- MCLastValid
    Conforming = {t1, t2}
    Transfers = {None, s1, s2}
    MaxRound = 4
    MaxBlockTime = 1
    MaxClock = 1
    MsPerSecond = 2
    TTL = 1
    RoundWindow = 2
    MaxCrashes = 1
CHECK_DEADLOCK FALSE
SYMMETRY Symmetry
CONSTRAINT Explored
INVARIANTS
    NoFalseExpiry
    MatchIsInFirstWindow
