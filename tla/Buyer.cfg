\* Two commands at a time, two purchases, the death of any command and of any request.
SPECIFICATION BuyerSpec
CONSTANTS
    None = None
    Watches = {w1, w2}
    Keys = {k1, k2}
    Specs = {s1}
    Payers = {p1}
    Txs = {t1, t2}
    PayerOf <- MCPayerOf
    MaxOpenWatches = 2
    MaxOpenWatchesPerPayer = 2
    WorkUnitBudget = 1
    LastValid <- MCLastValid
    Conforming = {t1, t2}
    Transfers = {None, s1}
    MaxRound = 2
    MaxBlockTime = 1
    MaxClock = 0
    MsPerSecond = 1
    TTL = 1
    Requests = {q1, q2}
    Commands = {c1, c2}
    ParallelStarts = FALSE
CHECK_DEADLOCK FALSE
SYMMETRY Symmetry
INVARIANTS
    BuyerPaysOnce
    PaymentIsCheckpointed
    CheckpointIsPaid
