\* Every variant, honest and faulty providers, pages of one transaction, the readiness probe.
SPECIFICATION ClientSpec
CONSTANTS
    None = None
    Zero = Zero
    a = a
    b = b
    Watches <- MCWatches
    ProbeWatch <- MCProbeWatch
    ProbeId = 1
    Variants = {"A", "B", "C", "D"}
    Chains <- MCChains
    Pages <- MCPages
    MaxRound = 2
    PageLimit = 1
    MaxInner = 2
    MaxDepth = 2
CONSTRAINT Explored
CHECK_DEADLOCK FALSE
INVARIANTS
    HonestPagesAreAccepted
    NothingDueIsLost
    OnlyEvidenceIsUsed
    RefusalConcernsTheWatch
