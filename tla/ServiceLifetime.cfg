\* Two requests over the whole life of the process; one fence or drain may throw, any worker may hang.
SPECIFICATION ServiceFairSpec
CONSTANTS
    Owners = {server, application, facilitator, workers}
    Server = server
    Application = application
    Facilitator = facilitator
    Background = workers
    Requests = {r1, r2}
    Concurrency = 1
    MaxThrows = 1
CONSTRAINT Explored
CHECK_DEADLOCK FALSE
INVARIANTS
    StoreUnusedOnceClosed
    CleanExitIsTrue
    GatesAreHonest
    OutcomeIsTrue
PROPERTIES
    KeepsCoordinator
    ShutdownConcludes
    EveryPurchaseEnds
