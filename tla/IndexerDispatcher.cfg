\* Four requests, a burst of two, stop and drain at any time; fair timers and completions.
SPECIFICATION DispatcherFairSpec
CONSTANTS
    Requests = {r1, r2, r3, r4}
    TokenTicks = 2
    Burst = 2
    Concurrency = 2
    MaxAge = 3
    NoTimer = NoTimer
INVARIANTS
    RateBounded
    DrainIsFinal
PROPERTIES
    EveryRequestSettles
    DrainResolves
