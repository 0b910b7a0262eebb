\* A watch is sold before the workers have published good health.
SPECIFICATION Spec
CONSTANTS
    None = None
    Poller = poller
    Workers = {poller, reconciler}
    Requests = {q1}
    MinInterval = 1
    IdleInterval = 2
    AdmissionAge = 1
    MaxAge = 3
    MaxProbes = 2
    MaxTroubles = 2
CHECK_DEADLOCK FALSE
PROPERTY
    ReadyBeforeSale
