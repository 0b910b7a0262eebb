\* Both workers and a paid request; failures, stops and the fence around slow probes.
SPECIFICATION Spec
CONSTANTS
    None = None
    Poller = poller
    Workers = {poller, reconciler}
    Requests = {q1}
    MinInterval = 1
    IdleInterval = 2
    AdmissionAge = 1
    MaxAge = 3
    MaxProbes = 2
    MaxTroubles = 2
CHECK_DEADLOCK FALSE
INVARIANTS
    HealthIsEarned
    OutageOutlastsFailures
    WaitersHaveAProbe
PROPERTY
    NoStaleAdmission
