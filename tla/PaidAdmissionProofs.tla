------------------------ MODULE PaidAdmissionProofs ------------------------
(***************************************************************************)
(* For any workers and requests, however often the provider fails and      *)
(* however the awaits fall: a sale is made on current evidence, a good     *)
(* health is earned, and an outage ends only after its failures.           *)
(***************************************************************************)
EXTENDS PaidAdmission, TLAPS

Ask == [revision : Nat, epoch : Nat, failures : Nat, age : Nat, limit : Nat]

Sample == [revision : Nat, epoch : Nat, failures : Nat, age : Nat, finds : Findings]

ProbeRecord ==
    [revision : Nat, failures : Nat, epoch : Nat, invalidated : BOOLEAN,
     pending : Ask \cup {None}, latest : Sample \cup {None}, fenced : BOOLEAN]

Worker ==
    [started : BOOLEAN, generation : Nat, observed : Nat,
     pc : {"idle", "sweep", "probe"}, cycle : Nat, systemic : BOOLEAN, accepts : Nat,
     health : {"unknown", "healthy", "doubtful", "unhealthy"}]

Request ==
    [pc : {"new", "waiting", "checked", "sold"},
     generations : [Workers -> Nat] \cup {None}, answered : BOOLEAN]

History ==
    [failedAfter : Nat, recoveredBy : Nat, stops : Nat,
     lostAfter : [Workers -> Nat], disturbed : SUBSET Requests]

Types ==
    /\ probe \in ProbeRecord
    /\ worker \in [Workers -> Worker]
    /\ request \in [Requests -> Request]
    /\ history \in History

-----------------------------------------------------------------------------
(* The health operations return a worker's record.                          *)
LEMMA WorkerOperations ==
  ASSUME NEW r \in Worker
  PROVE  /\ Begun(r) \in Worker
         /\ Halted(r) \in Worker
         /\ Abandoned(r) \in Worker
         /\ WithCycleCompleted(r) \in Worker
<1>1. Begun(r) \in Worker
  BY DEF Worker, Begun
<1>2. Halted(r) \in Worker
  <2>1. \A g \in Nat : [r EXCEPT !.started = FALSE, !.generation = g, !.health = "unknown"] \in Worker
    BY DEF Worker
  <2>2. r.generation + 1 \in Nat
    BY DEF Worker
  <2> QED
    BY <2>1, <2>2, Zenon DEF Halted
<1>3. Abandoned(r) \in Worker
  BY DEF Worker, Abandoned
<1>4. WithCycleCompleted(r) \in Worker
  BY <1>3 DEF Worker, WithCycleCompleted
<1> QED
  BY <1>1, <1>2, <1>3, <1>4

(* A cycle that has its sample leaves a worker's record.                    *)
LEMMA AfterProbeType ==
  ASSUME NEW r \in Worker, NEW good, NEW sample \in Sample
  PROVE  AfterProbe(r, good, sample) \in Worker
<1> DEFINE told == [r EXCEPT !.observed = sample.revision,
                             !.health = HealthAfterProbe(@, good)]
<1>1. told \in Worker
  BY DEF Worker, Sample, HealthAfterProbe
<1> QED
  BY <1>1, WorkerOperations DEF AfterProbe

(* The probe's operations return its record.                                *)
LEMMA ProbeOperations ==
  ASSUME probe \in ProbeRecord
  PROVE  /\ Invalidated(probe) \in ProbeRecord
         /\ \A limit \in Nat : Started(limit) \in ProbeRecord
         /\ \A sample \in Sample : Answered(sample) \in ProbeRecord
         /\ [probe EXCEPT !.fenced = TRUE] \in ProbeRecord
         /\ [probe EXCEPT !.pending = None] \in ProbeRecord
         /\ InFlight => \A finds \in Findings : SampleOf(finds) \in Sample
<1> USE DEF ProbeRecord
<1>1. Invalidated(probe) \in ProbeRecord
  <2>1. probe.failures + 1 \in Nat /\ probe.epoch + 1 \in Nat /\ probe.epoch \in Nat
    OBVIOUS
  <2>2. \A f, e \in Nat :
          [probe EXCEPT !.failures = f, !.invalidated = TRUE, !.epoch = e] \in ProbeRecord
    OBVIOUS
  <2> QED
    BY <2>1, <2>2, Zenon DEF Invalidated
<1>2. ASSUME NEW limit \in Nat PROVE Started(limit) \in ProbeRecord
  <2>1. probe.revision + 1 \in Nat
    OBVIOUS
  <2>2. [revision |-> probe.revision + 1, epoch |-> probe.epoch,
         failures |-> probe.failures, age |-> 0, limit |-> limit] \in Ask
    BY <2>1 DEF Ask
  <2>3. \A n \in Nat, ask \in Ask :
          [probe EXCEPT !.revision = n, !.pending = ask] \in ProbeRecord
    OBVIOUS
  <2> QED
    BY <2>1, <2>2, <2>3, Zenon DEF Started
<1>3. ASSUME NEW sample \in Sample PROVE Answered(sample) \in ProbeRecord
  BY DEF Answered
<1>4. ASSUME InFlight, NEW finds \in Findings PROVE SampleOf(finds) \in Sample
  BY <1>4 DEF InFlight, SampleOf, Ask, Sample
<1> QED
  BY <1>1, <1>2, <1>3, <1>4

(* The clock changes ages alone.                                            *)
LEMMA AgesType == ASSUME probe \in ProbeRecord, ProbeAges PROVE probe' \in ProbeRecord
<1>1. Older(probe.pending) \in Ask \cup {None}
  BY ProbeAssumption DEF Older, Ask, ProbeRecord
<1>2. Older(probe.latest) \in Sample \cup {None}
  BY ProbeAssumption DEF Older, Sample, ProbeRecord
<1> QED
  BY <1>1, <1>2 DEF ProbeAges, ProbeRecord

(* Joining, the cache or a new probe keep the record.                       *)
LEMMA RunIfDueType ==
  ASSUME probe \in ProbeRecord, NEW limit \in Nat, RunIfDue(limit)
  PROVE  probe' \in ProbeRecord
BY ProbeOperations DEF RunIfDue

(* A worker that is handed the cached sample, or waits, stays well typed.   *)
LEMMA CachedType ==
  ASSUME probe \in ProbeRecord, NEW limit \in Nat, ServedFromCache(limit)
  PROVE  probe.latest \in Sample
BY DEF ProbeRecord, ServedFromCache

(* The limits that callers give are times.                                  *)
LEMMA LimitsType == MinInterval \in Nat /\ IdleInterval \in Nat /\ AdmissionAge \in Nat
BY ProbeAssumption, AdmissionAssumption

(* A stop is counted, with the checks it crosses.                           *)
LEMMA DisturbType ==
  ASSUME history \in History
  PROVE  [history EXCEPT !.stops = @ + 1, !.disturbed = @ \cup Checking] \in History
<1>1. history.stops + 1 \in Nat
  BY DEF History
<1>2. history.disturbed \cup Checking \in SUBSET Requests
  BY DEF History, Checking
<1>3. \A n \in Nat, d \in SUBSET Requests :
        [history EXCEPT !.stops = n, !.disturbed = d] \in History
  BY DEF History
<1> QED
  BY <1>1, <1>2, <1>3, Zenon

(* Every step keeps the types.                                              *)
LEMMA TypesStep == ASSUME Types, [Next]_vars PROVE Types'
<1> USE DEF Types
<1> USE ProbeAssumption, AdmissionAssumption
<1>1. ASSUME NEW w \in Workers, Start(w) PROVE Types'
  <2>1. worker' \in [Workers -> Worker]
    <3>1. \A g, o \in Nat :
            [worker[w] EXCEPT !.started = TRUE, !.generation = g, !.observed = o,
                              !.health = "unknown"] \in Worker
      BY DEF Worker
    <3>2. worker[w].generation + 1 \in Nat /\ probe.revision \in Nat
      BY DEF Worker, ProbeRecord
    <3> DEFINE r == [worker[w] EXCEPT !.started = TRUE, !.generation = @ + 1,
                                      !.observed = probe.revision, !.health = "unknown"]
    <3>3. r \in Worker
      BY <3>1, <3>2, Zenon
    <3> HIDE DEF r
    <3>4. Begun(r) \in Worker
      BY <3>3, WorkerOperations
    <3>5. worker' = [worker EXCEPT ![w] = IF r.pc = "idle" THEN Begun(r) ELSE r]
      BY <1>1 DEF Start, r
    <3> QED
      BY <3>3, <3>4, <3>5
  <2>2. history' \in History
    BY <1>1 DEF Start, History, ProbeRecord
  <2> QED
    BY <1>1, <2>1, <2>2 DEF Start
<1>2. ASSUME NEW w \in Workers, Stop(w) PROVE Types'
  <2>1. worker' \in [Workers -> Worker]
    BY <1>2, WorkerOperations DEF Stop
  <2>2. history' \in History
    BY <1>2, DisturbType DEF Stop
  <2> QED
    BY <1>2, <2>1, <2>2 DEF Stop
<1>3. CASE Fence
  <2>1. worker' \in [Workers -> Worker]
    BY <1>3, WorkerOperations DEF Fence
  <2>2. history' \in History
    BY <1>3, DisturbType DEF Fence
  <2> QED
    BY <1>3, <2>1, <2>2, ProbeOperations DEF Fence
<1>4. ASSUME NEW w \in Workers, BeginCycle(w) PROVE Types'
  BY <1>4, WorkerOperations DEF BeginCycle
<1>5. ASSUME NEW w \in Workers, TurnFails(w) PROVE Types'
  <2>1. PICK b \in BOOLEAN :
          LET r == [worker[w] EXCEPT !.systemic = b]
          IN  \/ /\ probe' = Invalidated(probe)
                 /\ worker' = [worker EXCEPT ![w] =
                                 [r EXCEPT !.observed = probe.revision, !.health = "unhealthy"]]
                 /\ FailureSeen(w)
              \/ worker' = [worker EXCEPT ![w] = r] /\ UNCHANGED <<probe, history>>
    BY <1>5 DEF TurnFails, Worker
  <2> DEFINE r == [worker[w] EXCEPT !.systemic = b]
  <2>2. r \in Worker
    BY DEF Worker
  <2>3. CASE FailureSeen(w) /\ probe' = Invalidated(probe)
             /\ worker' = [worker EXCEPT ![w] =
                             [r EXCEPT !.observed = probe.revision, !.health = "unhealthy"]]
    <3> HIDE DEF r
    <3>1. history' \in History
      BY <2>3 DEF FailureSeen, History, ProbeRecord
    <3>2. [r EXCEPT !.observed = probe.revision, !.health = "unhealthy"] \in Worker
      BY <2>2 DEF Worker, ProbeRecord
    <3> QED
      BY <1>5, <2>3, <3>1, <3>2, ProbeOperations DEF TurnFails
  <2> QED
    BY <1>5, <2>1, <2>2, <2>3 DEF TurnFails
<1>6. ASSUME NEW w \in Workers, CycleThrows(w) PROVE Types'
  <2>1. CASE FailureSeen(w) /\ probe' = Invalidated(probe)
             /\ worker' = [worker EXCEPT ![w] = [Abandoned(@) EXCEPT !.health = "unhealthy"]]
    <3>1. history' \in History
      BY <2>1 DEF FailureSeen, History, ProbeRecord
    <3>2. Abandoned(worker[w]) \in Worker
      BY WorkerOperations
    <3>3. [Abandoned(worker[w]) EXCEPT !.health = "unhealthy"] \in Worker
      BY <3>2 DEF Worker
    <3> QED
      BY <1>6, <2>1, <3>1, <3>3, ProbeOperations DEF CycleThrows
  <2>2. CASE worker' = [worker EXCEPT ![w] = Abandoned(@)] /\ UNCHANGED <<probe, history>>
    BY <1>6, <2>2, WorkerOperations DEF CycleThrows
  <2> QED
    BY <1>6, <2>1, <2>2 DEF CycleThrows
<1>7. ASSUME NEW w \in Workers, SweepEnds(w) PROVE Types'
  <2>1. CASE \/ worker' = [worker EXCEPT ![w] = Abandoned(@)]
             \/ worker' = [worker EXCEPT ![w] = WithCycleCompleted(@)]
    <3>1. worker' \in [Workers -> Worker]
      BY <2>1, WorkerOperations
    <3>2. probe' \in ProbeRecord
      BY <1>7, RunIfDueType, LimitsType DEF SweepEnds
    <3> QED
      BY <1>7, <3>1, <3>2 DEF SweepEnds
  <2>2. ASSUME NEW limit \in {MinInterval, IdleInterval}, RunIfDue(limit),
               worker' = [worker EXCEPT ![w] =
                            LET r == [worker[w] EXCEPT !.pc = "probe", !.accepts = limit]
                            IN  IF ServedFromCache(limit)
                                THEN AfterProbe(r, probe.latest.finds[w], probe.latest) ELSE r]
        PROVE  Types'
    <3> DEFINE r == [worker[w] EXCEPT !.pc = "probe", !.accepts = limit]
    <3>1. r \in Worker
      BY LimitsType DEF Worker
    <3> HIDE DEF r
    <3>2. ServedFromCache(limit) =>
            AfterProbe(r, probe.latest.finds[w], probe.latest) \in Worker
      BY <3>1, CachedType, AfterProbeType, LimitsType
    <3>3. worker' = [worker EXCEPT ![w] =
                       IF ServedFromCache(limit)
                       THEN AfterProbe(r, probe.latest.finds[w], probe.latest) ELSE r]
      BY <2>2 DEF r
    <3>4. worker' \in [Workers -> Worker]
      BY <3>1, <3>2, <3>3
    <3> QED
      BY <1>7, <2>2, <3>4, RunIfDueType, LimitsType DEF SweepEnds
  <2> QED
    BY <1>7, <2>1, <2>2 DEF SweepEnds
<1>8. ASSUME NEW w \in Workers, CycleInterrupted(w) PROVE Types'
  BY <1>8, WorkerOperations DEF CycleInterrupted
<1>9. ASSUME NEW q \in Requests, Arrive(q) PROVE Types'
  <2>1. probe' \in ProbeRecord
    BY <1>9, RunIfDueType, LimitsType DEF Arrive
  <2>2. ServedFromCache(AdmissionAge) \in BOOLEAN
    BY DEF ServedFromCache
  <2>3. [w \in Workers |-> worker[w].generation] \in [Workers -> Nat]
    BY DEF Worker
  <2>4. \A b \in BOOLEAN, g \in [Workers -> Nat] :
          [pc |-> "waiting", answered |-> b, generations |-> g] \in Request
    BY DEF Request
  <2>5. request' \in [Requests -> Request]
    BY <1>9, <2>2, <2>3, <2>4 DEF Arrive
  <2>6. history' \in History
    BY <1>9 DEF Arrive, History
  <2> QED
    BY <1>9, <2>1, <2>5, <2>6 DEF Arrive
<1>10. ASSUME NEW q \in Requests, Resume(q) \/ Sell(q) PROVE Types'
  <2>1. NewRequest \in Request
    BY DEF NewRequest, Request
  <2>2. \A pc \in {"checked", "sold"} :
          [request[q] EXCEPT !.pc = pc, !.answered = FALSE] \in Request
    BY DEF Request
  <2>3. request' \in [Requests -> Request]
    BY <1>10, <2>1, <2>2 DEF Resume, Sell, Goes, Refuse
  <2> QED
    BY <1>10, <2>3 DEF Resume, Sell
<1>11. CASE ProbeAnswers
  <2>1. PICK finds \in Findings :
          LET sample == SampleOf(finds)
          IN  /\ probe' = Answered(sample)
              /\ worker' = [w \in Workers |->
                              IF worker[w].pc = "probe"
                              THEN AfterProbe(worker[w], sample.finds[w], sample) ELSE worker[w]]
              /\ request' = [q \in Requests |->
                               [request[q] EXCEPT !.answered = @ \/ Awaiting(q)]]
              /\ history' = [history EXCEPT !.recoveredBy =
                               IF Complete(sample) THEN sample.revision ELSE @]
    BY <1>11, Zenon DEF ProbeAnswers
  <2> DEFINE sample == SampleOf(finds)
  <2>2. sample \in Sample
    BY <1>11, ProbeOperations DEF ProbeAnswers
  <2> HIDE DEF sample
  <2>3. probe' \in ProbeRecord
    BY <2>1, <2>2, ProbeOperations DEF sample
  <2>4. worker' = [w \in Workers |->
                    IF worker[w].pc = "probe"
                    THEN AfterProbe(worker[w], sample.finds[w], sample) ELSE worker[w]]
    BY <2>1 DEF sample
  <2>5. worker' \in [Workers -> Worker]
    BY <2>2, <2>4, AfterProbeType
  <2>6. ASSUME NEW q \in Requests
        PROVE  [request[q] EXCEPT !.answered = @ \/ Awaiting(q)] \in Request
    <3>1. \A b \in BOOLEAN : [request[q] EXCEPT !.answered = b] \in Request
      BY DEF Request
    <3>2. (request[q].answered \/ Awaiting(q)) \in BOOLEAN
      OBVIOUS
    <3> QED
      BY <3>1, <3>2, Zenon
  <2>7. request' = [q \in Requests |-> [request[q] EXCEPT !.answered = @ \/ Awaiting(q)]]
    BY <2>1
  <2>8. request' \in [Requests -> Request]
    BY <2>6, <2>7, Zenon
  <2>9. history' = [history EXCEPT !.recoveredBy =
                      IF Complete(sample) THEN sample.revision ELSE @]
    BY <2>1 DEF sample
  <2>10. history' \in History
    BY <2>2, <2>9 DEF History, Sample
  <2> QED
    BY <2>3, <2>5, <2>8, <2>10
<1>12. CASE ProbeInterrupted
  <2>1. worker' \in [Workers -> Worker]
    BY <1>12, WorkerOperations DEF ProbeInterrupted
  <2>2. NewRequest \in Request
    BY DEF NewRequest, Request
  <2>3. request' \in [Requests -> Request]
    BY <1>12, <2>2 DEF ProbeInterrupted
  <2>4. probe' \in ProbeRecord
    BY <1>12, ProbeOperations DEF ProbeInterrupted
  <2> QED
    BY <1>12, <2>1, <2>3, <2>4 DEF ProbeInterrupted
<1>13. CASE Tick
  BY <1>13, AgesType DEF Tick
<1>14. CASE UNCHANGED vars
  BY <1>14 DEF vars
<1> QED
  BY <1>1, <1>2, <1>3, <1>4, <1>5, <1>6, <1>7, <1>8, <1>9, <1>10, <1>11, <1>12, <1>13, <1>14
  DEF Next, WorkerNext

(* What a check's steps leave of its request.                               *)
LEMMA GoesEffect ==
  ASSUME Types, NEW q \in Requests, NEW pc, Goes(q, pc)
  PROVE  request'[q].pc = pc /\ request'[q].generations = request[q].generations
<1> DEFINE gone == [request[q] EXCEPT !.pc = pc, !.answered = FALSE]
<1>1. request'[q] = gone
  BY DEF Goes, Types
<1>2. gone.pc = pc /\ gone.generations = request[q].generations
  BY DEF Types, Request
<1> HIDE DEF gone
<1> QED
  BY <1>1, <1>2

(* A refused request starts again.                                          *)
LEMMA RefuseEffect ==
  ASSUME Types, NEW q \in Requests, Refuse(q) PROVE request'[q].pc = "new"
BY DEF Refuse, NewRequest, Types

-----------------------------------------------------------------------------
(***************************************************************************)
(* Evidence.  What no failure has outdated was asked after the last one.    *)
(***************************************************************************)
Causal(evidence) ==
    /\ evidence.revision <= probe.revision
    /\ evidence.failures <= probe.failures
    /\ evidence.failures = probe.failures => evidence.revision > history.failedAfter

EvidenceInv ==
    /\ history.failedAfter <= probe.revision
    /\ probe.pending # None => Causal(probe.pending)
    /\ probe.pending # None /\ probe.pending.failures # probe.failures => probe.invalidated
    /\ probe.latest # None => Causal(probe.latest)
    /\ OutageOutlastsFailures

SameHistory ==
    history'.failedAfter = history.failedAfter /\ history'.recoveredBy = history.recoveredBy

(* A probe begins after every failure there was.                            *)
LEMMA StartedKeepsEvidence ==
  ASSUME Types, EvidenceInv, NEW limit \in Nat, probe' = Started(limit), SameHistory
  PROVE  EvidenceInv'
<1> USE DEF Types, ProbeRecord, Ask, Sample, History, SameHistory, Started
<1>1. /\ probe'.revision = probe.revision + 1
      /\ probe'.failures = probe.failures
      /\ probe'.latest = probe.latest
      /\ probe'.pending.revision = probe.revision + 1
      /\ probe'.pending.failures = probe.failures
  OBVIOUS
<1>2. probe'.invalidated = probe.invalidated
  OBVIOUS
<1>3. probe'.latest # None => Causal(probe.latest)'
  BY <1>1 DEF Causal, EvidenceInv
<1>4. OutageOutlastsFailures'
  BY <1>1, <1>2 DEF OutageOutlastsFailures, EvidenceInv
<1> QED
  BY <1>1, <1>3, <1>4 DEF EvidenceInv, Causal

(* A failure outdates every answer, those still to come included.           *)
LEMMA FailureKeepsEvidence ==
  ASSUME Types, EvidenceInv, probe' = Invalidated(probe),
         history'.failedAfter = probe.revision
  PROVE  EvidenceInv'
<1> USE DEF Types, ProbeRecord, Ask, Sample, History, Invalidated
<1>1. /\ probe'.revision = probe.revision
      /\ probe'.failures = probe.failures + 1
      /\ probe'.latest = probe.latest
      /\ probe'.pending = probe.pending
  OBVIOUS
<1>2. probe'.invalidated
  OBVIOUS
<1>3. probe'.latest # None => Causal(probe.latest)'
  BY <1>1 DEF Causal, EvidenceInv
<1>4. probe'.pending # None => Causal(probe.pending)'
  BY <1>1 DEF Causal, EvidenceInv
<1> QED
  BY <1>1, <1>2, <1>3, <1>4 DEF EvidenceInv, OutageOutlastsFailures

(* An answer ends an outage only if no failure crossed it.                  *)
LEMMA AnswerKeepsEvidence ==
  ASSUME Types, EvidenceInv, InFlight, NEW finds \in Findings,
         probe' = Answered(SampleOf(finds)),
         history'.failedAfter = history.failedAfter,
         history'.recoveredBy = IF Complete(SampleOf(finds)) THEN SampleOf(finds).revision
                                ELSE history.recoveredBy
  PROVE  EvidenceInv'
<1> DEFINE sample == SampleOf(finds)
<1>1. /\ sample \in Sample
      /\ sample.revision = probe.pending.revision
      /\ sample.failures = probe.pending.failures
  BY ProbeOperations DEF Types, SampleOf
<1> HIDE DEF sample
<1>2. /\ probe'.revision = probe.revision
      /\ probe'.failures = probe.failures
      /\ probe'.latest = sample
      /\ probe'.pending = None
  BY DEF Types, ProbeRecord, Answered, sample
<1>3. probe'.invalidated = (probe.invalidated /\ ~EndsOutage(sample, probe.pending.limit))
  BY Zenon DEF Types, ProbeRecord, Answered, sample
<1>4. Causal(probe.latest)'
  BY <1>1, <1>2 DEF Causal, EvidenceInv, InFlight
<1>5. probe.pending.failures # probe.failures => probe.invalidated
  BY DEF EvidenceInv, InFlight
<1>6. EndsOutage(sample, probe.pending.limit) =>
        Complete(sample) /\ sample.failures = probe.failures
  BY DEF EndsOutage, Fresh, IsSampleCurrent
<1>7. history'.recoveredBy = IF Complete(sample) THEN sample.revision ELSE history.recoveredBy
  BY DEF sample
<1>8. OutageOutlastsFailures'
  <2> SUFFICES ASSUME probe'.failures > 0, ~probe'.invalidated
               PROVE  history'.recoveredBy > history'.failedAfter
    BY DEF OutageOutlastsFailures
  <2>1. CASE ~probe.invalidated
    <3>1. sample.revision > history.failedAfter
      BY <1>1, <1>5, <2>1 DEF EvidenceInv, Causal, InFlight
    <3>2. history.recoveredBy > history.failedAfter
      BY <1>2, <2>1 DEF EvidenceInv, OutageOutlastsFailures
    <3> QED
      BY <1>7, <3>1, <3>2
  <2>2. CASE probe.invalidated
    <3>1. EndsOutage(sample, probe.pending.limit)
      BY <1>3, <2>2
    <3> QED
      BY <1>1, <1>6, <1>7, <3>1 DEF EvidenceInv, Causal, InFlight
  <2> QED
    BY <2>1, <2>2
<1>9. history'.failedAfter <= probe'.revision
  BY <1>2 DEF EvidenceInv
<1> QED
  BY <1>2, <1>4, <1>8, <1>9 DEF EvidenceInv

(* Joining, a cached sample, the fence, an interruption or the clock change *)
(* nothing of the evidence, or drop it.                                     *)
LEMMA QuietKeepsEvidence ==
  ASSUME Types, EvidenceInv, SameHistory,
         \/ UNCHANGED probe
         \/ probe' = [probe EXCEPT !.fenced = TRUE]
         \/ probe' = [probe EXCEPT !.pending = None]
         \/ ProbeAges
  PROVE  EvidenceInv'
<1>1. /\ probe'.revision = probe.revision /\ probe'.failures = probe.failures
      /\ probe'.invalidated = probe.invalidated
  BY DEF Types, ProbeRecord, ProbeAges
<1>2. /\ probe'.latest = None \/ probe'.latest = probe.latest
         \/ (probe.latest # None /\ probe'.latest.revision = probe.latest.revision
                                 /\ probe'.latest.failures = probe.latest.failures)
      /\ probe'.pending = None \/ probe'.pending = probe.pending
         \/ (probe.pending # None /\ probe'.pending.revision = probe.pending.revision
                                  /\ probe'.pending.failures = probe.pending.failures)
  <2>1. CASE ProbeAges
    BY <2>1 DEF Types, ProbeRecord, ProbeAges, Older, Ask, Sample
  <2> QED
    BY <2>1 DEF Types, ProbeRecord
<1>3. probe'.latest # None => Causal(probe.latest)'
  BY <1>1, <1>2 DEF SameHistory, EvidenceInv, Causal
<1>4. probe'.pending # None => Causal(probe.pending)'
  BY <1>1, <1>2 DEF SameHistory, EvidenceInv, Causal
<1>5. probe'.pending # None /\ probe'.pending.failures # probe'.failures => probe'.invalidated
  BY <1>1, <1>2 DEF EvidenceInv
<1>6. OutageOutlastsFailures'
  BY <1>1 DEF SameHistory, EvidenceInv, OutageOutlastsFailures
<1> QED
  BY <1>1, <1>3, <1>4, <1>5, <1>6 DEF EvidenceInv, SameHistory

(* A caller of the probe joins it, is served, or starts it.                 *)
LEMMA RunIfDueKeepsEvidence ==
  ASSUME Types, EvidenceInv, NEW limit \in Nat, RunIfDue(limit), SameHistory
  PROVE  EvidenceInv'
BY StartedKeepsEvidence, QuietKeepsEvidence DEF RunIfDue

(* Every step keeps the evidence.                                           *)
LEMMA EvidenceStep == ASSUME Types, EvidenceInv, [Next]_vars PROVE EvidenceInv'
<1>1. ASSUME NEW w \in Workers, Start(w) PROVE EvidenceInv'
  BY <1>1, QuietKeepsEvidence DEF Start, SameHistory, Types, History
<1>2. ASSUME NEW w \in Workers, Stop(w) PROVE EvidenceInv'
  BY <1>2, QuietKeepsEvidence DEF Stop, SameHistory, Types, History
<1>3. CASE Fence
  BY <1>3, QuietKeepsEvidence DEF Fence, SameHistory, Types, History
<1>4. ASSUME NEW w \in Workers, BeginCycle(w) \/ CycleInterrupted(w) PROVE EvidenceInv'
  BY <1>4, QuietKeepsEvidence DEF BeginCycle, CycleInterrupted, SameHistory
<1>5. ASSUME NEW w \in Workers, TurnFails(w) \/ CycleThrows(w) PROVE EvidenceInv'
  <2>1. \/ probe' = Invalidated(probe) /\ FailureSeen(w)
        \/ UNCHANGED <<probe, history>>
    BY <1>5 DEF TurnFails, CycleThrows
  <2>2. FailureSeen(w) => history'.failedAfter = probe.revision
    BY DEF FailureSeen, Types, History
  <2> QED
    BY <2>1, <2>2, FailureKeepsEvidence, QuietKeepsEvidence DEF SameHistory
<1>6. ASSUME NEW w \in Workers, SweepEnds(w) PROVE EvidenceInv'
  <2>1. SameHistory
    BY <1>6 DEF SweepEnds, SameHistory
  <2>2. UNCHANGED probe \/ \E limit \in {MinInterval, IdleInterval} : RunIfDue(limit)
    BY <1>6 DEF SweepEnds
  <2> QED
    BY <2>1, <2>2, RunIfDueKeepsEvidence, QuietKeepsEvidence, LimitsType
<1>7. ASSUME NEW q \in Requests, Arrive(q) PROVE EvidenceInv'
  <2>1. SameHistory
    BY <1>7 DEF Arrive, SameHistory, Types, History
  <2> QED
    BY <1>7, <2>1, RunIfDueKeepsEvidence, LimitsType DEF Arrive
<1>8. ASSUME NEW q \in Requests, Resume(q) \/ Sell(q) PROVE EvidenceInv'
  BY <1>8, QuietKeepsEvidence DEF Resume, Sell, SameHistory
<1>9. CASE ProbeAnswers
  <2>1. PICK finds \in Findings :
          /\ probe' = Answered(SampleOf(finds))
          /\ history' = [history EXCEPT !.recoveredBy =
                           IF Complete(SampleOf(finds)) THEN SampleOf(finds).revision ELSE @]
    BY <1>9, Zenon DEF ProbeAnswers
  <2>2. /\ history'.failedAfter = history.failedAfter
        /\ history'.recoveredBy = IF Complete(SampleOf(finds)) THEN SampleOf(finds).revision
                                  ELSE history.recoveredBy
    BY <2>1 DEF Types, History
  <2> QED
    BY <1>9, <2>1, <2>2, AnswerKeepsEvidence DEF ProbeAnswers
<1>10. CASE ProbeInterrupted \/ Tick
  BY <1>10, QuietKeepsEvidence DEF ProbeInterrupted, Tick, SameHistory
<1>11. CASE UNCHANGED vars
  BY <1>11, QuietKeepsEvidence DEF vars, SameHistory
<1> QED
  BY <1>1, <1>2, <1>3, <1>4, <1>5, <1>6, <1>7, <1>8, <1>9, <1>10, <1>11 DEF Next, WorkerNext

-----------------------------------------------------------------------------
(***************************************************************************)
(* Health.  What a worker has lost, no later observation predates.         *)
(***************************************************************************)
HealthOf(w) ==
    /\ \/ history.lostAfter[w] <= worker[w].observed
       \/ history.lostAfter[w] <= history.failedAfter
    /\ Healthy(worker[w]) => worker[w].observed > history.lostAfter[w]

HealthInv == \A w \in Workers : HealthOf(w)

(* The history that a worker keeps, and a step that leaves it so.           *)
Kept(w) ==
    /\ worker'[w].observed = worker[w].observed
    /\ Healthy(worker'[w]) => Healthy(worker[w])

SameLosses(w) ==
    /\ history'.lostAfter[w] = history.lostAfter[w]
    /\ history'.failedAfter >= history.failedAfter

(* What the health operations leave of a worker's evidence.                 *)
LEMMA WorkerEffects ==
  ASSUME NEW r \in Worker
  PROVE  /\ Begun(r).observed = r.observed /\ Begun(r).health = r.health
         /\ Halted(r).observed = r.observed /\ Halted(r).health = "unknown"
         /\ Abandoned(r).observed = r.observed /\ Abandoned(r).health = r.health
         /\ WithCycleCompleted(r).observed = r.observed
         /\ WithCycleCompleted(r).health \in {r.health, "unhealthy"}
<1>1. Begun(r).observed = r.observed /\ Begun(r).health = r.health
  BY DEF Worker, Begun
<1>2. Halted(r).observed = r.observed /\ Halted(r).health = "unknown"
  BY DEF Worker, Halted
<1>3. Abandoned(r).observed = r.observed /\ Abandoned(r).health = r.health
  BY DEF Worker, Abandoned
<1>4. /\ WithCycleCompleted(r).observed = r.observed
      /\ WithCycleCompleted(r).health \in {r.health, "unhealthy"}
  BY <1>3, WorkerOperations DEF Worker, WithCycleCompleted
<1> QED
  BY <1>1, <1>2, <1>3, <1>4

(* After a probe a worker keeps its health, or has observed the sample.     *)
LEMMA AfterProbeEffect ==
  ASSUME NEW r \in Worker, NEW good, NEW sample \in Sample
  PROVE  LET after == AfterProbe(r, good, sample)
         IN  \/ /\ after.observed = r.observed
                /\ Healthy(after) => Healthy(r)
             \/ /\ after.observed = sample.revision
                /\ sample.revision > r.observed
                /\ IsSampleCurrent(probe, sample)
<1> DEFINE told == [r EXCEPT !.observed = sample.revision,
                             !.health = HealthAfterProbe(@, good)]
<1>1. told \in Worker /\ told.observed = sample.revision
  BY DEF Worker, Sample, HealthAfterProbe
<1> HIDE DEF told
<1>2. AfterProbe(r, good, sample) =
        IF r.cycle # r.generation THEN Abandoned(r)
        ELSE IF Observes(r, good, sample) THEN WithCycleCompleted(told) ELSE WithCycleCompleted(r)
  BY DEF AfterProbe, told
<1>3. WithCycleCompleted(told).observed = sample.revision
  BY <1>1, WorkerEffects
<1>4. /\ Healthy(Abandoned(r)) => Healthy(r)
      /\ Healthy(WithCycleCompleted(r)) => Healthy(r)
  BY WorkerEffects DEF Healthy
<1> QED
  BY <1>2, <1>3, <1>4, WorkerEffects DEF Observes

(* A worker that observes nothing new keeps what it has earned.             *)
LEMMA KeptHealth ==
  ASSUME Types, HealthInv, Types', NEW w \in Workers, SameLosses(w), Kept(w)
  PROVE  HealthOf(w)'
BY DEF Types, History, Worker, HealthInv, HealthOf, SameLosses, Kept

(* An observed sample was asked after all that this worker has lost.        *)
LEMMA ObservedHealth ==
  ASSUME Types, HealthInv, Types', NEW w \in Workers, SameLosses(w), NEW revision \in Nat,
         revision > worker[w].observed, revision > history.failedAfter,
         worker'[w].observed = revision
  PROVE  HealthOf(w)'
BY DEF Types, History, Worker, HealthInv, HealthOf, SameLosses

(* A sample that is handed to a worker cannot restore lost health.          *)
LEMMA ProbedHealth ==
  ASSUME Types, HealthInv, Types', NEW w \in Workers, SameLosses(w),
         NEW r \in Worker, r.observed = worker[w].observed, r.health = worker[w].health,
         NEW good, NEW sample \in Sample, worker'[w] = AfterProbe(r, good, sample),
         IsSampleCurrent(probe, sample) => sample.revision > history.failedAfter
  PROVE  HealthOf(w)'
<1>1. sample.revision \in Nat
  BY DEF Sample
<1>2. Kept(w) \/ /\ worker'[w].observed = sample.revision
                 /\ sample.revision > worker[w].observed
                 /\ sample.revision > history.failedAfter
  BY AfterProbeEffect DEF Kept, Healthy
<1> QED
  BY <1>1, <1>2, KeptHealth, ObservedHealth

(* A failure that is held against the provider is published at once.        *)
LEMMA FailureEffect ==
  ASSUME Types, NEW v \in Workers, TurnFails(v) \/ CycleThrows(v)
  PROVE  /\ \A u \in Workers : u # v => worker'[u] = worker[u]
         /\ \/ UNCHANGED history /\ Kept(v)
            \/ FailureSeen(v) /\ worker'[v].health = "unhealthy"
<1>1. worker[v] \in Worker
  BY DEF Types
<1>2. CASE TurnFails(v)
  <2>1. PICK b \in BOOLEAN :
          LET r == [worker[v] EXCEPT !.systemic = b]
          IN  \/ /\ worker' = [worker EXCEPT ![v] =
                                 [r EXCEPT !.observed = probe.revision, !.health = "unhealthy"]]
                 /\ FailureSeen(v)
              \/ worker' = [worker EXCEPT ![v] = r] /\ UNCHANGED history
    BY <1>1, <1>2 DEF TurnFails, Worker
  <2> DEFINE r == [worker[v] EXCEPT !.systemic = b]
  <2>2. r \in Worker /\ r.observed = worker[v].observed /\ r.health = worker[v].health
    BY <1>1 DEF Worker
  <2>3. [r EXCEPT !.observed = probe.revision, !.health = "unhealthy"].health = "unhealthy"
    BY <2>2 DEF Worker
  <2> HIDE DEF r
  <2>4. \/ /\ worker' = [worker EXCEPT ![v] =
                           [r EXCEPT !.observed = probe.revision, !.health = "unhealthy"]]
           /\ FailureSeen(v)
        \/ worker' = [worker EXCEPT ![v] = r] /\ UNCHANGED history
    BY <2>1 DEF r
  <2> QED
    BY <2>2, <2>3, <2>4 DEF Types, Kept, Healthy
<1>3. CASE CycleThrows(v)
  <2>1. Abandoned(worker[v]) \in Worker
    BY <1>1, WorkerOperations
  <2>2. [Abandoned(worker[v]) EXCEPT !.health = "unhealthy"].health = "unhealthy"
    BY <2>1 DEF Worker
  <2>3. \/ /\ worker' = [worker EXCEPT ![v] = [Abandoned(@) EXCEPT !.health = "unhealthy"]]
           /\ FailureSeen(v)
        \/ worker' = [worker EXCEPT ![v] = Abandoned(@)] /\ UNCHANGED history
    BY <1>3 DEF CycleThrows
  <2> QED
    BY <1>1, <2>2, <2>3, WorkerEffects DEF Types, Kept, Healthy
<1> QED
  BY <1>2, <1>3

(* Every step keeps the health earned.                                      *)
LEMMA HealthStep ==
  ASSUME Types, EvidenceInv, HealthInv, [Next]_vars
  PROVE  HealthInv'
<1>1. Types'
  BY TypesStep
<1> SUFFICES ASSUME NEW w \in Workers PROVE HealthOf(w)'
  BY DEF HealthInv
<1>2. ASSUME worker'[w] = worker[w], SameLosses(w) PROVE HealthOf(w)'
  BY <1>1, <1>2, KeptHealth DEF Kept
<1>3. worker[w] \in Worker
  BY DEF Types
<1>4. ASSUME NEW v \in Workers, Start(v) PROVE HealthOf(w)'
  <2>1. CASE v = w
    <3> DEFINE r == [worker[w] EXCEPT !.started = TRUE, !.generation = @ + 1,
                                      !.observed = probe.revision, !.health = "unknown"]
    <3>1. r.observed = probe.revision /\ r.health = "unknown"
      BY <1>3 DEF Worker
    <3>2. Begun(r).observed = r.observed /\ Begun(r).health = r.health
      BY <1>3 DEF Begun, Worker
    <3> HIDE DEF r
    <3>3. worker'[w] = IF r.pc = "idle" THEN Begun(r) ELSE r
      BY <1>4, <2>1 DEF Start, Types, r
    <3>4. history'.lostAfter[w] = probe.revision
      BY <1>4, <2>1 DEF Start, Types, History
    <3>5. worker'[w].observed = probe.revision /\ worker'[w].health = "unknown"
      BY <3>1, <3>2, <3>3
    <3> QED
      BY <3>4, <3>5 DEF HealthOf, Healthy, Types, ProbeRecord
  <2>2. CASE v # w
    <3>1. worker'[w] = worker[w] /\ history'.lostAfter[w] = history.lostAfter[w]
          /\ history'.failedAfter = history.failedAfter
      BY <1>4, <2>2 DEF Start, Types, History
    <3> QED
      BY <3>1 DEF HealthInv, HealthOf
  <2> QED
    BY <2>1, <2>2
<1>5. ASSUME NEW v \in Workers, Stop(v) PROVE HealthOf(w)'
  <2>1. SameLosses(w)
    BY <1>5 DEF Stop, SameLosses, Types, History
  <2>2. worker'[w] \in {worker[w], Halted(worker[w])}
    BY <1>5 DEF Stop, Types
  <2> QED
    BY <1>1, <1>3, <2>1, <2>2, WorkerEffects, KeptHealth DEF Kept, Healthy
<1>6. CASE Fence
  <2>1. SameLosses(w)
    BY <1>6 DEF Fence, SameLosses, Types, History
  <2>2. worker'[w] = Halted(worker[w])
    BY <1>6 DEF Fence, Types
  <2> QED
    BY <1>1, <1>3, <2>1, <2>2, WorkerEffects, KeptHealth DEF Kept, Healthy
<1>7. ASSUME NEW v \in Workers, BeginCycle(v) \/ CycleInterrupted(v) PROVE HealthOf(w)'
  <2>1. SameLosses(w)
    BY <1>7 DEF BeginCycle, CycleInterrupted, SameLosses, Types, History
  <2>2. worker'[w] \in {worker[w], Begun(worker[w]), Abandoned(worker[w])}
    BY <1>7 DEF BeginCycle, CycleInterrupted, Types
  <2> QED
    BY <1>1, <1>3, <2>1, <2>2, WorkerEffects, KeptHealth DEF Kept, Healthy
<1>8. ASSUME NEW v \in Workers, TurnFails(v) \/ CycleThrows(v) PROVE HealthOf(w)'
  <2>1. FailureSeen(v) => /\ history'.lostAfter[v] = probe.revision
                          /\ history'.failedAfter = probe.revision
                          /\ v # w => history'.lostAfter[w] = history.lostAfter[w]
    BY DEF FailureSeen, Types, History
  <2>2. CASE v # w
    <3>1. SameLosses(w)
      BY <1>8, <2>1, <2>2, FailureEffect
      DEF SameLosses, Types, History, ProbeRecord, EvidenceInv
    <3> QED
      BY <1>2, <1>8, <2>2, <3>1, FailureEffect
  <2>3. CASE v = w /\ UNCHANGED history /\ Kept(w)
    BY <1>1, <2>3, KeptHealth DEF SameLosses, Types, History
  <2>4. CASE v = w /\ FailureSeen(w) /\ worker'[w].health = "unhealthy"
    BY <2>1, <2>4 DEF HealthOf, Healthy, Types, ProbeRecord
  <2> QED
    BY <1>8, <2>2, <2>3, <2>4, FailureEffect
<1>9. ASSUME NEW v \in Workers, SweepEnds(v) PROVE HealthOf(w)'
  <2>1. SameLosses(w)
    BY <1>9 DEF SweepEnds, SameLosses, Types, History
  <2>2. CASE worker'[w] \in {worker[w], Abandoned(worker[w]), WithCycleCompleted(worker[w])}
    BY <1>1, <1>3, <2>1, <2>2, WorkerEffects, KeptHealth DEF Kept, Healthy
  <2>3. ASSUME NEW limit \in {MinInterval, IdleInterval},
               worker'[w] = LET r == [worker[w] EXCEPT !.pc = "probe", !.accepts = limit]
                            IN  IF ServedFromCache(limit)
                                THEN AfterProbe(r, probe.latest.finds[w], probe.latest) ELSE r
        PROVE  HealthOf(w)'
    <3> DEFINE r == [worker[w] EXCEPT !.pc = "probe", !.accepts = limit]
    <3>1. r \in Worker /\ r.observed = worker[w].observed /\ r.health = worker[w].health
      BY <1>3, LimitsType DEF Worker
    <3> HIDE DEF r
    <3>2. CASE ServedFromCache(limit)
      <4>1. worker'[w] = AfterProbe(r, probe.latest.finds[w], probe.latest)
        BY <2>3, <3>2 DEF r
      <4>2. probe.latest \in Sample
        BY <3>2, CachedType, LimitsType DEF Types
      <4>3. probe.latest.revision > history.failedAfter
        BY <3>2 DEF ServedFromCache, IsSampleCurrent, EvidenceInv, Causal
      <4> QED
        BY <1>1, <2>1, <3>1, <4>1, <4>2, <4>3, ProbedHealth
    <3>3. CASE ~ServedFromCache(limit)
      <4>1. worker'[w] = r
        BY <2>3, <3>3 DEF r
      <4> QED
        BY <1>1, <2>1, <3>1, <4>1, KeptHealth DEF Kept, Healthy
    <3> QED
      BY <3>2, <3>3
  <2>4. \/ worker'[w] \in {worker[w], Abandoned(worker[w]), WithCycleCompleted(worker[w])}
        \/ \E limit \in {MinInterval, IdleInterval} :
             worker'[w] = LET r == [worker[w] EXCEPT !.pc = "probe", !.accepts = limit]
                          IN  IF ServedFromCache(limit)
                              THEN AfterProbe(r, probe.latest.finds[w], probe.latest) ELSE r
    BY <1>9 DEF SweepEnds, Types
  <2> QED
    BY <2>2, <2>3, <2>4
<1>10. ASSUME NEW q \in Requests, Arrive(q) \/ Resume(q) \/ Sell(q) PROVE HealthOf(w)'
  <2>1. worker' = worker /\ SameLosses(w)
    BY <1>10 DEF Arrive, Resume, Sell, SameLosses, Types, History
  <2> QED
    BY <1>2, <2>1
<1>11. CASE ProbeAnswers
  <2>1. PICK finds \in Findings :
          LET sample == SampleOf(finds)
          IN  /\ worker' = [v \in Workers |->
                              IF worker[v].pc = "probe"
                              THEN AfterProbe(worker[v], sample.finds[v], sample) ELSE worker[v]]
              /\ history' = [history EXCEPT !.recoveredBy =
                               IF Complete(sample) THEN sample.revision ELSE @]
    BY <1>11, Zenon DEF ProbeAnswers
  <2> DEFINE sample == SampleOf(finds)
  <2>2. SameLosses(w)
    BY <2>1 DEF SameLosses, Types, History
  <2>3. sample \in Sample
    BY <1>11, ProbeOperations DEF ProbeAnswers, Types
  <2>4. IsSampleCurrent(probe, sample) => sample.revision > history.failedAfter
    BY <1>11 DEF ProbeAnswers, InFlight, EvidenceInv, Causal, IsSampleCurrent, SampleOf
  <2> HIDE DEF sample
  <2>5. worker'[w] = IF worker[w].pc = "probe"
                     THEN AfterProbe(worker[w], sample.finds[w], sample) ELSE worker[w]
    BY <2>1 DEF sample
  <2>6. CASE worker[w].pc = "probe"
    BY <1>1, <1>3, <2>2, <2>3, <2>4, <2>5, <2>6, ProbedHealth
  <2>7. CASE worker[w].pc # "probe"
    BY <1>2, <2>2, <2>5, <2>7
  <2> QED
    BY <2>6, <2>7
<1>12. CASE ProbeInterrupted
  <2>1. SameLosses(w)
    BY <1>12 DEF ProbeInterrupted, SameLosses, Types, History
  <2>2. worker'[w] \in {worker[w], Abandoned(worker[w])}
    BY <1>12 DEF ProbeInterrupted, Types
  <2> QED
    BY <1>1, <1>3, <2>1, <2>2, WorkerEffects, KeptHealth DEF Kept, Healthy
<1>13. CASE Tick \/ UNCHANGED vars
  <2>1. worker' = worker /\ SameLosses(w)
    BY <1>13 DEF Tick, vars, SameLosses, Types, History
  <2> QED
    BY <1>2, <2>1
<1> QED
  BY <1>4, <1>5, <1>6, <1>7, <1>8, <1>9, <1>10, <1>11, <1>12, <1>13 DEF Next, WorkerNext

-----------------------------------------------------------------------------
(***************************************************************************)
(* Admission.  A check that a stop or a restart has crossed remembers a     *)
(* generation that is no longer the worker's.                              *)
(***************************************************************************)
CheckOf(q) ==
    request[q].pc \in {"waiting", "checked"} =>
        /\ request[q].generations \in [Workers -> Nat]
        /\ \A w \in Workers : request[q].generations[w] <= worker[w].generation
        /\ q \in history.disturbed =>
             \E w \in Workers : request[q].generations[w] < worker[w].generation

CheckInv == \A q \in Requests : CheckOf(q)

GenerationsGrow == \A w \in Workers : worker'[w].generation >= worker[w].generation

(* Only stop and start count the generations.                               *)
LEMMA SameGeneration ==
  ASSUME NEW r \in Worker
  PROVE  /\ Begun(r).generation = r.generation
         /\ Halted(r).generation = r.generation + 1
         /\ Abandoned(r).generation = r.generation
         /\ WithCycleCompleted(r).generation = r.generation
         /\ \A good : \A sample \in Sample : AfterProbe(r, good, sample).generation = r.generation
<1>1. Begun(r).generation = r.generation
  BY DEF Worker, Begun
<1>2. Halted(r).generation = r.generation + 1
  BY DEF Worker, Halted
<1>3. ASSUME NEW x \in Worker
      PROVE  /\ Abandoned(x).generation = x.generation
             /\ WithCycleCompleted(x).generation = x.generation
  BY WorkerOperations DEF Worker, Abandoned, WithCycleCompleted
<1>4. ASSUME NEW good, NEW sample \in Sample
      PROVE  AfterProbe(r, good, sample).generation = r.generation
  <2> DEFINE told == [r EXCEPT !.observed = sample.revision,
                               !.health = HealthAfterProbe(@, good)]
  <2>1. told \in Worker /\ told.generation = r.generation
    BY DEF Worker, Sample, HealthAfterProbe
  <2> HIDE DEF told
  <2>2. AfterProbe(r, good, sample) \in
          {Abandoned(r), WithCycleCompleted(told), WithCycleCompleted(r)}
    BY DEF AfterProbe, told
  <2> QED
    BY <1>3, <2>1, <2>2
<1> QED
  BY <1>1, <1>2, <1>3, <1>4

(* No step takes a worker back to an earlier generation.                    *)
LEMMA GenerationStep == ASSUME Types, [Next]_vars PROVE GenerationsGrow
<1> SUFFICES ASSUME NEW w \in Workers PROVE worker'[w].generation >= worker[w].generation
  BY DEF GenerationsGrow
<1>1. worker[w] \in Worker /\ worker[w].generation \in Nat
  BY DEF Types, Worker
<1>2. ASSUME worker'[w] \in {worker[w], Begun(worker[w]), Halted(worker[w]),
                             Abandoned(worker[w]), WithCycleCompleted(worker[w])}
      PROVE  worker'[w].generation >= worker[w].generation
  BY <1>1, <1>2, SameGeneration
<1>3. ASSUME NEW v \in Workers, Start(v) PROVE worker'[w].generation >= worker[w].generation
  <2> DEFINE r == [worker[w] EXCEPT !.started = TRUE, !.generation = @ + 1,
                                    !.observed = probe.revision, !.health = "unknown"]
  <2>1. r.generation = worker[w].generation + 1 /\ Begun(r).generation = r.generation
    BY <1>1 DEF Worker, Begun
  <2> HIDE DEF r
  <2>2. worker'[w] \in {worker[w], r, Begun(r)}
    BY <1>3 DEF Start, Types, r
  <2> QED
    BY <1>1, <2>1, <2>2
<1>4. ASSUME NEW v \in Workers, Stop(v) \/ BeginCycle(v) \/ CycleInterrupted(v)
      PROVE  worker'[w].generation >= worker[w].generation
  BY <1>2, <1>4 DEF Stop, BeginCycle, CycleInterrupted, Types
<1>5. CASE Fence \/ ProbeInterrupted \/ Tick \/ UNCHANGED vars
  BY <1>2, <1>5 DEF Fence, ProbeInterrupted, Tick, vars, Types
<1>6. ASSUME NEW v \in Workers, TurnFails(v) PROVE worker'[w].generation >= worker[w].generation
  <2>1. PICK b \in BOOLEAN :
          LET r == [worker[v] EXCEPT !.systemic = b]
          IN  \/ worker' = [worker EXCEPT ![v] =
                              [r EXCEPT !.observed = probe.revision, !.health = "unhealthy"]]
              \/ worker' = [worker EXCEPT ![v] = r]
    BY <1>6 DEF TurnFails, Types, Worker
  <2> DEFINE r == [worker[v] EXCEPT !.systemic = b]
  <2>2. r \in Worker /\ r.generation = worker[v].generation
    BY DEF Types, Worker
  <2> DEFINE lost == [r EXCEPT !.observed = probe.revision, !.health = "unhealthy"]
  <2>3. lost.generation = r.generation
    BY <2>2 DEF Worker
  <2>4. worker' = [worker EXCEPT ![v] = lost] \/ worker' = [worker EXCEPT ![v] = r]
    BY <2>1
  <2> HIDE DEF r, lost
  <2> QED
    BY <1>1, <2>2, <2>3, <2>4 DEF Types
<1>7. ASSUME NEW v \in Workers, CycleThrows(v) PROVE worker'[w].generation >= worker[w].generation
  <2> DEFINE r == Abandoned(worker[v])
  <2> DEFINE lost == [r EXCEPT !.health = "unhealthy"]
  <2>1. r \in Worker /\ r.generation = worker[v].generation
    BY WorkerOperations, SameGeneration DEF Types
  <2>2. worker' = [worker EXCEPT ![v] = lost] \/ worker' = [worker EXCEPT ![v] = r]
    BY <1>7 DEF CycleThrows, Types
  <2> HIDE DEF r
  <2>3. lost.generation = r.generation
    BY <2>1 DEF Worker
  <2> HIDE DEF lost
  <2> QED
    BY <1>1, <2>1, <2>2, <2>3 DEF Types
<1>8. ASSUME NEW v \in Workers, SweepEnds(v) PROVE worker'[w].generation >= worker[w].generation
  <2>1. ASSUME NEW limit \in {MinInterval, IdleInterval},
               worker'[w] = LET r == [worker[w] EXCEPT !.pc = "probe", !.accepts = limit]
                            IN  IF ServedFromCache(limit)
                                THEN AfterProbe(r, probe.latest.finds[w], probe.latest) ELSE r
        PROVE  worker'[w].generation >= worker[w].generation
    <3> DEFINE r == [worker[w] EXCEPT !.pc = "probe", !.accepts = limit]
    <3>1. r \in Worker /\ r.generation = worker[w].generation
      BY <1>1, LimitsType DEF Worker
    <3> HIDE DEF r
    <3>2. ServedFromCache(limit) => probe.latest \in Sample
      BY CachedType, LimitsType DEF Types
    <3>3. worker'[w] = IF ServedFromCache(limit)
                       THEN AfterProbe(r, probe.latest.finds[w], probe.latest) ELSE r
      BY <2>1 DEF r
    <3>4. ServedFromCache(limit) =>
            AfterProbe(r, probe.latest.finds[w], probe.latest).generation = r.generation
      BY <3>1, <3>2, SameGeneration
    <3> QED
      BY <1>1, <3>1, <3>3, <3>4
  <2>2. \/ worker'[w] \in {worker[w], Abandoned(worker[w]), WithCycleCompleted(worker[w])}
        \/ \E limit \in {MinInterval, IdleInterval} :
             worker'[w] = LET r == [worker[w] EXCEPT !.pc = "probe", !.accepts = limit]
                          IN  IF ServedFromCache(limit)
                              THEN AfterProbe(r, probe.latest.finds[w], probe.latest) ELSE r
    BY <1>8 DEF SweepEnds, Types
  <2> QED
    BY <1>2, <2>1, <2>2
<1>9. ASSUME NEW q \in Requests, Arrive(q) \/ Resume(q) \/ Sell(q)
      PROVE  worker'[w].generation >= worker[w].generation
  BY <1>2, <1>9 DEF Arrive, Resume, Sell
<1>10. CASE ProbeAnswers
  <2>1. PICK finds \in Findings :
          worker' = [v \in Workers |->
                      IF worker[v].pc = "probe"
                      THEN AfterProbe(worker[v], SampleOf(finds).finds[v], SampleOf(finds))
                      ELSE worker[v]]
    BY <1>10, Zenon DEF ProbeAnswers
  <2>2. SampleOf(finds) \in Sample
    BY <1>10, ProbeOperations DEF ProbeAnswers, Types
  <2> DEFINE sample == SampleOf(finds)
  <2> HIDE DEF sample
  <2>3. AfterProbe(worker[w], sample.finds[w], sample).generation = worker[w].generation
    BY <1>1, <2>2, SameGeneration DEF sample
  <2>4. worker'[w] \in {worker[w], AfterProbe(worker[w], sample.finds[w], sample)}
    BY <2>1 DEF sample
  <2> QED
    BY <1>1, <2>3, <2>4
<1> QED
  BY <1>3, <1>4, <1>5, <1>6, <1>7, <1>8, <1>9, <1>10 DEF Next, WorkerNext

(* A check under way stays as it is, and nothing disturbs it.               *)
LEMMA KeptCheck ==
  ASSUME Types, CheckInv, GenerationsGrow, Types', NEW q \in Requests,
         request'[q].pc \in {"waiting", "checked"} =>
             /\ request[q].pc \in {"waiting", "checked"}
             /\ request'[q].generations = request[q].generations
             /\ q \in history'.disturbed => q \in history.disturbed
  PROVE  CheckOf(q)'
<1> SUFFICES ASSUME request'[q].pc \in {"waiting", "checked"} PROVE CheckOf(q)'
  BY DEF CheckOf
<1>1. CheckOf(q) /\ request'[q].generations = request[q].generations
  BY DEF CheckInv
<1>2. \A w \in Workers : /\ worker[w].generation \in Nat /\ worker'[w].generation \in Nat
                         /\ worker'[w].generation >= worker[w].generation
  BY DEF GenerationsGrow, Types, Worker
<1> QED
  BY <1>1, <1>2 DEF CheckOf

(* A stop disturbs the checks under way, and leaves its generation behind.  *)
LEMMA DisturbedCheck ==
  ASSUME Types, CheckInv, GenerationsGrow, Types', NEW q \in Requests, UNCHANGED request,
         NEW v \in Workers, worker'[v].generation > worker[v].generation
  PROVE  CheckOf(q)'
<1> SUFFICES ASSUME request'[q].pc \in {"waiting", "checked"} PROVE CheckOf(q)'
  BY DEF CheckOf
<1>1. CheckOf(q) /\ request'[q].generations = request[q].generations
  BY DEF CheckInv
<1>2. \A w \in Workers : /\ worker[w].generation \in Nat /\ worker'[w].generation \in Nat
                         /\ worker'[w].generation >= worker[w].generation
  BY DEF GenerationsGrow, Types, Worker
<1>3. request'[q].generations[v] < worker'[v].generation
  BY <1>1, <1>2 DEF CheckOf
<1> QED
  BY <1>1, <1>2, <1>3 DEF CheckOf

(* Every step keeps the checks' generations.                                *)
LEMMA CheckStep == ASSUME Types, CheckInv, [Next]_vars PROVE CheckInv'
<1>1. Types' /\ GenerationsGrow
  BY TypesStep, GenerationStep
<1> SUFFICES ASSUME NEW q \in Requests PROVE CheckOf(q)'
  BY DEF CheckInv
<1>2. ASSUME UNCHANGED request, history'.disturbed = history.disturbed PROVE CheckOf(q)'
  BY <1>1, <1>2, KeptCheck
<1>3. ASSUME NEW w \in Workers, Stop(w) PROVE CheckOf(q)'
  <2>1. worker'[w].generation > worker[w].generation /\ UNCHANGED request
    BY <1>3, SameGeneration DEF Stop, Types, Worker
  <2> QED
    BY <1>1, <2>1, DisturbedCheck
<1>4. CASE Fence
  <2>1. worker'[Poller] = Halted(worker[Poller]) /\ UNCHANGED request
    BY <1>4, AdmissionAssumption DEF Fence
  <2>2. worker[Poller] \in Worker /\ worker[Poller].generation \in Nat
    BY AdmissionAssumption DEF Types, Worker
  <2>3. worker'[Poller].generation > worker[Poller].generation
    BY <2>1, <2>2, SameGeneration
  <2> QED
    BY <1>1, <2>1, <2>3, DisturbedCheck, AdmissionAssumption
<1>5. ASSUME NEW w \in Workers, Start(w) PROVE CheckOf(q)'
  BY <1>2, <1>5 DEF Start, Types, History
<1>6. ASSUME NEW w \in Workers,
             \/ BeginCycle(w) \/ TurnFails(w) \/ CycleThrows(w) \/ SweepEnds(w)
             \/ CycleInterrupted(w)
      PROVE  CheckOf(q)'
  <2>1. UNCHANGED request /\ history'.disturbed = history.disturbed
    BY <1>6 DEF BeginCycle, TurnFails, CycleThrows, SweepEnds, CycleInterrupted, FailureSeen,
                Types, History
  <2> QED
    BY <1>2, <2>1
<1>7. ASSUME NEW p \in Requests, Arrive(p) PROVE CheckOf(q)'
  <2>1. history'.disturbed = history.disturbed \ {p} /\ UNCHANGED worker
    BY <1>7 DEF Arrive, Types, History
  <2>2. CASE p = q
    <3>1. request'[q].generations = [w \in Workers |-> worker[w].generation]
      BY <1>7, <2>2 DEF Arrive, Types, Request
    <3>2. \A w \in Workers : worker[w].generation \in Nat
      BY DEF Types, Worker
    <3> QED
      BY <2>1, <2>2, <3>1, <3>2 DEF CheckOf
  <2>3. CASE p # q
    <3>1. request'[q] = request[q]
      BY <1>7, <2>3 DEF Arrive, Types
    <3> QED
      BY <1>1, <2>1, <3>1, KeptCheck
  <2> QED
    BY <2>2, <2>3
<1>8. ASSUME NEW p \in Requests, Resume(p) \/ Sell(p) PROVE CheckOf(q)'
  <2>1. request'[q].pc \in {"waiting", "checked"} =>
          /\ request[q].pc \in {"waiting", "checked"}
          /\ request'[q].generations = request[q].generations
    <3>1. CASE p = q
      <4>1. request[q].pc \in {"waiting", "checked"}
        BY <1>8, <3>1 DEF Resume, Sell
      <4> QED
        BY <1>8, <3>1, <4>1, GoesEffect, RefuseEffect DEF Resume, Sell
    <3>2. CASE p # q
      BY <1>8, <3>2 DEF Resume, Sell, Goes, Refuse, Types
    <3> QED
      BY <3>1, <3>2
  <2> QED
    BY <1>1, <1>8, <2>1, KeptCheck DEF Resume, Sell
<1>9. CASE ProbeAnswers
  <2>1. request' = [p \in Requests |-> [request[p] EXCEPT !.answered = @ \/ Awaiting(p)]]
    BY <1>9 DEF ProbeAnswers
  <2>2. request'[q].pc = request[q].pc /\ request'[q].generations = request[q].generations
    BY <2>1 DEF Types, Request
  <2>3. history'.disturbed = history.disturbed
    BY <1>9 DEF ProbeAnswers, Types, History
  <2> QED
    BY <1>1, <2>2, <2>3, KeptCheck
<1>10. CASE ProbeInterrupted
  <2>1. request'[q] \in {request[q], NewRequest} /\ UNCHANGED history
    BY <1>10 DEF ProbeInterrupted
  <2> QED
    BY <1>1, <2>1, KeptCheck DEF NewRequest
<1>11. CASE Tick \/ UNCHANGED vars
  BY <1>2, <1>11 DEF Tick, vars
<1> QED
  BY <1>3, <1>4, <1>5, <1>6, <1>7, <1>8, <1>9, <1>10, <1>11 DEF Next, WorkerNext

-----------------------------------------------------------------------------
(***************************************************************************)
(* Waiting.  Who waits is told, or its probe is in flight.                  *)
(***************************************************************************)
LEMMA RunIfDueWaits ==
  ASSUME Types, NEW limit \in Nat, RunIfDue(limit), ~ServedFromCache(limit)
  PROVE  InFlight'
<1>1. Started(limit).revision # probe.revision
  BY DEF Started, Types, ProbeRecord
<1>2. CASE UNCHANGED probe
  BY <1>1, <1>2 DEF RunIfDue, InFlight
<1>3. CASE probe' = Started(limit)
  <2>1. probe'.pending = [revision |-> probe.revision + 1, epoch |-> probe.epoch,
                          failures |-> probe.failures, age |-> 0, limit |-> limit]
    BY <1>3 DEF Started, Types, ProbeRecord
  <2>2. probe'.pending \in [revision : Nat, epoch : Nat, failures : Nat, age : Nat, limit : Nat]
    BY <2>1 DEF Types, ProbeRecord
  <2> QED
    BY <2>2, ProbeAssumption DEF InFlight
<1> QED
  BY <1>2, <1>3 DEF RunIfDue

(* Where the operations leave a cycle.                                      *)
LEMMA PcEffects ==
  ASSUME NEW r \in Worker
  PROVE  /\ Begun(r).pc = "sweep" /\ Halted(r).pc = r.pc
         /\ Abandoned(r).pc = "idle" /\ WithCycleCompleted(r).pc = "idle"
         /\ \A good : \A sample \in Sample : AfterProbe(r, good, sample).pc = "idle"
<1>1. Begun(r).pc = "sweep"
  BY DEF Worker, Begun
<1>2. Halted(r).pc = r.pc
  BY DEF Worker, Halted
<1>3. ASSUME NEW x \in Worker PROVE Abandoned(x).pc = "idle" /\ WithCycleCompleted(x).pc = "idle"
  <2>1. Abandoned(x).pc = "idle" /\ Abandoned(x) \in Worker
    BY WorkerOperations DEF Worker, Abandoned
  <2>2. WithCycleCompleted(x).pc = Abandoned(x).pc
    BY <2>1 DEF Worker, WithCycleCompleted
  <2> QED
    BY <2>1, <2>2
<1>4. ASSUME NEW good, NEW sample \in Sample PROVE AfterProbe(r, good, sample).pc = "idle"
  <2> DEFINE told == [r EXCEPT !.observed = sample.revision,
                               !.health = HealthAfterProbe(@, good)]
  <2>1. told \in Worker
    BY DEF Worker, Sample, HealthAfterProbe
  <2> HIDE DEF told
  <2>2. AfterProbe(r, good, sample) \in
          {Abandoned(r), WithCycleCompleted(told), WithCycleCompleted(r)}
    BY DEF AfterProbe, told
  <2> QED
    BY <1>3, <2>1, <2>2
<1> QED
  BY <1>1, <1>2, <1>3, <1>4

(* Every step keeps a probe for those who wait.                             *)
LEMMA WaitStep == ASSUME Types, WaitersHaveAProbe, [Next]_vars PROVE WaitersHaveAProbe'
<1>1. ASSUME InFlight => InFlight',
             \A w \in Workers : worker'[w].pc = "probe" => worker[w].pc = "probe",
             \A q \in Requests : Awaiting(q)' => Awaiting(q)
      PROVE  WaitersHaveAProbe'
  BY <1>1 DEF WaitersHaveAProbe
<1>2. ASSUME NEW limit \in Nat, RunIfDue(limit) PROVE InFlight => InFlight'
  BY <1>2 DEF RunIfDue, InFlight
<1>3. UNCHANGED request => \A q \in Requests : Awaiting(q)' => Awaiting(q)
  BY DEF Awaiting
<1>4. \A w \in Workers : worker[w] \in Worker
  BY DEF Types
<1>5. ASSUME NEW v \in Workers,
             Start(v) \/ Stop(v) \/ BeginCycle(v) \/ CycleInterrupted(v)
      PROVE  WaitersHaveAProbe'
  <2>1. ASSUME NEW w \in Workers, worker'[w].pc = "probe" PROVE worker[w].pc = "probe"
    <3> DEFINE r == [worker[w] EXCEPT !.started = TRUE, !.generation = @ + 1,
                                      !.observed = probe.revision, !.health = "unknown"]
    <3>1. r.pc = worker[w].pc /\ Begun(r).pc = "sweep"
      BY <1>4 DEF Worker, Begun
    <3> HIDE DEF r
    <3>2. worker'[w] \in {worker[w], r, Begun(r), Halted(worker[w]), Begun(worker[w]),
                          Abandoned(worker[w])}
      BY <1>5 DEF Start, Stop, BeginCycle, CycleInterrupted, Types, r
    <3> QED
      BY <1>4, <2>1, <3>1, <3>2, PcEffects
  <2> QED
    BY <1>1, <1>3, <1>5, <2>1 DEF Start, Stop, BeginCycle, CycleInterrupted, InFlight
<1>6. CASE Fence
  <2>1. InFlight => InFlight'
    BY <1>6 DEF Fence, InFlight, Types, ProbeRecord
  <2>2. \A w \in Workers : worker'[w].pc = worker[w].pc
    BY <1>4, <1>6, PcEffects DEF Fence
  <2> QED
    BY <1>1, <1>3, <1>6, <2>1, <2>2 DEF Fence
<1>7. ASSUME NEW v \in Workers, TurnFails(v) \/ CycleThrows(v) PROVE WaitersHaveAProbe'
  <2>1. InFlight => InFlight'
    BY <1>7 DEF TurnFails, CycleThrows, Invalidated, InFlight, Types, ProbeRecord
  <2>2. ASSUME NEW w \in Workers, worker'[w].pc = "probe" PROVE worker[w].pc = "probe"
    <3>1. CASE v # w
      BY <1>7, <2>2, <3>1, FailureEffect
    <3>2. CASE v = w /\ TurnFails(w)
      <4>1. PICK b \in BOOLEAN :
              LET r == [worker[w] EXCEPT !.systemic = b]
              IN  \/ worker' = [worker EXCEPT ![w] =
                                  [r EXCEPT !.observed = probe.revision, !.health = "unhealthy"]]
                  \/ worker' = [worker EXCEPT ![w] = r]
        BY <3>2 DEF TurnFails, Types, Worker
      <4> DEFINE r == [worker[w] EXCEPT !.systemic = b]
                 lost == [r EXCEPT !.observed = probe.revision, !.health = "unhealthy"]
      <4>2. r \in Worker /\ r.pc = worker[w].pc
        BY <1>4 DEF Worker
      <4>3. worker'[w] \in {r, lost}
        BY <4>1 DEF Types
      <4> HIDE DEF r
      <4>4. lost.pc = r.pc
        BY <4>2 DEF Worker
      <4> QED
        BY <2>2, <4>2, <4>3, <4>4
    <3>3. CASE v = w /\ CycleThrows(w)
      <4> DEFINE r == Abandoned(worker[w])
      <4>1. r \in Worker /\ r.pc = "idle"
        BY <1>4, WorkerOperations, PcEffects
      <4>2. worker'[w] \in {r, [r EXCEPT !.health = "unhealthy"]}
        BY <3>3 DEF CycleThrows, Types
      <4> HIDE DEF r
      <4> QED
        BY <2>2, <4>1, <4>2 DEF Worker
    <3> QED
      BY <1>7, <3>1, <3>2, <3>3
  <2> QED
    BY <1>1, <1>3, <1>7, <2>1, <2>2 DEF TurnFails, CycleThrows
<1>8. ASSUME NEW v \in Workers, SweepEnds(v) PROVE WaitersHaveAProbe'
  <2>1. UNCHANGED request /\ (InFlight => InFlight')
    BY <1>2, <1>8, LimitsType DEF SweepEnds, InFlight
  <2>2. CASE worker' \in {[worker EXCEPT ![v] = Abandoned(@)],
                          [worker EXCEPT ![v] = WithCycleCompleted(@)]}
    <3>1. \A w \in Workers : worker'[w].pc = "probe" => worker[w].pc = "probe"
      BY <1>4, <2>2, PcEffects DEF Types
    <3> QED
      BY <1>1, <1>3, <2>1, <3>1
  <2>3. ASSUME NEW limit \in {MinInterval, IdleInterval}, RunIfDue(limit),
               worker' = [worker EXCEPT ![v] =
                            LET r == [worker[v] EXCEPT !.pc = "probe", !.accepts = limit]
                            IN  IF ServedFromCache(limit)
                                THEN AfterProbe(r, probe.latest.finds[v], probe.latest) ELSE r]
        PROVE  WaitersHaveAProbe'
    <3>1. CASE ~ServedFromCache(limit)
      BY <2>3, <3>1, RunIfDueWaits, LimitsType DEF WaitersHaveAProbe
    <3>2. CASE ServedFromCache(limit)
      <4> DEFINE r == [worker[v] EXCEPT !.pc = "probe", !.accepts = limit]
      <4>1. r \in Worker /\ probe.latest \in Sample
        BY <1>4, <3>2, LimitsType, CachedType DEF Types, Worker
      <4> HIDE DEF r
      <4>2. AfterProbe(r, probe.latest.finds[v], probe.latest).pc = "idle"
        BY <4>1, PcEffects
      <4>3. worker' = [worker EXCEPT ![v] = AfterProbe(r, probe.latest.finds[v], probe.latest)]
        BY <2>3, <3>2 DEF r
      <4>4. \A w \in Workers : worker'[w].pc = "probe" => worker[w].pc = "probe"
        BY <4>2, <4>3 DEF Types
      <4> QED
        BY <1>1, <1>3, <2>1, <4>4
    <3> QED
      BY <3>1, <3>2
  <2> QED
    BY <1>8, <2>2, <2>3 DEF SweepEnds
<1>9. ASSUME NEW p \in Requests, Arrive(p) PROVE WaitersHaveAProbe'
  <2>1. CASE ~ServedFromCache(AdmissionAge)
    BY <1>9, <2>1, RunIfDueWaits, LimitsType DEF Arrive, WaitersHaveAProbe
  <2>2. CASE ServedFromCache(AdmissionAge)
    <3>1. ASSUME NEW q \in Requests, Awaiting(q)' PROVE Awaiting(q)
      BY <1>9, <2>2, <3>1 DEF Arrive, Awaiting, Types, Request
    <3> QED
      BY <1>1, <1>2, <1>9, <3>1, LimitsType DEF Arrive
  <2> QED
    BY <2>1, <2>2
<1>10. ASSUME NEW p \in Requests, Resume(p) \/ Sell(p) PROVE WaitersHaveAProbe'
  <2>1. ASSUME NEW q \in Requests, Awaiting(q)' PROVE Awaiting(q)
    <3>1. CASE p # q
      BY <1>10, <2>1, <3>1 DEF Resume, Sell, Goes, Refuse, Awaiting, Types
    <3>2. CASE p = q
      <4>1. request'[q].pc # "waiting"
        BY <1>10, <3>2, GoesEffect, RefuseEffect DEF Resume, Sell
      <4> QED
        BY <2>1, <4>1 DEF Awaiting
    <3> QED
      BY <3>1, <3>2
  <2> QED
    BY <1>1, <1>10, <2>1 DEF Resume, Sell, InFlight
<1>11. CASE ProbeAnswers
  <2>1. ASSUME NEW w \in Workers PROVE worker'[w].pc # "probe"
    <3>1. PICK finds \in Findings :
            worker' = [v \in Workers |->
                        IF worker[v].pc = "probe"
                        THEN AfterProbe(worker[v], SampleOf(finds).finds[v], SampleOf(finds))
                        ELSE worker[v]]
      BY <1>11, Zenon DEF ProbeAnswers
    <3> DEFINE sample == SampleOf(finds)
    <3>2. sample \in Sample
      BY <1>11, ProbeOperations DEF ProbeAnswers, Types
    <3> HIDE DEF sample
    <3>3. AfterProbe(worker[w], sample.finds[w], sample).pc = "idle"
      BY <1>4, <3>2, PcEffects
    <3> QED
      BY <3>1, <3>3 DEF sample
  <2>2. ASSUME NEW q \in Requests PROVE ~Awaiting(q)'
    <3>1. request' = [p \in Requests |-> [request[p] EXCEPT !.answered = @ \/ Awaiting(p)]]
      BY <1>11 DEF ProbeAnswers
    <3>2. request[q] \in Request
      BY DEF Types
    <3>3. CASE request[q].answered \/ Awaiting(q)
      <4>1. request'[q].answered
        BY <3>1, <3>2, <3>3 DEF Request
      <4> QED
        BY <4>1 DEF Awaiting
    <3>4. CASE ~request[q].answered /\ ~Awaiting(q)
      <4>1. request'[q].pc = request[q].pc
        BY <3>1, <3>2 DEF Request
      <4> QED
        BY <3>4, <4>1 DEF Awaiting
    <3> QED
      BY <3>3, <3>4
  <2> QED
    BY <2>1, <2>2 DEF WaitersHaveAProbe
<1>12. CASE ProbeInterrupted
  <2>1. ASSUME NEW w \in Workers PROVE worker'[w].pc # "probe"
    BY <1>4, <1>12, PcEffects DEF ProbeInterrupted
  <2>2. ASSUME NEW q \in Requests PROVE ~Awaiting(q)'
    BY <1>12 DEF ProbeInterrupted, NewRequest, Awaiting
  <2> QED
    BY <2>1, <2>2 DEF WaitersHaveAProbe
<1>13. CASE Tick
  <2>1. ASSUME InFlight PROVE InFlight'
    <3>1. probe.pending \in Ask
      BY <2>1 DEF InFlight, Types, ProbeRecord
    <3>2. Older(probe.pending) \in Ask
      BY <2>1, <3>1, ProbeAssumption DEF InFlight, Older, Ask
    <3>3. probe'.pending = Older(probe.pending)
      BY <1>13 DEF Tick, ProbeAges, Types, ProbeRecord
    <3> QED
      BY <3>2, <3>3, ProbeAssumption DEF InFlight, Ask
  <2> QED
    BY <1>1, <1>3, <1>13, <2>1 DEF Tick
<1>14. CASE UNCHANGED vars
  BY <1>1, <1>3, <1>14 DEF vars, InFlight
<1> QED
  BY <1>5, <1>6, <1>7, <1>8, <1>9, <1>10, <1>11, <1>12, <1>13, <1>14 DEF Next, WorkerNext

-----------------------------------------------------------------------------
(***************************************************************************)
(* The theorems.                                                           *)
(***************************************************************************)
AdmissionInv ==
    /\ Types
    /\ EvidenceInv
    /\ HealthInv
    /\ CheckInv
    /\ WaitersHaveAProbe

(* All of it holds at the start.                                            *)
LEMMA InitEstablishes == ASSUME Init PROVE AdmissionInv
<1>1. probe \in ProbeRecord
  BY DEF Init, ProbeInit, ProbeRecord
<1>2. NewWorker \in Worker
  BY DEF NewWorker, Worker
<1>3. NewRequest \in Request
  BY DEF NewRequest, Request
<1>4. history \in History
  BY DEF Init, History
<1>5. Types
  BY <1>1, <1>2, <1>3, <1>4 DEF Init, Types
<1>6. EvidenceInv
  BY DEF Init, ProbeInit, EvidenceInv, OutageOutlastsFailures
<1>7. HealthInv
  <2>1. NewWorker.observed = 0 /\ NewWorker.health = "unknown"
    BY DEF NewWorker
  <2>2. ASSUME NEW w \in Workers PROVE worker[w] = NewWorker /\ history.lostAfter[w] = 0
    BY DEF Init
  <2>3. ASSUME NEW w \in Workers PROVE HealthOf(w)
    <3>1. worker[w].observed = 0 /\ worker[w].health = "unknown" /\ history.lostAfter[w] = 0
      BY <2>1, <2>2
    <3> QED
      BY <3>1 DEF HealthOf, Healthy
  <2> QED
    BY <2>3 DEF HealthInv
<1>8. CheckInv
  BY DEF Init, CheckInv, CheckOf, NewRequest
<1>9. WaitersHaveAProbe
  BY DEF Init, WaitersHaveAProbe, NewWorker, NewRequest, Awaiting
<1> QED
  BY <1>5, <1>6, <1>7, <1>8, <1>9 DEF AdmissionInv

(* What the checks, the workers and the probe rely on holds in every state. *)
THEOREM AdmissionInvariant == Spec => []AdmissionInv
<1>1. AdmissionInv /\ [Next]_vars => AdmissionInv'
  BY TypesStep, EvidenceStep, HealthStep, CheckStep, WaitStep DEF AdmissionInv
<1> QED
  BY InitEstablishes, <1>1, PTL DEF Spec

(* Good health is earned after the last start and the last failure.         *)
THEOREM HealthAlwaysEarned == Spec => []HealthIsEarned
<1>1. AdmissionInv => HealthIsEarned
  BY DEF AdmissionInv, HealthInv, HealthOf, HealthIsEarned
<1> QED
  BY AdmissionInvariant, <1>1, PTL

(* The public outage ends only after a probe that began after its failures. *)
THEOREM OutageAlwaysOutlastsFailures == Spec => []OutageOutlastsFailures
<1>1. AdmissionInv => OutageOutlastsFailures
  BY DEF AdmissionInv, EvidenceInv
<1> QED
  BY AdmissionInvariant, <1>1, PTL

(* Nobody waits for a probe that is not in flight.                          *)
THEOREM WaitersAlwaysHaveAProbe == Spec => []WaitersHaveAProbe
<1>1. AdmissionInv => WaitersHaveAProbe
  BY DEF AdmissionInv
<1> QED
  BY AdmissionInvariant, <1>1, PTL

(* No watch is sold on a probe that a failure, a restart or time outdated.  *)
THEOREM AdmissionNeverStale == Spec => NoStaleAdmission
<1> DEFINE SoldWell ==
      \A q \in Requests :
         (request[q].pc # "sold" /\ request'[q].pc = "sold") =>
             /\ Complete(probe.latest)
             /\ probe.latest.revision > history.failedAfter
             /\ probe.latest.age <= AdmissionAge
             /\ q \notin history.disturbed
<1>1. ASSUME AdmissionInv, [Next]_vars PROVE SoldWell
  <2> SUFFICES ASSUME NEW q \in Requests, request[q].pc # "sold", request'[q].pc = "sold"
               PROVE  /\ Complete(probe.latest)
                      /\ probe.latest.revision > history.failedAfter
                      /\ probe.latest.age <= AdmissionAge
                      /\ q \notin history.disturbed
    OBVIOUS
  <2>1. request[q] \in Request
    BY <1>1 DEF AdmissionInv, Types
  <2>2. Sell(q) /\ Admissible(q)
    <3>1. ASSUME NEW w \in Workers, WorkerNext(w) PROVE UNCHANGED request
      BY <3>1 DEF WorkerNext, Start, Stop, BeginCycle, TurnFails, CycleThrows, SweepEnds,
                  CycleInterrupted
    <3>2. Fence \/ Tick \/ UNCHANGED vars => UNCHANGED request
      BY DEF Fence, Tick, vars
    <3>3. ProbeAnswers => request'[q].pc = request[q].pc
      <4>1. ProbeAnswers =>
              request' = [p \in Requests |-> [request[p] EXCEPT !.answered = @ \/ Awaiting(p)]]
        BY DEF ProbeAnswers
      <4> QED
        BY <2>1, <4>1 DEF Request
    <3>4. ProbeInterrupted => request'[q] \in {request[q], NewRequest}
      BY DEF ProbeInterrupted
    <3>5. ASSUME NEW p \in Requests, Arrive(p) \/ Resume(p) \/ Sell(p)
          PROVE  Sell(q) /\ Admissible(q)
      <4>1. p = q
        BY <1>1, <3>5 DEF Arrive, Resume, Sell, Goes, Refuse, AdmissionInv, Types
      <4>2. ~Arrive(q)
        BY <1>1 DEF Arrive, AdmissionInv, Types
      <4>3. ~Resume(q)
        BY <1>1, GoesEffect, RefuseEffect DEF Resume, AdmissionInv
      <4>4. Sell(q)
        BY <3>5, <4>1, <4>2, <4>3
      <4> QED
        BY <1>1, <4>4, RefuseEffect DEF Sell, AdmissionInv
    <3> QED
      BY <1>1, <3>1, <3>2, <3>3, <3>4, <3>5 DEF Next, NewRequest
  <2>3. request[q].pc = "checked"
    BY <2>2 DEF Sell
  <2>4. probe.latest.failures = probe.failures /\ probe.latest # None
    BY <2>2 DEF Admissible, Fresh, IsSampleCurrent
  <2>5. probe.latest.revision > history.failedAfter
    BY <1>1, <2>4 DEF AdmissionInv, EvidenceInv, Causal
  <2>6. q \notin history.disturbed
    <3>1. CheckOf(q) /\ \A w \in Workers : worker[w].generation \in Nat
      BY <1>1 DEF AdmissionInv, CheckInv, Types, Worker
    <3> QED
      BY <2>2, <2>3, <3>1 DEF CheckOf, Admissible
  <2> QED
    BY <2>2, <2>5, <2>6 DEF Admissible, Fresh
<1> QED
  BY AdmissionInvariant, <1>1, PTL DEF Spec, NoStaleAdmission
=============================================================================
