--------------------------- MODULE PaidAdmission ---------------------------
(***************************************************************************)
(* Who may sell a watch, and when: the health that the poller and the      *)
(* reconciler publish (roundwatch-worker-health.ts and the wrappers of     *)
(* their cycles), and the paid handler's readiness check, whose answer     *)
(* crosses an await before it is consumed (roundwatch-paid-readiness.ts).  *)
(*                                                                         *)
(* A worker's cycle is a sweep of turns, then the probe, then what both    *)
(* say of its health.  stop and start may fall between any two of them.    *)
(***************************************************************************)
EXTENDS HealthProbe

CONSTANTS
    Poller,          \* the worker that keeps some failures to one watch
    Requests,        \* paid requests
    IdleInterval,    \* age of a sample that an idle worker accepts
    AdmissionAge,    \* age of a sample that a paid request accepts
    MaxTroubles      \* bound on provider failures, stops and the fence, together

ASSUME AdmissionAssumption ==
    /\ Poller \in Workers
    /\ IdleInterval \in MinInterval..(MaxAge - 1)
    /\ AdmissionAge \in MinInterval..(MaxAge - 1)
    /\ MaxTroubles \in Nat

VARIABLES
    worker,    \* of each worker: its schedule, its cycle and its WorkerHealthTracker
    request,   \* of each request: where its readiness check stands
    history    \* what the outside world saw, for the properties only

vars == <<probe, worker, request, history>>

(* Both have been started, and are in their first cycle. *)
NewWorker ==
    [started |-> TRUE, generation |-> 1, observed |-> 0,
     pc |-> "sweep", cycle |-> 1, systemic |-> FALSE, accepts |-> 0,
     health |-> "unknown"]

NewRequest == [pc |-> "new", generations |-> None, answered |-> FALSE]

Init ==
    /\ ProbeInit
    /\ worker = [w \in Workers |-> NewWorker]
    /\ request = [q \in Requests |-> NewRequest]
    /\ history = [failedAfter |-> 0, recoveredBy |-> 0, stops |-> 0,
                  lostAfter |-> [w \in Workers |-> 0], disturbed |-> {}]

-----------------------------------------------------------------------------
(***************************************************************************)
(* Worker health.                                                          *)
(***************************************************************************)
(* markProbeResult: a healthy worker is allowed one probe that fails, and is *)
(* "doubtful" until the next.  The count of failures decides nothing else.   *)
HealthAfterProbe(health, healthy) ==
    IF healthy THEN "healthy" ELSE IF health = "healthy" THEN "doubtful" ELSE "unhealthy"

Healthy(r) == r.health \in {"healthy", "doubtful"}

(* What a cycle knows ends with it. *)
Abandoned(r) ==
    [r EXCEPT !.pc = "idle", !.cycle = 0, !.systemic = FALSE, !.accepts = 0]

(* markCycleCompleted: a systemic failure shows, whatever the probe says. *)
WithCycleCompleted(r) ==
    [Abandoned(r) EXCEPT !.health = IF r.systemic THEN "unhealthy" ELSE @]

(* snapshot: what others read of a worker's health.  A stalled cycle and    *)
(* evidence that has grown old only ever close readiness: the first is one  *)
(* of the refusals a reading may meet, the second is left out.              *)
WorkerReady(w) == worker[w].started /\ Healthy(worker[w])

Operational(w) ==
    /\ worker[w].started
    /\ worker[w].health # "unhealthy"

-----------------------------------------------------------------------------
(***************************************************************************)
(* A worker's schedule and cycle.                                          *)
(***************************************************************************)
Troubles == probe.failures + history.stops

Begun(r) == [r EXCEPT !.pc = "sweep", !.cycle = r.generation]

(* A cycle begins at once, unless one of an earlier generation still runs. *)
Start(w) ==
    /\ ~worker[w].started /\ ~probe.fenced
    /\ LET r == [worker[w] EXCEPT !.started = TRUE, !.generation = @ + 1,
                                  !.observed = probe.revision, !.health = "unknown"]
       IN  worker' = [worker EXCEPT ![w] = IF r.pc = "idle" THEN Begun(r) ELSE r]
    /\ history' = [history EXCEPT !.lostAfter[w] = probe.revision]
    /\ UNCHANGED <<probe, request>>

Halted(r) ==
    [r EXCEPT !.started = FALSE, !.generation = @ + 1, !.health = "unknown"]

(* Requests whose readiness check has begun. *)
Checking == {q \in Requests : request[q].pc \in {"waiting", "checked"}}

Stop(w) ==
    /\ worker[w].started
    /\ Troubles < MaxTroubles
    /\ worker' = [worker EXCEPT ![w] = Halted(@)]
    /\ history' = [history EXCEPT !.stops = @ + 1, !.disturbed = @ \cup Checking]
    /\ UNCHANGED <<probe, request>>

(* stopScheduling of the probe and both workers, for good. *)
Fence ==
    /\ ~probe.fenced
    /\ Troubles < MaxTroubles
    /\ probe' = [probe EXCEPT !.fenced = TRUE]
    /\ worker' = [w \in Workers |-> Halted(worker[w])]
    /\ history' = [history EXCEPT !.stops = @ + 1, !.disturbed = @ \cup Checking]
    /\ UNCHANGED request

BeginCycle(w) ==
    /\ worker[w].started /\ worker[w].pc = "idle"
    /\ worker' = [worker EXCEPT ![w] = Begun(@)]
    /\ UNCHANGED <<probe, request, history>>

InSweep(w) == worker[w].pc = "sweep" /\ ~probe.fenced

(* stop or start has ended the generation this cycle began in. *)
Outlived(w) == worker[w].cycle # worker[w].generation

(* A provider failure is observed: the record of the outside world. *)
FailureSeen(w) ==
    history' = [history EXCEPT !.failedAfter = probe.revision, !.lostAfter[w] = probe.revision]

(* A turn fails.  The poller does not hold a failure against the provider    *)
(* when it has concluded the watch (isolated), and publishes all but         *)
(* permanent ones.  Nothing is published for an outlived generation.         *)
TurnFails(w) ==
    /\ InSweep(w) /\ ~Outlived(w)
    /\ \E permanent, isolated \in BOOLEAN :
         /\ w # Poller => ~permanent /\ ~isolated
         /\ LET r == [worker[w] EXCEPT !.systemic = @ \/ ~isolated]
            IN  \/ /\ ~permanent
                   /\ Troubles < MaxTroubles
                   /\ probe' = Invalidated(probe)
                   /\ worker' = [worker EXCEPT ![w] =
                                   [r EXCEPT !.observed = probe.revision, !.health = "unhealthy"]]
                   /\ FailureSeen(w)
                \/ /\ permanent
                   /\ worker' = [worker EXCEPT ![w] = r]
                   /\ UNCHANGED <<probe, history>>
    /\ UNCHANGED request

(* The sweep itself throws, as when the store fails. *)
CycleThrows(w) ==
    /\ InSweep(w)
    /\ \/ /\ Outlived(w)
          /\ worker' = [worker EXCEPT ![w] = Abandoned(@)]
          /\ UNCHANGED <<probe, history>>
       \/ /\ ~Outlived(w)
          /\ Troubles < MaxTroubles
          /\ probe' = Invalidated(probe)
          /\ worker' = [worker EXCEPT ![w] =
                          [Abandoned(@) EXCEPT !.health = "unhealthy"]]
          /\ FailureSeen(w)
    /\ UNCHANGED request

(* Mutant: a sample that has been observed before counts again. *)
ObservesAgain(r, good, sample) ==
    /\ IsSampleCurrent(probe, sample)
    /\ good => Fresh(probe, sample, r.accepts)

(* Only a sample that is new to this worker, that no failure has outdated   *)
(* and, if it is good, that is fresh says something of the worker's health. *)
Observes(r, good, sample) ==
    /\ sample.revision > r.observed
    /\ IsSampleCurrent(probe, sample)
    /\ good => Fresh(probe, sample, r.accepts)

(* A cycle that is handed its sample ends in the same turn of the event loop. *)
AfterProbe(r, good, sample) ==
    IF r.cycle # r.generation THEN Abandoned(r)
    ELSE IF Observes(r, good, sample)
         THEN WithCycleCompleted([r EXCEPT !.observed = sample.revision,
                                           !.health = HealthAfterProbe(@, good)])
         ELSE WithCycleCompleted(r)

(* The sweep is over: a clean one goes on to the probe, and accepts an older *)
(* sample if it had no turns.  Turns that do not fail leave nothing else.    *)
SweepEnds(w) ==
    /\ InSweep(w)
    /\ \/ /\ Outlived(w)
          /\ worker' = [worker EXCEPT ![w] = Abandoned(@)]
          /\ UNCHANGED probe
       \/ /\ ~Outlived(w) /\ worker[w].systemic
          /\ worker' = [worker EXCEPT ![w] = WithCycleCompleted(@)]
          /\ UNCHANGED probe
       \/ /\ ~Outlived(w) /\ ~worker[w].systemic
          /\ \E limit \in {MinInterval, IdleInterval} :
               LET r == [worker[w] EXCEPT !.pc = "probe", !.accepts = limit]
               IN  /\ RunIfDue(limit)
                   /\ worker' = [worker EXCEPT ![w] =
                                   IF ServedFromCache(limit)
                                   THEN AfterProbe(r, probe.latest.finds[w], probe.latest) ELSE r]
    /\ UNCHANGED <<request, history>>

(* After the fence a sweep stops at its next turn. *)
CycleInterrupted(w) ==
    /\ probe.fenced /\ worker[w].pc = "sweep"
    /\ worker' = [worker EXCEPT ![w] = Abandoned(@)]
    /\ UNCHANGED <<probe, request, history>>

-----------------------------------------------------------------------------
(***************************************************************************)
(* The readiness check of a paid request, and the probe's end.             *)
(***************************************************************************)
(* readLocalReadiness; storage, disk or a stalled cycle may refuse at any reading. *)
LocallyReady == \A w \in Workers : Operational(w)

Goes(q, pc) == request' = [request EXCEPT ![q] = [@ EXCEPT !.pc = pc, !.answered = FALSE]]

(* A refused request leaves nothing, and may come again. *)
Refuse(q) == request' = [request EXCEPT ![q] = NewRequest]

(* The check begins with a look at local state, then asks for the probe. *)
Arrive(q) ==
    /\ request[q].pc = "new"
    /\ LocallyReady /\ ~probe.fenced
    /\ RunIfDue(AdmissionAge)
    /\ request' = [request EXCEPT ![q] =
                     [pc |-> "waiting", answered |-> ServedFromCache(AdmissionAge),
                      generations |-> [w \in Workers |-> worker[w].generation]]]
    /\ history' = [history EXCEPT !.disturbed = @ \ {q}]
    /\ UNCHANGED worker

(* Mutant: a worker that has been restarted meanwhile is the same worker. *)
AdmissibleAcrossRestart(q) ==
    /\ LocallyReady
    /\ probe.latest # None
    /\ Fresh(probe, probe.latest, AdmissionAge)
    /\ Complete(probe.latest)

(* currentSnapshot: everything is read again, whatever was read before. *)
Admissible(q) ==
    /\ LocallyReady
    /\ \A w \in Workers : request[q].generations[w] = worker[w].generation
    /\ probe.latest # None
    /\ Fresh(probe, probe.latest, AdmissionAge)
    /\ Complete(probe.latest)

(* currentSnapshot reads the probe's latest sample, not the one awaited; its *)
(* answer reaches the handler another await later.                           *)
Resume(q) ==
    /\ request[q].pc = "waiting" /\ request[q].answered
    /\ \/ /\ Admissible(q)
          /\ Goes(q, "checked")
       \/ Refuse(q)
    /\ UNCHANGED <<probe, worker, history>>

(* Mutant: the handler trusts the answer it has waited for. *)
SellOnTheAnswer(q) ==
    /\ request[q].pc = "checked"
    /\ \/ Goes(q, "sold")
       \/ Refuse(q)
    /\ UNCHANGED <<probe, worker, history>>

(* validateCurrent, in one turn with the commitment that follows it. *)
Sell(q) ==
    /\ request[q].pc = "checked"
    /\ \/ /\ Admissible(q)
          /\ Goes(q, "sold")
       \/ Refuse(q)
    /\ UNCHANGED <<probe, worker, history>>

Awaiting(q) == request[q].pc = "waiting" /\ ~request[q].answered

(* The Indexer answers; all who wait are told. *)
ProbeAnswers ==
    /\ InFlight
    /\ \E finds \in Findings :
         LET sample == SampleOf(finds)
         IN  /\ probe' = Answered(sample)
             /\ worker' = [w \in Workers |->
                             IF worker[w].pc = "probe"
                             THEN AfterProbe(worker[w], sample.finds[w], sample) ELSE worker[w]]
             /\ request' = [q \in Requests |->
                              [request[q] EXCEPT !.answered = @ \/ Awaiting(q)]]
             /\ history' = [history EXCEPT !.recoveredBy =
                              IF Complete(sample) THEN sample.revision ELSE @]

(* Mutant: those who have joined an interrupted probe are not told. *)
ProbeInterruptedSilently ==
    /\ probe.fenced /\ InFlight
    /\ probe' = [probe EXCEPT !.pending = None]
    /\ UNCHANGED <<worker, request, history>>

(* The dispatcher's fence rejects the probe, and with it all who wait. *)
ProbeInterrupted ==
    /\ probe.fenced /\ InFlight
    /\ probe' = [probe EXCEPT !.pending = None]
    /\ worker' = [w \in Workers |->
                    IF worker[w].pc = "probe" THEN Abandoned(worker[w]) ELSE worker[w]]
    /\ request' = [q \in Requests |->
                     IF Awaiting(q) THEN NewRequest ELSE request[q]]
    /\ UNCHANGED history

Tick ==
    /\ ProbeAges
    /\ UNCHANGED <<worker, request, history>>

WorkerNext(w) ==
    \/ Start(w) \/ Stop(w) \/ BeginCycle(w)
    \/ TurnFails(w) \/ CycleThrows(w) \/ SweepEnds(w)
    \/ CycleInterrupted(w)

Next ==
    \/ \E w \in Workers : WorkerNext(w)
    \/ \E q \in Requests : Arrive(q) \/ Resume(q) \/ Sell(q)
    \/ ProbeAnswers \/ ProbeInterrupted \/ Fence
    \/ Tick

Spec == Init /\ [][Next]_vars

-----------------------------------------------------------------------------
(***************************************************************************)
(* Properties.                                                             *)
(***************************************************************************)
(* A watch is sold only on a complete, recent probe that began after the    *)
(* last provider failure anyone has met, and only if no worker was stopped  *)
(* or restarted since the check began, however the check's awaits fall.     *)
NoStaleAdmission ==
    [][\A q \in Requests :
         (request[q].pc # "sold" /\ request'[q].pc = "sold") =>
             /\ Complete(probe.latest)
             /\ probe.latest.revision > history.failedAfter
             /\ probe.latest.age <= AdmissionAge
             /\ q \notin history.disturbed]_vars

(* A worker that publishes good health has observed a probe that began      *)
(* after its last start and after the last failure it met itself: neither   *)
(* customer turns nor an old probe in flight can restore it.                *)
HealthIsEarned ==
    \A w \in Workers :
        Healthy(worker[w]) => worker[w].observed > history.lostAfter[w]

(* The public failure epoch stays open until a complete probe that began    *)
(* after every failure: one that was already in flight cannot close it.     *)
OutageOutlastsFailures ==
    (probe.failures > 0 /\ ~probe.invalidated) => history.recoveredBy > history.failedAfter

(* Who waits for the probe, worker or request, waits for one in flight,     *)
(* even when a fence, a restart or a failure crosses the wait.              *)
WaitersHaveAProbe ==
    (\E w \in Workers : worker[w].pc = "probe") \/ (\E q \in Requests : Awaiting(q)) => InFlight

(* The claim of README.md:281: the public readiness signal, which wants good *)
(* health of both workers, must be green before a paid watch is admitted.    *)
ReadyBeforeSale ==
    [][\A q \in Requests :
         (request[q].pc # "sold" /\ request'[q].pc = "sold") =>
             \A w \in Workers : WorkerReady(w)]_vars
=============================================================================
