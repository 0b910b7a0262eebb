---------------------------- MODULE HealthProbe ----------------------------
(***************************************************************************)
(* The shared capability probe of the Indexer (roundwatch-health-probe.ts):*)
(* one request in flight, whose callers all join it, a cached sample, and  *)
(* the two counters that outdate a sample when a worker meets a provider   *)
(* failure.                                                                *)
(*                                                                         *)
(* Time is kept as the age of what was asked or answered, in ticks.        *)
(*                                                                         *)
(* What a probe finds is a function from the workers to BOOLEAN: whether   *)
(* the Indexer routes that this worker needs have answered.                *)
(***************************************************************************)
EXTENDS Integers

CONSTANTS
    Workers,       \* the poller and the reconciler
    MinInterval,   \* minimumIntervalMs: least age of a sample worth renewing
    MaxAge,        \* bound on the remembered age of a probe
    MaxProbes,     \* bound on the probes that begin
    None           \* no probe, no sample

ASSUME ProbeAssumption ==
    /\ MinInterval \in Nat \ {0}
    /\ MaxAge \in Nat /\ MaxAge > MinInterval
    /\ MaxProbes \in Nat
    /\ None \notin [revision : Nat, epoch : Nat, failures : Nat, age : Nat, limit : Nat]

VARIABLE probe   \* the fields of IndexerHealthProbe

Findings == [Workers -> BOOLEAN]

(* Both capabilities have answered. *)
Complete(sample) == \A w \in Workers : sample.finds[w]

ProbeInit ==
    probe = [revision |-> 0, failures |-> 0, epoch |-> 0, invalidated |-> FALSE,
             pending |-> None, latest |-> None, fenced |-> FALSE]

(* A tick later. *)
Older(ask) ==
    IF ask = None THEN None ELSE [ask EXCEPT !.age = IF @ < MaxAge THEN @ + 1 ELSE @]

ProbeAges == probe' = [probe EXCEPT !.pending = Older(@), !.latest = Older(@)]

(* Mutant: only the epoch, which coalesces failures, outdates a sample. *)
IsSampleCurrentByEpoch(p, sample) == sample.epoch = p.epoch

(* Mutant: a failure never outdates a sample. *)
IsSampleAlwaysCurrent(p, sample) == TRUE

(* isSampleCurrent: no provider failure since its probe began. *)
IsSampleCurrent(p, sample) ==
    /\ sample.epoch = p.epoch
    /\ sample.failures = p.failures

(* Mutant: a current sample does not age. *)
FreshForever(p, sample, limit) == IsSampleCurrent(p, sample)

(* isSampleFreshForAdmission: current, and its probe began recently.         *)
(* The clock is monotone, so that the probe took no longer either.           *)
Fresh(p, sample, limit) ==
    /\ IsSampleCurrent(p, sample)
    /\ sample.age <= limit

(* invalidateForProviderFailure *)
Invalidated(p) ==
    [p EXCEPT !.failures = @ + 1,
              !.invalidated = TRUE,
              !.epoch = IF p.invalidated THEN @ ELSE @ + 1]

-----------------------------------------------------------------------------
(* runIfDue, for a caller that accepts a sample of this age.  A caller joins *)
(* the probe in flight, is served the cached sample, or starts a probe.      *)
InFlight == probe.pending # None

(* A sample that is not complete is renewed sooner: no caller's limit is     *)
(* below MinInterval.                                                        *)
EffectiveAge(limit) == IF Complete(probe.latest) THEN limit ELSE MinInterval

ServedFromCache(limit) ==
    /\ ~InFlight
    /\ probe.latest # None
    /\ IsSampleCurrent(probe, probe.latest)
    /\ probe.latest.age < EffectiveAge(limit)

Started(limit) ==
    [probe EXCEPT !.revision = @ + 1,
                  !.pending = [revision |-> probe.revision + 1, epoch |-> probe.epoch,
                               failures |-> probe.failures, age |-> 0, limit |-> limit]]

RunIfDue(limit) ==
    \/ /\ InFlight \/ ServedFromCache(limit)
       /\ UNCHANGED probe
    \/ /\ ~InFlight /\ ~ServedFromCache(limit)
       /\ probe.revision < MaxProbes
       /\ probe' = Started(limit)

(* What the probe in flight answers now.  A refused or failed request finds *)
(* nothing.                                                                  *)
SampleOf(finds) ==
    [revision |-> probe.pending.revision, epoch |-> probe.pending.epoch,
     failures |-> probe.pending.failures, age |-> probe.pending.age,
     finds |-> finds]

(* Mutant: any complete answer ends the outage. *)
EndsOutageByAnyAnswer(sample, limit) == Complete(sample)

(* The answer shows that the provider has recovered from every failure. *)
EndsOutage(sample, limit) == Complete(sample) /\ Fresh(probe, sample, limit)

Answered(sample) ==
    [probe EXCEPT !.pending = None,
                  !.latest = sample,
                  !.invalidated = @ /\ ~EndsOutage(sample, probe.pending.limit)]
=============================================================================
