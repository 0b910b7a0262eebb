------------------------- MODULE IndexerDispatcher -------------------------
(***************************************************************************)
(* The process-local gate every Indexer request goes through               *)
(* (roundwatch-scheduler.ts): a FIFO queue, a token bucket, a limit of     *)
(* requests in flight, a wake-up timer and a terminal shutdown fence.      *)
(*                                                                         *)
(* Time is kept in ticks of 1 ms and tokens in ticks of credit: a token    *)
(* accrues in TokenTicks = 1000 / requestsPerSecond, so credit is exact.   *)
(* A request that settles resolves its caller one step before its slot is  *)
(* given back (the promise's finally), and either may be overtaken.        *)
(***************************************************************************)
EXTENDS Integers, Sequences, SequencesExt, FiniteSetsExt

CONSTANTS
    Requests,      \* requests, each dispatched at most once
    TokenTicks,    \* ticks in which one token accrues
    Burst,         \* most tokens the bucket holds
    Concurrency,   \* most requests in flight
    MaxAge,        \* bound on the remembered age of a start, in ticks
    NoTimer        \* no wake-up is scheduled

ASSUME DispatcherAssumption ==
    /\ IsFiniteSet(Requests)
    /\ TokenTicks \in Nat \ {0}
    /\ Burst \in Nat \ {0}
    /\ Concurrency \in Nat \ {0}
    /\ MaxAge \in Nat
    /\ NoTimer \notin Nat

VARIABLES
    queue,      \* requests that wait, oldest first
    phase,      \* of each request
    credit,     \* ticks of credit in the bucket at the last refill
    elapsed,    \* ticks since the last refill, as far as they can matter
    timer,      \* ticks until the wake-up is due, or NoTimer
    stopped,    \* schedulingStopped
    drain,      \* "none", "waiting" or "resolved": the promise drain() gave
    age         \* history: ticks since each request was started

dispatcherVars == <<queue, phase, credit, elapsed, timer, stopped, drain, age>>

Capacity == Burst * TokenTicks

InFlight(ph) == {r \in Requests : ph[r] \in {"running", "settled"}}

DispatcherInit ==
    /\ queue = <<>>
    /\ phase = [r \in Requests |-> "new"]
    /\ credit = Capacity
    /\ elapsed = 0
    /\ timer = NoTimer
    /\ stopped = FALSE
    /\ drain = "none"
    /\ age = [r \in Requests |-> MaxAge]

(* Mutant: credit accrues without a cap. *)
RefilledUncapped == credit + elapsed

(* refill: the bucket never holds more than a burst. *)
Refilled == Min({Capacity, credit + elapsed})

(* pump: refill, start as many requests as slots and tokens allow, and when *)
(* only tokens are missing schedule the moment the next one has accrued.    *)
Pump(q, ph) ==
    LET n     == Min({Len(q), Concurrency - Cardinality(InFlight(ph)), Refilled \div TokenTicks})
        start == {q[i] : i \in 1..n}
        left  == Refilled - n * TokenTicks
    IN  /\ queue' = SubSeq(q, n + 1, Len(q))
        /\ phase' = [r \in Requests |-> IF r \in start THEN "running" ELSE ph[r]]
        /\ age' = [r \in Requests |-> IF r \in start THEN 0 ELSE age[r]]
        /\ credit' = left
        /\ elapsed' = 0
        /\ timer' = IF n < Len(q) /\ Cardinality(InFlight(ph)) + n < Concurrency
                    THEN Max({1, TokenTicks - left}) ELSE NoTimer

Dispatch(r) ==
    /\ phase[r] = "new"
    /\ \/ /\ ~stopped
          /\ Pump(Append(queue, r), [phase EXCEPT ![r] = "queued"])
       \/ /\ stopped
          /\ phase' = [phase EXCEPT ![r] = "interrupted"]
          /\ UNCHANGED <<queue, credit, elapsed, timer, age>>
    /\ UNCHANGED <<stopped, drain>>

(* The operation answers, fails or times out; its caller goes on. *)
Settle(r) ==
    /\ phase[r] = "running"
    /\ phase' = [phase EXCEPT ![r] = "settled"]
    /\ UNCHANGED <<queue, credit, elapsed, timer, stopped, drain, age>>

Idle(q, ph) == InFlight(ph) = {} /\ q = <<>>

(* Mutant: requests in flight do not hold the drain back. *)
DrainAfterQueueOnly(promise, q, ph) ==
    IF promise # "none" /\ q = <<>> THEN "resolved" ELSE promise

(* Mutant: the slot is counted before it is given back. *)
DrainAfterCountingItself(promise, q, ph) ==
    IF promise # "none" /\ Idle(q, phase) THEN "resolved" ELSE promise

(* finishDrainIfIdle, once stopScheduling has cleared the timer. *)
DrainAfter(promise, q, ph) ==
    IF promise # "none" /\ Idle(q, ph) THEN "resolved" ELSE promise

(* Mutant: a slot given back wakes nobody. *)
ReleaseSilently(r) ==
    /\ phase[r] = "settled"
    /\ phase' = [phase EXCEPT ![r] = "answered"]
    /\ drain' = IF stopped THEN DrainAfter(drain, queue, phase') ELSE drain
    /\ UNCHANGED <<queue, credit, elapsed, timer, age, stopped>>

(* finally: the slot is free again. *)
Release(r) ==
    /\ phase[r] = "settled"
    /\ LET ph == [phase EXCEPT ![r] = "answered"]
       IN  \/ /\ ~stopped
              /\ Pump(queue, ph)
              /\ UNCHANGED drain
           \/ /\ stopped
              /\ phase' = ph
              /\ drain' = DrainAfter(drain, queue, ph)
              /\ UNCHANGED <<queue, credit, elapsed, timer, age>>
    /\ UNCHANGED stopped

(* Timers may fire late. *)
WakeUp ==
    /\ timer = 0
    /\ Pump(queue, phase)
    /\ UNCHANGED <<stopped, drain>>

Tick ==
    /\ elapsed' = Min({Capacity, elapsed + 1})
    /\ timer' = IF timer \in {NoTimer, 0} THEN timer ELSE timer - 1
    /\ age' = [r \in Requests |-> Min({MaxAge, age[r] + 1})]
    /\ UNCHANGED <<queue, phase, credit, stopped, drain>>

(* stopScheduling: whatever waits is turned away. *)
Fence ==
    /\ stopped' = TRUE
    /\ timer' = NoTimer
    /\ queue' = <<>>
    /\ phase' = [r \in Requests |-> IF r \in ToSet(queue) THEN "interrupted" ELSE phase[r]]
    /\ UNCHANGED <<credit, elapsed, age>>

StopScheduling ==
    /\ ~stopped
    /\ Fence
    /\ UNCHANGED drain

Drain ==
    /\ drain = "none"
    /\ Fence
    /\ drain' = DrainAfter("waiting", queue', phase')

DispatcherNext ==
    \/ \E r \in Requests : Dispatch(r) \/ Settle(r) \/ Release(r)
    \/ WakeUp
    \/ Tick
    \/ StopScheduling
    \/ Drain

DispatcherSpec == DispatcherInit /\ [][DispatcherNext]_dispatcherVars

(* Timers fire, promise callbacks run, and every request carries a timeout. *)
DispatcherFairSpec ==
    /\ DispatcherSpec
    /\ WF_dispatcherVars(Tick)
    /\ WF_dispatcherVars(WakeUp)
    /\ \A r \in Requests : WF_dispatcherVars(Settle(r)) /\ WF_dispatcherVars(Release(r))

-----------------------------------------------------------------------------
(* Whatever the timers and completions do, no stretch of time sees more     *)
(* starts than a burst and the tokens that accrued in it: a late wake-up    *)
(* never causes a catch-up burst.                                           *)
RateBounded ==
    \A a \in 0..(MaxAge - 1) :
        Cardinality({r \in Requests : age[r] <= a}) * TokenTicks <= Capacity + a

(* Once drain() resolved, no Indexer request is or ever will be in flight,  *)
(* so the store its caller writes to may be closed.                         *)
DrainIsFinal ==
    drain = "resolved" =>
        /\ stopped
        /\ Idle(queue, phase)
        /\ timer = NoTimer

(* Every request that is dispatched is answered or turned away.             *)
EveryRequestSettles ==
    \A r \in Requests : phase[r] = "queued" ~> phase[r] \in {"answered", "interrupted"}

(* A drain resolves, however many requests are in flight when it begins.    *)
DrainResolves == drain = "waiting" ~> drain = "resolved"

=============================================================================
