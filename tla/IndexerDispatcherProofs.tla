---------------------- MODULE IndexerDispatcherProofs ----------------------
(***************************************************************************)
(* For any requests, rate, burst and concurrency, however late the timers  *)
(* fire and in whatever order requests settle: no stretch of time sees     *)
(* more starts than the bucket allows, and a drain that has resolved is    *)
(* final.                                                                  *)
(***************************************************************************)
EXTENDS IndexerDispatcher, FiniteSetTheorems, SequenceTheorems, TLAPS

Phases == {"new", "queued", "running", "settled", "answered", "interrupted"}

(* Requests that were started at most a ticks ago. *)
Started(a) == {r \in Requests : age[r] <= a}

DispatcherTypeOK ==
    /\ queue \in Seq(Requests)
    /\ phase \in [Requests -> Phases]
    /\ credit \in 0..Capacity
    /\ elapsed \in Nat
    /\ timer \in Nat \cup {NoTimer}
    /\ stopped \in BOOLEAN
    /\ drain \in {"none", "waiting", "resolved"}
    /\ age \in [Requests -> Nat]

SlotsBounded == Cardinality(InFlight(phase)) <= Concurrency

(* Recent starts and what is left in the bucket are covered by a burst and  *)
(* the credit that has accrued since.                                       *)
CreditCovers ==
    \A a \in 0..(MaxAge - 1) :
        Cardinality(Started(a)) * TokenTicks + Refilled <= Capacity + a

(* Nothing waits behind the fence, and a drain stands behind it.            *)
FenceHolds ==
    /\ stopped => queue = <<>> /\ timer = NoTimer
    /\ drain # "none" => stopped
    /\ drain = "resolved" => InFlight(phase) = {}

DispatcherInv == DispatcherTypeOK /\ SlotsBounded /\ CreditCovers /\ FenceHolds

-----------------------------------------------------------------------------
(* The least and the greatest of two or three integers.                     *)
LEMMA LeastOfTwo ==
  ASSUME NEW i \in Int, NEW j \in Int
  PROVE  Min({i, j}) = IF i <= j THEN i ELSE j
BY DEF Min

(* The same of three. *)
LEMMA LeastOfThree ==
  ASSUME NEW i \in Int, NEW j \in Int, NEW k \in Int
  PROVE  /\ Min({i, j, k}) \in {i, j, k}
         /\ Min({i, j, k}) <= i /\ Min({i, j, k}) <= j /\ Min({i, j, k}) <= k
<1>1. \E m \in {i, j, k} : \A y \in {i, j, k} : m <= y
  <2>1. CASE i <= j /\ i <= k
    BY <2>1
  <2>2. CASE j <= i /\ j <= k
    BY <2>2
  <2>3. CASE k <= i /\ k <= j
    BY <2>3
  <2> QED
    BY <2>1, <2>2, <2>3
<1> QED
  BY <1>1 DEF Min

(* The greatest of two integers. *)
LEMMA GreatestOfTwo ==
  ASSUME NEW i \in Int, NEW j \in Int
  PROVE  Max({i, j}) = IF i >= j THEN i ELSE j
BY DEF Max

(* Sets of requests are finite.                                             *)
LEMMA RequestSetsFinite ==
  ASSUME NEW S \in SUBSET Requests
  PROVE  IsFiniteSet(S) /\ Cardinality(S) \in Nat
BY DispatcherAssumption, FS_Subset, FS_CardinalityType

(* The first n requests of a queue are at most n.                           *)
LEMMA FirstOfQueue ==
  ASSUME NEW q \in Seq(Requests), NEW n \in Nat, n <= Len(q)
  PROVE  /\ {q[i] : i \in 1..n} \in SUBSET Requests
         /\ Cardinality({q[i] : i \in 1..n}) <= n
<1> DEFINE start == {q[i] : i \in 1..n}
           f == [i \in 1..n |-> q[i]]
<1>1. start \in SUBSET Requests
  BY ElementOfSeq, LenProperties
<1>2. f \in Surjection(1..n, start)
  BY DEF Surjection
<1>3. IsFiniteSet(1..n) /\ Cardinality(1..n) = n
  BY FS_Interval
<1>4. Cardinality(start) <= Cardinality(1..n)
  BY <1>2, <1>3, FS_Surjection, Zenon
<1> QED
  BY <1>1, <1>3, <1>4

(* At most as many requests more.                                           *)
LEMMA UnionBounded ==
  ASSUME NEW S \in SUBSET Requests, NEW T \in SUBSET Requests, NEW U \in SUBSET Requests,
         S \subseteq T \cup U
  PROVE  Cardinality(S) <= Cardinality(T) + Cardinality(U)
<1>1. /\ IsFiniteSet(T) /\ IsFiniteSet(U) /\ IsFiniteSet(T \cup U) /\ IsFiniteSet(T \cap U)
      /\ Cardinality(T) \in Nat /\ Cardinality(U) \in Nat /\ Cardinality(S) \in Nat
      /\ Cardinality(T \cup U) \in Nat /\ Cardinality(T \cap U) \in Nat
  <2>1. T \cup U \in SUBSET Requests /\ T \cap U \in SUBSET Requests
    OBVIOUS
  <2> QED
    BY <2>1, RequestSetsFinite
<1>2. Cardinality(T \cup U) = Cardinality(T) + Cardinality(U) - Cardinality(T \cap U)
  BY <1>1, FS_Union
<1>3. Cardinality(S) <= Cardinality(T \cup U)
  BY <1>1, FS_Subset
<1> QED
  BY <1>1, <1>2, <1>3

(* Tokens are worth TokenTicks each.                                        *)
LEMMA TokensWorth ==
  ASSUME NEW m \in Nat, NEW n \in Nat, NEW k \in Nat, m <= n + k
  PROVE  m * TokenTicks <= n * TokenTicks + k * TokenTicks
BY DispatcherAssumption

(* What a number of whole tokens takes out of the bucket was in it.         *)
LEMMA TokensAffordable ==
  ASSUME NEW ticks \in Nat, NEW n \in Nat, n <= ticks \div TokenTicks
  PROVE  n * TokenTicks <= ticks
BY DispatcherAssumption

(* A bucket that is refilled later holds at most what accrued in between    *)
(* more.                                                                    *)
LEMMA CreditAccrues ==
  ASSUME NEW cap \in Nat, NEW c \in Nat, NEW e \in Nat, NEW f \in Nat, f <= e + 1
  PROVE  LET before == IF cap <= c + e THEN cap ELSE c + e
             after  == IF cap <= c + f THEN cap ELSE c + f
         IN  after \in 0..cap /\ after <= before + 1
OBVIOUS

(* The bucket holds between nothing and a burst.                            *)
LEMMA RefilledBounds ==
  ASSUME DispatcherTypeOK
  PROVE  /\ Capacity \in Nat
         /\ Refilled \in 0..Capacity
         /\ Refilled = IF Capacity <= credit + elapsed THEN Capacity ELSE credit + elapsed
<1>1. Capacity \in Nat
  BY DispatcherAssumption DEF Capacity
<1> QED
  BY <1>1, LeastOfTwo DEF Refilled, DispatcherTypeOK

-----------------------------------------------------------------------------
(* A pump fills only free slots, pays for every start, and so keeps the     *)
(* whole invariant, from whatever queue and phases it begins with.          *)
LEMMA PumpKeeps ==
  ASSUME DispatcherInv, ~stopped, UNCHANGED <<stopped, drain>>,
         NEW q \in Seq(Requests), NEW ph \in [Requests -> Phases],
         Cardinality(InFlight(ph)) <= Concurrency,
         Pump(q, ph)
  PROVE  DispatcherInv'
<1> USE DispatcherAssumption
<1> DEFINE busy  == Cardinality(InFlight(ph))
           n     == Min({Len(q), Concurrency - busy, Refilled \div TokenTicks})
           start == {q[i] : i \in 1..n}
           left  == Refilled - n * TokenTicks
<1>1. /\ queue' = SubSeq(q, n + 1, Len(q))
      /\ phase' = [r \in Requests |-> IF r \in start THEN "running" ELSE ph[r]]
      /\ age' = [r \in Requests |-> IF r \in start THEN 0 ELSE age[r]]
      /\ credit' = left
      /\ elapsed' = 0
      /\ timer' = IF n < Len(q) /\ busy + n < Concurrency
                  THEN Max({1, TokenTicks - left}) ELSE NoTimer
  BY DEF Pump
<1>2. Capacity \in Nat /\ Refilled \in 0..Capacity
  BY RefilledBounds DEF DispatcherInv
<1>3. busy \in Nat
  BY RequestSetsFinite DEF InFlight
<1>4. Len(q) \in Nat /\ Refilled \div TokenTicks \in Nat
  BY <1>2, LenProperties
<1>5. /\ n \in Nat /\ n <= Len(q) /\ n <= Concurrency - busy /\ n <= Refilled \div TokenTicks
  <2> DEFINE slots  == Concurrency - busy
             tokens == Refilled \div TokenTicks
             m == Min({Len(q), slots, tokens})
  <2>1. Len(q) \in Nat /\ slots \in Nat /\ tokens \in Nat
    BY <1>3, <1>4
  <2>2. Len(q) \in Int /\ slots \in Int /\ tokens \in Int
    BY <2>1
  <2> HIDE DEF slots, tokens
  <2>3. m \in {Len(q), slots, tokens} /\ m <= Len(q) /\ m <= slots /\ m <= tokens
    BY <2>2, LeastOfThree, Zenon
  <2> HIDE DEF m
  <2>4. m \in Nat
    BY <2>1, <2>3
  <2> QED
    BY <2>3, <2>4 DEF m, slots, tokens
<1> HIDE DEF n
<1>6. n * TokenTicks \in Nat /\ n * TokenTicks <= Refilled
  BY <1>2, <1>5, TokensAffordable
<1>7. left \in 0..Capacity
  BY <1>2, <1>6
<1>8. start \in SUBSET Requests /\ Cardinality(start) <= n
  BY <1>5, FirstOfQueue
<1> HIDE DEF start
<1>9. Cardinality(start) \in Nat
  BY <1>8, RequestSetsFinite
<1>10. DispatcherTypeOK'
  <2>1. queue' \in Seq(Requests)
    <3>1. \A i \in n + 1..Len(q) : q[i] \in Requests
      BY <1>5, ElementOfSeq, LenProperties
    <3> QED
      BY <1>1, <1>4, <1>5, <3>1, SubSeqProperties
  <2>2. phase' \in [Requests -> Phases] /\ age' \in [Requests -> Nat]
    BY <1>1 DEF Phases, DispatcherInv, DispatcherTypeOK
  <2>3. timer' \in Nat \cup {NoTimer}
    BY <1>1, <1>7, <1>2, GreatestOfTwo
  <2>4. credit' \in 0..Capacity /\ elapsed' \in Nat
    BY <1>1, <1>7
  <2>5. stopped' \in BOOLEAN /\ drain' \in {"none", "waiting", "resolved"}
    BY DEF DispatcherInv, DispatcherTypeOK
  <2> QED
    BY <2>1, <2>2, <2>3, <2>4, <2>5 DEF DispatcherTypeOK, Capacity
<1>11. SlotsBounded'
  <2>1. InFlight(phase') \subseteq InFlight(ph) \cup start
    BY <1>1 DEF InFlight
  <2>2. Cardinality(InFlight(phase')) <= busy + Cardinality(start)
    BY <2>1, <1>8, UnionBounded DEF InFlight
  <2>3. Cardinality(InFlight(phase')) \in Nat
    BY RequestSetsFinite DEF InFlight
  <2> QED
    BY <2>2, <2>3, <1>3, <1>5, <1>8, <1>9 DEF SlotsBounded
<1>12. CreditCovers'
  <2>1. Refilled' = left
    <3>1. Refilled' = Min({Capacity, credit' + elapsed'})
      BY DEF Refilled, Capacity
    <3>2. credit' + elapsed' = left
      BY <1>1, <1>7, <1>2
    <3>3. Min({Capacity, left}) = left
      BY <1>7, <1>2, LeastOfTwo
    <3> QED
      BY <3>1, <3>2, <3>3
  <2> SUFFICES ASSUME NEW a \in 0..(MaxAge - 1)
               PROVE  Cardinality(Started(a)') * TokenTicks + left <= Capacity + a
    BY <2>1 DEF CreditCovers, Capacity
  <2> DEFINE before == Cardinality(Started(a))
             after  == Cardinality(Started(a)')
  <2>2. Started(a)' \subseteq Started(a) \cup start
    BY <1>1 DEF Started
  <2>3. Started(a) \in SUBSET Requests /\ Started(a)' \in SUBSET Requests
    BY DEF Started
  <2>4. before \in Nat /\ after \in Nat
    BY <2>3, RequestSetsFinite
  <2>5. after <= before + n
    BY <2>2, <2>3, <2>4, <1>5, <1>8, <1>9, UnionBounded
  <2>6. after * TokenTicks <= before * TokenTicks + n * TokenTicks
    BY <2>4, <2>5, <1>5, TokensWorth
  <2>7. before * TokenTicks + Refilled <= Capacity + a
    BY DEF DispatcherInv, CreditCovers
  <2>8. after * TokenTicks \in Nat /\ before * TokenTicks \in Nat
    BY <2>4
  <2> HIDE DEF before, after
  <2>9. after * TokenTicks + left <= Capacity + a
    BY <2>6, <2>7, <2>8, <1>2, <1>6
  <2> QED
    BY <2>9 DEF after
<1>13. FenceHolds'
  BY DEF DispatcherInv, FenceHolds
<1> QED
  BY <1>10, <1>11, <1>12, <1>13 DEF DispatcherInv

(* What is not a start only needs the phases to occupy no new slot.         *)
LEMMA NoStartKeeps ==
  ASSUME DispatcherInv, UNCHANGED <<credit, elapsed, age>>,
         queue' \in Seq(Requests), phase' \in [Requests -> Phases],
         InFlight(phase') \subseteq InFlight(phase),
         timer' \in {timer, NoTimer}, stopped' \in BOOLEAN,
         drain' \in {"none", "waiting", "resolved"},
         FenceHolds'
  PROVE  DispatcherInv'
<1>1. DispatcherTypeOK'
  BY DEF DispatcherInv, DispatcherTypeOK, Capacity
<1>2. SlotsBounded'
  <2>1. InFlight(phase) \in SUBSET Requests
    BY DEF InFlight
  <2>2. Cardinality(InFlight(phase')) <= Cardinality(InFlight(phase))
    BY <2>1, RequestSetsFinite, FS_Subset
  <2>3. Cardinality(InFlight(phase')) \in Nat /\ Cardinality(InFlight(phase)) \in Nat
    BY RequestSetsFinite DEF InFlight
  <2> QED
    BY <2>2, <2>3, DispatcherAssumption DEF DispatcherInv, SlotsBounded
<1>3. CreditCovers'
  BY DEF DispatcherInv, CreditCovers, Started, Refilled, Capacity
<1> QED
  BY <1>1, <1>2, <1>3 DEF DispatcherInv

(* A request is dispatched, or turned away behind the fence.                *)
LEMMA DispatchKeeps ==
  ASSUME DispatcherInv, NEW r \in Requests, Dispatch(r)
  PROVE  DispatcherInv'
<1>1. phase \in [Requests -> Phases] /\ queue \in Seq(Requests) /\ phase[r] = "new"
  BY DEF DispatcherInv, DispatcherTypeOK, Dispatch
<1>2. CASE ~stopped
  <2>1. Append(queue, r) \in Seq(Requests)
    BY <1>1, AppendProperties
  <2>2. [phase EXCEPT ![r] = "queued"] \in [Requests -> Phases]
    BY <1>1 DEF Phases
  <2>3. InFlight([phase EXCEPT ![r] = "queued"]) = InFlight(phase)
    BY <1>1 DEF InFlight
  <2> QED
    BY <1>2, <2>1, <2>2, <2>3, PumpKeeps DEF Dispatch, DispatcherInv, SlotsBounded
<1>3. CASE stopped
  <2>1. phase' = [phase EXCEPT ![r] = "interrupted"]
        /\ UNCHANGED <<queue, credit, elapsed, timer, age, stopped, drain>>
    BY <1>3 DEF Dispatch
  <2>2. phase' \in [Requests -> Phases] /\ InFlight(phase') = InFlight(phase)
    BY <2>1, <1>1 DEF Phases, InFlight
  <2>3. FenceHolds'
    BY <2>1, <2>2 DEF DispatcherInv, FenceHolds
  <2> QED
    BY <2>1, <2>2, <2>3, <1>1, NoStartKeeps DEF DispatcherInv, DispatcherTypeOK
<1> QED
  BY <1>2, <1>3

(* A caller is resumed; its slot is not free yet.                           *)
LEMMA SettleKeeps ==
  ASSUME DispatcherInv, NEW r \in Requests, Settle(r)
  PROVE  DispatcherInv'
<1>1. phase \in [Requests -> Phases] /\ phase[r] = "running"
  BY DEF DispatcherInv, DispatcherTypeOK, Settle
<1>2. phase' \in [Requests -> Phases] /\ InFlight(phase') = InFlight(phase)
  BY <1>1 DEF Settle, Phases, InFlight
<1>3. FenceHolds'
  BY <1>2 DEF DispatcherInv, FenceHolds, Settle
<1> QED
  BY <1>2, <1>3, NoStartKeeps DEF DispatcherInv, DispatcherTypeOK, Settle

(* A slot is given back: to the next waiter, or to the drain.               *)
LEMMA ReleaseKeeps ==
  ASSUME DispatcherInv, NEW r \in Requests, Release(r)
  PROVE  DispatcherInv'
<1> DEFINE ph == [phase EXCEPT ![r] = "answered"]
<1>1. phase \in [Requests -> Phases] /\ queue \in Seq(Requests) /\ phase[r] = "settled"
  BY DEF DispatcherInv, DispatcherTypeOK, Release
<1>2. ph \in [Requests -> Phases] /\ InFlight(ph) \subseteq InFlight(phase)
  BY <1>1 DEF Phases, InFlight
<1>3. CASE ~stopped
  <2>1. Cardinality(InFlight(ph)) <= Cardinality(InFlight(phase))
    BY <1>2, RequestSetsFinite, FS_Subset DEF InFlight
  <2>2. Cardinality(InFlight(ph)) \in Nat /\ Cardinality(InFlight(phase)) \in Nat
    BY RequestSetsFinite DEF InFlight
  <2>3. Cardinality(InFlight(ph)) <= Concurrency
    BY <2>1, <2>2, DispatcherAssumption DEF DispatcherInv, SlotsBounded
  <2> QED
    BY <1>1, <1>2, <1>3, <2>3, PumpKeeps DEF Release
<1>4. CASE stopped
  <2>1. /\ phase' = ph /\ drain' = DrainAfter(drain, queue, ph)
        /\ UNCHANGED <<queue, credit, elapsed, timer, age, stopped>>
    BY <1>4 DEF Release
  <2>2. drain' \in {"none", "waiting", "resolved"}
    BY <2>1 DEF DispatcherInv, DispatcherTypeOK, DrainAfter
  <2>3. FenceHolds'
    BY <2>1, <1>2, <1>4 DEF DispatcherInv, DispatcherTypeOK, FenceHolds, DrainAfter, Idle
  <2> QED
    BY <2>1, <2>2, <2>3, <1>1, <1>2, NoStartKeeps DEF DispatcherInv, DispatcherTypeOK
<1> QED
  BY <1>3, <1>4

(* A wake-up is never due behind the fence.                                 *)
LEMMA WakeUpKeeps == ASSUME DispatcherInv, WakeUp PROVE DispatcherInv'
<1>1. ~stopped
  BY DispatcherAssumption DEF DispatcherInv, FenceHolds, WakeUp
<1> QED
  BY <1>1, PumpKeeps DEF DispatcherInv, DispatcherTypeOK, SlotsBounded, WakeUp

(* A tick ages every start as much as it adds to the bucket.                *)
LEMMA TickKeeps == ASSUME DispatcherInv, Tick PROVE DispatcherInv'
<1> USE DispatcherAssumption
<1>1. Capacity \in Nat /\ Refilled \in 0..Capacity /\ elapsed \in Nat /\ credit \in Nat
      /\ age \in [Requests -> Nat]
  BY RefilledBounds DEF DispatcherInv, DispatcherTypeOK
<1>2. elapsed' \in Nat /\ elapsed' <= elapsed + 1
  BY <1>1, LeastOfTwo DEF Tick
<1>3. age' = [r \in Requests |-> IF MaxAge <= age[r] + 1 THEN MaxAge ELSE age[r] + 1]
  BY <1>1, LeastOfTwo DEF Tick
<1>4. DispatcherTypeOK'
  <2>1. timer' \in Nat \cup {NoTimer}
    BY DEF Tick, DispatcherInv, DispatcherTypeOK
  <2> QED
    <3>1. age' \in [Requests -> Nat]
      BY <1>1, <1>3
    <3>2. /\ UNCHANGED <<queue, phase, credit, stopped, drain>>
          /\ queue \in Seq(Requests) /\ phase \in [Requests -> Phases] /\ credit \in 0..Capacity
          /\ stopped \in BOOLEAN /\ drain \in {"none", "waiting", "resolved"}
      BY DEF Tick, DispatcherInv, DispatcherTypeOK
    <3>3. credit' \in 0..Capacity'
      BY <3>2 DEF Capacity
    <3> QED
      BY <1>2, <2>1, <3>1, <3>2, <3>3 DEF DispatcherTypeOK
<1>5. Refilled' \in 0..Capacity /\ Refilled' <= Refilled + 1
  <2>1. Refilled' = IF Capacity <= credit + elapsed' THEN Capacity ELSE credit + elapsed'
    <3>1. Refilled' = Min({Capacity, credit + elapsed'})
      BY DEF Refilled, Tick, Capacity
    <3>2. credit + elapsed' \in Int
      BY <1>1, <1>2
    <3> QED
      BY <3>1, <3>2, <1>1, LeastOfTwo
  <2>2. Refilled = IF Capacity <= credit + elapsed THEN Capacity ELSE credit + elapsed
    BY RefilledBounds DEF DispatcherInv
  <2> QED
    BY <2>1, <2>2, <1>1, <1>2, CreditAccrues
<1>6. CreditCovers'
  <2> SUFFICES ASSUME NEW a \in 0..(MaxAge - 1)
               PROVE  Cardinality(Started(a)') * TokenTicks + Refilled' <= Capacity + a
    BY DEF CreditCovers, Capacity
  <2>1. CASE a = 0
    <3>1. Started(a)' = {}
      BY <2>1, <1>1, <1>3 DEF Started
    <3>2. Cardinality(Started(a)') = 0
      BY <3>1, FS_EmptySet
    <3>3. Cardinality(Started(a)') * TokenTicks = 0
      BY <3>2
    <3>4. Refilled' <= Capacity + a /\ Refilled' \in Nat
      BY <2>1, <1>1, <1>5
    <3> QED
      BY <3>3, <3>4
  <2>2. CASE a # 0
    <3>1. Started(a)' = Started(a - 1)
      BY <2>2, <1>1, <1>3 DEF Started
    <3>2. Cardinality(Started(a - 1)) * TokenTicks + Refilled <= Capacity + (a - 1)
      BY <2>2 DEF DispatcherInv, CreditCovers
    <3>3. Cardinality(Started(a - 1)) \in Nat
      BY RequestSetsFinite DEF Started
    <3>4. Cardinality(Started(a - 1)) * TokenTicks \in Nat
      BY <3>3
    <3> DEFINE spent == Cardinality(Started(a - 1)) * TokenTicks
    <3>5. Cardinality(Started(a)') * TokenTicks = spent
      BY <3>1
    <3>6. a \in Nat /\ spent \in Nat /\ spent + Refilled <= Capacity + (a - 1)
      BY <3>2, <3>4
    <3> HIDE DEF spent
    <3> QED
      BY <3>5, <3>6, <1>1, <1>5
  <2> QED
    BY <2>1, <2>2
<1>7. SlotsBounded' /\ FenceHolds'
  BY DEF Tick, DispatcherInv, SlotsBounded, FenceHolds, InFlight
<1> QED
  BY <1>4, <1>6, <1>7 DEF DispatcherInv

(* The fence turns away what waits and stops nothing that runs.             *)
LEMMA FenceEffect ==
  ASSUME DispatcherInv, Fence
  PROVE  /\ queue' = <<>> /\ queue' \in Seq(Requests) /\ timer' = NoTimer /\ stopped'
         /\ phase' \in [Requests -> Phases] /\ InFlight(phase') \subseteq InFlight(phase)
         /\ UNCHANGED <<credit, elapsed, age>>
<1>1. phase \in [Requests -> Phases]
  BY DEF DispatcherInv, DispatcherTypeOK
<1>2. phase' = [r \in Requests |-> IF r \in ToSet(queue) THEN "interrupted" ELSE phase[r]]
  BY DEF Fence
<1>3. phase' \in [Requests -> Phases] /\ InFlight(phase') \subseteq InFlight(phase)
  BY <1>1, <1>2 DEF Phases, InFlight
<1> QED
  BY <1>3, EmptySeq DEF Fence

(* stopScheduling() fences and leaves the promise of a drain alone. *)
LEMMA StopKeeps == ASSUME DispatcherInv, StopScheduling PROVE DispatcherInv'
<1>1. Fence /\ drain' = drain /\ ~stopped
  BY DEF StopScheduling
<1>2. drain = "none"
  BY <1>1 DEF DispatcherInv, FenceHolds
<1>3. FenceHolds'
  BY <1>1, <1>2, FenceEffect DEF FenceHolds
<1>4. drain' \in {"none", "waiting", "resolved"}
  BY <1>1, <1>2
<1> QED
  BY <1>1, <1>3, <1>4, FenceEffect, NoStartKeeps

(* drain() fences and resolves at once when nothing is in flight. *)
LEMMA DrainKeeps == ASSUME DispatcherInv, Drain PROVE DispatcherInv'
<1>1. Fence /\ drain' = DrainAfter("waiting", queue', phase')
  BY DEF Drain
<1>2. FenceHolds'
  BY <1>1, FenceEffect DEF FenceHolds, DrainAfter, Idle
<1>3. drain' \in {"none", "waiting", "resolved"}
  BY <1>1 DEF DrainAfter
<1> QED
  BY <1>1, <1>2, <1>3, FenceEffect, NoStartKeeps

(* The dispatcher starts with a full bucket, free slots and no request. *)
LEMMA DispatcherInvInit == DispatcherInit => DispatcherInv
<1> SUFFICES ASSUME DispatcherInit PROVE DispatcherInv
  OBVIOUS
<1> USE DispatcherAssumption DEF DispatcherInit
<1>1. Capacity \in Nat
  BY DEF Capacity
<1>2. DispatcherTypeOK
  <2>1. age \in [Requests -> Nat] /\ phase \in [Requests -> Phases]
    BY DEF Phases
  <2>2. queue \in Seq(Requests)
    BY EmptySeq
  <2>3. credit \in 0..Capacity
    BY <1>1
  <2> QED
    BY <2>1, <2>2, <2>3 DEF DispatcherTypeOK
<1>3. InFlight(phase) = {} /\ \A a \in 0..(MaxAge - 1) : Started(a) = {}
  BY DEF InFlight, Started
<1>4. Refilled = Capacity
  BY <1>1, <1>2, RefilledBounds
<1>5. CreditCovers
  <2> SUFFICES ASSUME NEW a \in 0..(MaxAge - 1)
               PROVE  Cardinality(Started(a)) * TokenTicks + Refilled <= Capacity + a
    BY DEF CreditCovers
  <2>1. Cardinality(Started(a)) = 0
    BY <1>3, FS_EmptySet
  <2>2. Cardinality(Started(a)) * TokenTicks = 0
    BY <2>1
  <2> QED
    BY <2>2, <1>1, <1>4
<1>6. SlotsBounded /\ FenceHolds
  BY <1>3, FS_EmptySet DEF SlotsBounded, FenceHolds
<1> QED
  BY <1>2, <1>5, <1>6 DEF DispatcherInv

(* Every step of the dispatcher keeps its invariant. *)
LEMMA DispatcherInvNext == DispatcherInv /\ [DispatcherNext]_dispatcherVars => DispatcherInv'
<1> SUFFICES ASSUME DispatcherInv, [DispatcherNext]_dispatcherVars PROVE DispatcherInv'
  OBVIOUS
<1>1. CASE UNCHANGED dispatcherVars
  BY <1>1 DEF dispatcherVars, DispatcherInv, DispatcherTypeOK, SlotsBounded, CreditCovers,
              FenceHolds, InFlight, Started, Refilled, Capacity
<1> QED
  BY <1>1, DispatchKeeps, SettleKeeps, ReleaseKeeps, WakeUpKeeps, TickKeeps, StopKeeps,
     DrainKeeps DEF DispatcherNext

(* The invariant holds in every reachable state, in particular no more      *)
(* requests are in flight than the dispatcher has slots.                    *)
THEOREM DispatcherInvariant == DispatcherSpec => []DispatcherInv
BY DispatcherInvInit, DispatcherInvNext, PTL DEF DispatcherSpec

(* No stretch of time sees more starts than a burst and the tokens that     *)
(* accrued in it, whatever rate, burst and concurrency are configured.      *)
THEOREM RateAlwaysBounded == DispatcherSpec => []RateBounded
<1>1. DispatcherInv => RateBounded
  <2> SUFFICES ASSUME DispatcherInv, NEW a \in 0..(MaxAge - 1)
               PROVE  Cardinality(Started(a)) * TokenTicks <= Capacity + a
    BY DEF RateBounded, Started
  <2>1. Cardinality(Started(a)) * TokenTicks + Refilled <= Capacity + a
    BY DEF DispatcherInv, CreditCovers
  <2>2. Cardinality(Started(a)) \in Nat
    BY RequestSetsFinite DEF Started
  <2>3. Cardinality(Started(a)) * TokenTicks \in Nat
    BY <2>2, DispatcherAssumption
  <2> QED
    BY <2>1, <2>3, RefilledBounds, DispatcherAssumption DEF DispatcherInv
<1> QED
  BY <1>1, DispatcherInvariant, PTL

(* Once drain() has resolved nothing is in flight, waits or will wake up.   *)
THEOREM DrainAlwaysFinal == DispatcherSpec => []DrainIsFinal
<1>1. DispatcherInv => DrainIsFinal
  BY DEF DispatcherInv, FenceHolds, DrainIsFinal, Idle
<1> QED
  BY <1>1, DispatcherInvariant, PTL
=============================================================================
