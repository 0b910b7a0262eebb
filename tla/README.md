# A formal model of RoundWatch

RoundWatch sells *watches*: a buyer pays a small x402 service payment on
Algorand, and the service watches the chain for one exact transfer until a
deadline. This directory holds TLA+ modules of the server (`apps/server`) and
of the buyer's command line (`apps/client`), the TLC instances that check them,
and TLAPS proofs.

## 1. The system

| Part | Source | State | Operations |
|---|---|---|---|
| Watch store | `roundwatch-store.ts` | one SQLite file, durable: watches, refunds | opening (migration, rebuild, budget repair), admission, settlement, work claims, polling results, failures |
| Refund recorder | `record-refund.ts` | none, a second process on the file | schema test, lookup, insert |
| Purchase handler | `app.ts` | requests in flight | gates, validation, readiness, `prepareWatch`, settlement hooks, response guard, recovery, status |
| Reconciler | `roundwatch-reconciler.ts` | sweep, absence-proof sessions | finds settled payments whose callback was lost; proves that a payment can no longer land |
| Poller | `roundwatch-poller.ts` | sweep, scan sessions, page cache | scans rounds for each active watch, fixes the closing round, matches and expires |
| Indexer client | `roundwatch-indexer.ts` | none | lookups, tips, blocks, pages; decides which answers to believe |
| Dispatcher | `roundwatch-scheduler.ts` | queue, token bucket, slots, timer, fence | every Indexer request passes it |
| Health probe, worker health, paid readiness | `roundwatch-health-probe.ts`, `roundwatch-worker-health.ts`, `roundwatch-paid-readiness.ts` | evidence with epochs and ages | decide whether a purchase may start |
| Gates, body reader, acceptance funnel | `free-payment-gate.ts`, `request-body.ts`, `request-telemetry.ts`, `acceptance-funnel.ts` | slots, events of a request | bound the work of strangers; report how each purchase ended |
| Facilitator client | `roundwatch-facilitator.ts` | owned fetches, fence | verifies and settles payments |
| Startup, application lifetime, shutdown | `roundwatch-startup.ts`, `index.ts`, `roundwatch-application-lifetime.ts`, `roundwatch-shutdown-coordinator.ts` | stage, counters, fences, joins, deadline | start and end the process without closing SQLite under anybody |
| Buyer | `mainnet-e2e.ts`, `mainnet-safety.ts`, `roundwatch-spike.ts` | a checkpoint file | start, recover, pay |
| MCP, API documents | `mcp.ts`, `api-docs.ts` | none | other fronts of the same operations |
| Metrics, observatory | `roundwatch-metrics.ts`, `roundwatch-observatory-*.ts` | passive counters | nothing depends on them |

**How they interact.** Purchase handler, reconciler and poller share one
process, one event loop and one table. They interleave only at `await`s. A
store method is synchronous, so it is atomic; what was read from a row before
an `await` may be stale after it. All three ask the Indexer, through the
dispatcher; its replicas know different prefixes of the chain. The facilitator
submits the payment; its answer can be lost while the payment lands. A crash
keeps the committed rows and loses everything else. The refund recorder writes
to the same file at any time. The buyer sees only HTTP answers and its own file.

**What is hard.** Money is spent outside the database, before its callback
runs. Two writers may activate one watch. A purchase can be retried at any
point, by a buyer that has died since. Pages of one query come from replicas
that lag differently. The wall clock and block timestamps disagree about the
deadline. An opening of an old file may die between any two statements.
Completions, timers, disconnects and a shutdown cross in any order.
`PROJECT.json` lists each hazard at its line.

**What makes each part correct.** Store: caps and reservations hold, rows only
progress, every open row has a budget, whatever file was opened. Settlement: no
paid watch is written off, no watch works unpaid, no payment is settled twice,
no answer of the recovery endpoint is withdrawn. Poller: a match names an
eligible transfer, less than a scan window after the first one, and a watch
expires only if there is none. Indexer client:
what it accepts is evidence, what is honest it accepts. Dispatcher: the rate is
bounded and no waiter is forgotten. Service: every slot comes back, every
outcome is true, SQLite outlives everybody who could use it. Buyer: it pays once.

## 2. The modules

```
WatchStore --- StoreCallers --- StoreOpening     (WatchStoreProofs, StoreOpeningProofs)
   |
OutsideWorld --- WatchContract --- Buyer         (WatchContractProofs)
   |                ^
ServerProcess       | implements
   |-- Settlement --\
   |-- Polling -----/ RoundWatch                 (RoundWatchProofs)

ShutdownCoordinator --- ServiceLifetime          (ServiceLifetimeProofs)
HealthProbe --- PaidAdmission                    (PaidAdmissionProofs)
IndexerClient                                    (IndexerClientProofs)
IndexerDispatcher                                (IndexerDispatcherProofs)
```

| Module | Models |
|---|---|
| `WatchStore` | a row and each store method as a function of the table; no variables |
| `StoreCallers` | the table under any caller with any argument, stale copies included |
| `StoreOpening` | the constructor, statement by statement, on new and old files; the refund recorder beside it |
| `OutsideWorld` | the outside world: chain, replicas, landed payments, wall clock (external) |
| `ServerProcess` | the table, crashes, and what every component shares |
| `Settlement` | the purchase from `prepareWatch` to the response, the settlement hooks, the reconciler, what recovery answers |
| `Polling` | the poller |
| `RoundWatch` | all three actors in one process; maps rows to the contract |
| `WatchContract` | what the buyer is promised, with no table, process or Indexer |
| `Buyer` | the buyer's commands over a server that keeps the contract |
| `IndexerClient` | query variants, every kind of request, validation and classification of answers, the capability probe |
| `IndexerDispatcher` | the dispatcher |
| `ShutdownCoordinator` | the shutdown, over owners that may have work |
| `ServiceLifetime` | start, requests, gates, funnel and facilitator calls: what the owners' work really is |
| `HealthProbe` | the shared Indexer probe: one request in flight, a cached sample, the counters that outdate it |
| `PaidAdmission` | the workers' cycles and published health, and the paid check up to its synchronous re-validation |
| `MC*` | constants, symmetry and explored region for TLC |
| `*Proofs` | theorems |

**State.** `db` is the table: a row per identifier, `"absent"` before its
insert. The row's fields are the columns that a guard reads or a property
needs. `schema` and `server` say what the file looks like and which statement
of the opening comes next. In `Settlement`, `req` is a purchase with its program
counter; `rec`/`absence` are the reconciler's sweep and sessions,
`poll`/`scans`/`pages` the poller's sweep, sessions and cache: memory that a
crash clears. `blocks`, `landed`, `submitted` and `now` are the world. In
`ServiceLifetime`, `req` is a request with its place, socket, funnel event,
status and payment; `held` counts the slots of each gate.

**Actions.** An action is the code between two `await`s, with every store call
it makes. An answer of the Indexer is chosen with `\E view \in Views`: some
replica, with some prefix of the chain, or an error. A sweep works on the rows
it copied at its start, as in the code; `claimWorkUnit` then compares the copy
with the row.

**Layers.** `RoundWatch` implements `WatchContract` (`KeepsContract`), and
`Buyer` extends that contract instead of the server, so it relies on nothing
else. `ServiceLifetime` keeps the variables of `ShutdownCoordinator` and says
where their work comes from; each of its steps is one of the coordinator's or
none (`KeepsCoordinator`). `Polling` and `Settlement` use of the Indexer what
`IndexerClient` shows of accepted answers.

**Abstractions.** Each widens or names what the code does:

- Retry deadlines are booleans ("still in the future") that a due action may
  release at any time: the delay's length is not modelled.
- Turns of a sweep run in any order. The code rotates the first.
- The payment's terms (payer, receiver, asset, amount, validity) are a function
  of the signed payment. A payment is *conforming* if the chain's transfer
  equals its terms. `serviceFirstValid` is 0 and there is one network.
- The settlement result always names the payer.
- When `onAfterSettle` throws, the x402 library decides whether the handler's
  response survives. Both are allowed.
- In `Polling` a page of a watch search lists any rounds of the window that no
  earlier page has listed, in any order: the search asks for none
  (`roundwatch-indexer.ts:416-457`), `transactions.find` takes the first hit the
  provider lists (`roundwatch-poller.ts:579-592`) and nothing sorts or compares
  rounds. So a match may be any eligible transfer of a page. A token, which the
  poller only compares, stands for the rounds listed so far. A page of the id
  search is numbered. A provider may repeat a token it has given.
- The page cache may forget a page at any time. All watches share one filter.
- Without a settlement intent (possible off MainNet) a row has no terms: a
  confirmed payment then marks it invalid, and the payer's cap ignores it until
  the payer is recorded. `RequireSettlementIntent` selects the network.
- `StoreOpening`: all openings are configured with one budget. An older file
  holds rows within today's caps. A lock error ends an opening as a stop does.
- `IndexerClient` follows one conversation. A note is a sequence of bytes, an
  amount a positive integer, as the request validation of `app.ts` ensures. Of
  a provider's tokens only those of honest pages are followed; faulty ones
  belong to `Polling`. Answers that do not parse are one kind of error.
- `Buyer`: a `pay` that is repeated before its match pays the invoice again;
  the code has no guard against it, and no property claims one.
- `PaidAdmission`: disk, storage and stalled cycles are refusals that may come
  at any reading, and a healthy worker's evidence does not grow old (both only
  close readiness). Probe time is the age of what was asked or answered, in
  ticks. The turns of a sweep appear as the failures they may have, for
  `Polling` and `Settlement` model them. A refused check in `Settlement` is a
  request that never starts.
- `ServiceLifetime`: a gate may refuse at any time, for the refill of its
  bucket is left out; `getSupported` may be retried any number of times (the
  code stops after three); the bytes of a body are left out, and its reader
  settles in one step, at its deadline at the latest. A purchase whose row the
  reconciler has activated in the meantime is answered 200 although the funnel
  says `activation_pending`, as in the code.
- The dispatcher counts time in ticks and tokens in ticks of credit, which
  keeps the refill exact. Age and elapsed time saturate. A request settles one
  step before its `finally` gives the slot back.
- In the shutdown, `terminate` is a request: owners may go on, as the code's
  comment says. A shutdown that interrupts a worker leaves what a crash leaves.

## 3. The checks

| Run | Question | Bounds |
|---|---|---|
| `Store` | caps, reservations, budgets, outcomes, repair and refund trail, over new and old files | 3 rows, 2 keys, 3 payments of 2 payers, caps 2 and 1, budget 2, 2 openings, 2 recorders |
| `Settlement` | lost answers, late landing, paged absence proof, retries, recovery answers | 2 rows, 2 keys, 2 payments of one payer, 3 id pages, 4 rounds, budget 5, 2 crashes, with and without intent |
| `Polling` | lagging replicas, pages in any order, shared tip, cache, crash | 2 watches with equal or different terms, 4 rounds, window 2, budget 4, deadline between two timestamps, 1 crash |
| `RoundWatch` | purchase to outcome implements the contract, every watch concludes | 1 row, 2 rounds, budget 2, deadline between two timestamps, 1 crash |
| `Buyer` | one payment, from a checkpoint on disk that names a paid watch | 2 watches, keys, payments and requests, 2 overlapping commands, 2 rounds |
| `IndexerClient` | is what is accepted evidence, and what is honest accepted | 4 variants, 4 watches, chains of up to 2 transactions with inner ones, pages of 1, 2 rounds, depth 2 |
| `IndexerDispatcher` | rate, drain; every request settles, every drain resolves | 4 requests, burst 2, 2 slots, ages up to 3 |
| `PaidAdmission` | is every sale made on current evidence, every good health earned, every waiter told | 2 workers, 1 request, 2 probes, 2 failures, stops or fences, ages up to 3 |
| `ServiceLifetime` | slots, outcomes, exit code, no use of a closed store; purchases and shutdown end | 4 owners, 2 requests, 1 slot per gate, 1 fence or drain that throws, any owner may hang |
| `KeyGloballyUnique` | the README's claim about keys | *violated*, see below |
| `ReadyBeforeSale` | the documents' claim about readiness | *violated*, see below |
| `BuyerParallel` | the documents' claim about a second watch | *violated*, see below |

**Why the bounds are enough.** Two rows and two payments are what a conflict
over a payment, a key or a cap needs; three rows let one close and another take
its place under a cap of 2. Four rounds hold an activation, a transfer on each
side of the deadline and a closing round, and a window of 2 puts a window edge
between them. With two rounds, run `RoundWatch` holds a payment and then either
a transfer in time, which matches, or a block past the deadline, after which the
watch expires: each verdict is reached on the paths through callback, reconciler
and crash, and what a longer chain adds is run `Polling`'s question. Three id
pages let a page be answered by a replica that is behind
after another was answered by one that is ahead. A budget of 2 to 5 lets each
proof end, and end too early. One crash can fall between any two steps; the
second lets recovery be interrupted too. Two openings are one that dies and one
that finds what it left. Two buyer's commands overlap as a start and a recovery
do. In `PaidAdmission` requests do not act on each other, so that one is enough;
two probes and two troubles let a failure or a stop fall before, inside and
after a probe whose answer is still to come. One slot makes two requests meet
at every gate.

**Explored regions.** Five instances bound the search with a `CONSTRAINT`
(`Explored` in the MC module, where it is explained): one row, purchase or
request is followed through everything, two or three as far as they can act on
each other. `IndexerClient` meets arbitrary answers on an empty chain, where
what the provider says is all there is.

**Deadlock** is not checked where the bounded world ends (chain, clock, table
and budget are finite) or where the process ends.

**Fairness.** `EveryWatchConcludes` assumes that a worker's next step happens
(interval timers; every Indexer request carries a timeout) and that a retry
deadline passes. Nothing is assumed of buyers, facilitator, chain or clock. The
work budget is what makes it true: each turn is charged. `EveryRequestSettles`
and `DrainResolves` assume that timers fire, callbacks run and requests end by
their timeout. `ShutdownConcludes` assumes the shutdown's own deadline timer,
nothing of the owners. `EveryPurchaseEnds` assumes that a purchase inside the
application takes its next step: the body reader, each call to the facilitator
and the Indexer lookup have a timeout, the rest is synchronous. MCP and recovery
calls read their body without one, so nothing is claimed of them. Behaviours
that leave the explored region are not judged by this run: those have two
requests at once after a fence has failed or an owner has settled, and no step
of a purchase waits for another request (a full gate refuses).

**Findings.** `README.md:158` says an idempotency key "is globally unique in the
service database" (also `docs/SECURITY.md:109`). The code scopes a key to its
payer (`roundwatch-store.ts:532`, and the comment at line 1026). Run
`KeyGloballyUnique` reaches two rows of two payers under one key. The code's own
promise, `NoSharedReservation`, holds and is proved.

`README.md:281` and `docs/OPERATIONS.md:34` say that no watch is sold while
`/ready` is red. The paid check refuses *unhealthy* workers, not *unknown* ones
(`roundwatch-paid-readiness.ts:118-124`), and asks the shared probe itself. Run
`ReadyBeforeSale` sells a watch right after the first good probe, while both
workers are in their first sweep and `/ready` is red. The code's own promise,
`NoStaleAdmission`, holds and is proved.

`docs/SECURITY.md:125` says of the MainNet runner that "it refuses to start a
second paid watch while its checkpoint exists". `start` tests for the file
(`mainnet-e2e.ts:102`), awaits `/ready` and only then writes it, not exclusively
(line 245). Run `BuyerParallel` lets two starts overlap; both pass the test and
each reserves and pays a watch. With one start at a time (run `Buyer`) the buyer
pays once, whatever dies, fails or arrives late, and that is proved.

A remark without a run: `docs/OPERATIONS.md:22` says the probe is "attempted at
most once per 15 seconds"; after a provider failure the cached sample is no
longer current and the next caller probes at once (`roundwatch-health-probe.ts:144`).

Another: if several transfers satisfy a watch, the provider's order decides which
one is reported. `docs/ROUNDWATCH_SPIKE.md:143` cites Algorand's reference for an
oldest-to-newest order, but the code neither requests nor tests it, and no text
promises the buyer the earliest transfer. The model assumes no order, the contract's
`Match` accepts any eligible transfer, and what the windows alone ensure is
`MatchIsInFirstWindow`.

Every property has a mutant of the code that breaks it, kept beside the
original definition under the comment "Mutant".

## 4. The proofs

| Module | Main theorems | Assumptions |
|---|---|---|
| `WatchStoreProofs` | what each store method keeps (lemmas) | `StoreAssumption` |
| `StoreOpeningProofs` | `CapsAlwaysRespected`, `ReservationsUnshared`, `BudgetAlwaysRespected`, `ExpiredAlwaysScanned`, `RowsOnlyProgress`, `TableTypes`; `EveryOpenRowAlwaysPaid`, `RefundsAlwaysLinked`, `RecordsAlwaysStand`, `OpenedTableStaysSound`, `OpenedRowsOnlyProgress` | and `CallersAssumption`, `OpeningAssumption` |
| `RoundWatchProofs` | `ServiceInvariant`, `NeverSettledTwice`, `PaymentsAlwaysReserved`, `PaidWatchesNeverRejected`, `ActivationIsAlwaysPaid`, `SuccessAlwaysDurable`, `RecoveryAnswersStand`, `ExpiryNeverFalse`, `MatchAlwaysInFirstWindow`, `ServiceKeepsContract`; of the runs' halves `SettlementAlone`, `SettlementAnswersStand`, `PollingAlone` | `StoreAssumption`, `LedgerAssumption`, `ProcessAssumption`, `SettlementAssumption`, `PollingAssumption` |
| `WatchContractProofs` | `VerdictsAlwaysStand`, `AlwaysPaidOnceEach`, `ContractTypes`; `BuyerInvariant`, `BuyerStaysInContract`, `BuyerAlwaysPaysOnce`, `PaymentAlwaysCheckpointed`, `CheckpointAlwaysPaid` | `StoreAssumption`, `LedgerAssumption`, `BuyerAssumption` |
| `IndexerClientProofs` | `EvidenceAlwaysMatters`, `RefusalAlwaysConcernsTheWatch`, `HonestPagesAlwaysAccepted`, `NothingDueIsEverLost` | `ClientAssumption` |
| `IndexerDispatcherProofs` | `RateAlwaysBounded`, `DrainAlwaysFinal`, `DispatcherInvariant` | `DispatcherAssumption` |
| `PaidAdmissionProofs` | `AdmissionNeverStale`, `HealthAlwaysEarned`, `OutageAlwaysOutlastsFailures`, `WaitersAlwaysHaveAProbe`, `AdmissionInvariant` | `ProbeAssumption`, `AdmissionAssumption` |
| `ServiceLifetimeProofs` | `StoreAlwaysOutlivesWork`, `CleanExitIsAlwaysTrue`, `ResultStaysFinal`, `ShutdownTypes`; `ServiceAlwaysKeepsCoordinator`, `StoreNeverUsedOnceClosed`, `ServiceExitsCleanly`, `GatesAlwaysHonest`, `OutcomeAlwaysTrue` | `ShutdownAssumption`, `ServiceAssumption` |

They hold for every value of the constants: any number of rows, payers,
payments, rounds, requests, slots, openings, recorders, workers, probes,
commands, crashes, throwing fences, any chain, page limit, scan window, rate,
burst, caps and budget. The assumptions are types, with two exceptions. Slots,
burst and a token's cost are positive. `None`, the model value for "nothing", is
no watch, no progress of a request, no command and no record on disk; that says
something of the model's encoding only.

- **Store.** `TableInv` is inductive. The caps alone are not: a row that gains
  a payer after admission could overfill a payer's count, so the cap is counted
  over rows sold with a verified intent, whose payer never changes, and `RowInv`
  says so. Reservations need that a pending row has no service payment yet.
  `WatchStoreProofs` proves per method that it keeps `TableInv` and lets rows
  only progress (`SoundStep`). Most methods are *quiet*: they take no claim and
  open no obligation, and one lemma settles the counting for all of them.
- **Openings.** `OpeningInv` adds that the audit table joins only a table that
  is rebuilt no more, that a budget belongs to a row, and that whatever a
  recorder is about to insert refers to one: rows are never deleted
  (`RowsStay`), which is what lets a lookup be trusted after its `await`.
- **The service.** `ServiceInv` is proved for the three actors together. Its core
  ties every row to the chain: nothing eligible lies behind the cursor, a closing
  round is past the deadline, a match is eligible and nothing is that lies a
  window before it (`Judged`); an activation is the round in which the row's own
  payment landed, and a rejected row's payment
  can no longer land (`PaidFor`). Each store call an actor makes is shown to be a
  *true step* (`TrueStep`): one row moves, only forward, and what it then says is
  so. The rest is memory: what a purchase, a reconciler's session and a poller's
  session remember from before their last `await` (`RequestInv`, `SessionInv`,
  `ScanInv`, `Copies`, `PageInv`). Their lemmas of the form *...Stay* use of the
  other actors only that rows progress and the chain grows, which is why one
  proof serves every interleaving. A session of an absence proof holds the
  round that every page so far has covered: once the search is past the
  payment's page, the payment has not landed up to that round, and the proof ends
  only if that round is past the payment's last valid one. None of the
  rounds a scan's token stands for is eligible (`NoneAmong`), a page adds to them
  only rounds it lists, the last page lists all that are left (`AnswersTo`, which
  says nothing of their order), and a window never ends beyond a round that a
  replica has reported. The rows a sweep copied
  may be outgrown; `claimWorkUnit` refuses those, and `CopyOutgrown` says what is
  left.
- **The halves.** Runs `Settlement` and `Polling` check one half each, which has
  its own specification. `SettlementAlone`, `SettlementAnswersStand` and
  `PollingAlone` prove the same properties of these from the same lemmas.
- **Refinement.** `ServiceKeepsContract` proves that `RoundWatch` implements
  `WatchContract`. A true step of a row is one step of the contract or none
  (`MovesAreAllowed`). The invariant supplies what the contract demands of it:
  an activation is paid, a match names an eligible round, an expiry has a round
  past the deadline and no eligible one before it (block time being monotone), an
  admission is within the cap,
  for the contract's obligations are the store's open rows.
- **Contract.** An expired watch's verdict is not inductive alone: a new block
  could satisfy it. `ContractInv` adds that block time is monotone, that expiry
  was past the deadline, and that payments are unshared. `GrowthKeepsVerdicts`
  is the heart: appending a block changes no verdict.
- **Buyer.** `BuyerInv` follows an identifier from the answer that carried it to
  the disk. A watch that is held stays held, under its key and with its payment
  (`HeldForGood`), so what a command has once seen stays true while it is dead or
  slow; with that, `CheckpointIsPaid` holds even for overlapping starts. That the
  buyer pays once needs more: the first nonce written is the only one
  (`OneCheckpoint`), which is true if starts do not overlap. `~ParallelStarts` is
  the hypothesis of both theorems about it; without it they are false, as run
  `BuyerParallel` shows. `BuyerStaysInContract` proves that no command leaves the
  contract that the server keeps.
- **Dispatcher.** `RateBounded` speaks of one window and is not inductive. For every
  age `a`, the requests started within `a` ticks and the credit left in the
  bucket together are at most a full bucket and the refill of `a` ticks
  (`CreditCovers`): a tick moves both sides alike, a start pays for itself.
  `DrainIsFinal` follows from the fence: nothing waits behind it (`FenceHolds`).
- **Indexer client.** `QueryMeansPlan` shows that the filters checked are those
  sent. `ClientInv` ties an outcome to the query and the reply it was made
  from, and an honest scan to all that was due before its token (`FoundUpTo`).
- **Admission.** `AdmissionInv` orders evidence and failures: a sample or a probe
  in flight that no failure has outdated began after the last one (`Causal`); a
  probe that was outdated leaves the outage open. A worker's loss never postdates
  both what it has observed and the last failure, and a check that a stop has
  crossed remembers a smaller generation. That `None` is no record is assumed in
  `ProbeAssumption`.
- **Shutdown.** `JoinInv`: while nothing is unproven, every owner is fenced and
  every owner with work still holds the join. Closing needs an empty join, hence
  no work.
- **Application lifetime.** `ServiceInv` says what the record of a request holds at each of
  its stages (`Truthful`), that owners have exactly the work of what is inside
  them (`Tracked`), that nothing is fenced before the stop (`Fences`), and
  counts the slots (`Slots`). A step of a request is *sound* if at most one
  owner moves with it, and into work only unfenced (`Keeps`), and each gate
  counts it (`Counts`); each action is shown sound, one lemma does the rest.
  The theorems about the coordinator then hold of the service by refinement.

**Model-checked only.** Liveness: `EveryWatchConcludes`, `EveryRequestSettles`,
`DrainResolves`, `ShutdownConcludes`, `EveryPurchaseEnds`. They rest on fairness,
which is beyond the prover. Every safety invariant and action property that a
passing run checks is stated by a theorem. The three claims of the documents are
refuted by TLC.

## 5. Not modelled, and the plan

Not modelled: MCP (a stateless front whose tools answer from constants or one
row), static documents and configuration, metrics and observatory snapshots (no
decision reads them), benchmarks, the catalogue scripts of the client and the
log importer (they read and print). Of modelled parts: the store's capacity
snapshot and write probe, the field-by-field validation of a body, the
wording of answers, the token bucket of the payment gate. The request ceiling
of one turn (`roundwatch-work-budget.ts`) is no variable: no turn reaches it.

Next, in this order:

1. What the contract promises, said of the service's own rows: `PaidOnceEach` and
   `VerdictsStand` through `ServiceKeepsContract`.
2. `TableInv` (caps, reservations, budget) as a theorem of `RoundWatch`, which
   `ServiceInv` already contains, and `RowOnlyProgresses` of its table.
3. Shorter proofs where three actors repeat one argument, above all the lemmas
   about claims and failures of the reconciler and the poller.
