# Verification of the grants-stack indexer

This directory holds TLA+ models of the Giveth grants-stack indexer, the TLC
configurations that check them on small instances, and theorems about them
checked by TLAPS. Paths below are relative to `src/`, and `data-flow/`,
`repository/` and the like stand for `packages/data-flow/src/` and so on.

Contents: 1. the system; 2. the modules and the code they model; 3. the runs;
4. what is proved; 5. where the code and its comments disagree, and known
weaknesses; 6. what is not modelled; 7. the plan.

## 1. The system

`apps/indexer` registers handlers with the Envio framework, which follows the
chains and stores their raw events in a database of its own. `apps/processing`
is a Node service that reads those events through GraphQL, runs a handler for
each, and stores the results (projects, rounds, applications, donations,
payouts, attestations) in PostgreSQL. The service starts one `Orchestrator` per
chain; all of them share one database pool, one metadata provider and one price
provider, each with its caches. A second program,
`retroactiveHandleStrategies.ts`, runs the events of strategies that have become
handleable with the build just deployed. Hasura serves the tables as an API.
Everything exists twice, as the blue and the green deployment: a new build fills
the databases of the colour that is idle and is then promoted.

| Component | State | Operations | Talks to |
|---|---|---|---|
| Orchestrator (`data-flow/orchestrator.ts`) with RetryHandler, DataLoader and the event registry | queue, context of the batch, event in hand, attempts; table `events_registry` | fetch a batch, pop, resolve the strategy id, process, apply, record, report | indexer client, processors, database, notifier |
| RetroactiveProcessor (`data-flow/retroactiveProcessor.ts`) | per strategy id: pointer, queue, checkpoint; tables `strategies_registry`, `strategy_processing_checkpoints` | find strategies, read the pointer, process, checkpoint, mark, clean up | the same, and the tables the live loop writes |
| Queue (`data-flow/utils/queue.ts`) | circular buffer, head, tail, size | push (one or many), pop, peek, grow, shrink | used by the two above |
| Registry, Allo and attestation processors | tables `projects`, `project_roles`, `rounds`, `round_roles`, the two pending tables, `attestations`, `attestation_txns` | one handler per event | chain providers, metadata, repositories |
| Strategy processors (five kinds with handlers) | tables `rounds`, `applications`, `applications_payouts`, `donations`, `strategy_timings` | one handler per kind and event | the same, pricing |
| Pricing (`pricing/`) | table `price_cache`, writes under way | price of a time, prices of a batch of times | Coingecko |
| Metadata (`metadata/`) | cache in memory, table `metadata_cache` | document of a content id | IPFS gateways |
| Processing service (`apps/processing`), database pool | the loops of all chains, connections lent and waited for, abort signal | initialize, start, shut down, release | everything above |
| Deployment (`scripts/`, `.github/workflows/`) | active and deployed colours, images, databases and their migrations, the API | deploy, promote, destroy, migrate, reset, copy caches, bootstrap caches, configure the API | the services that run meanwhile |
| Chain providers, indexer client, notifier, logger | none that outlives a call | remote calls | outside |

What makes it hard:

- **The pointer is not in the transaction.** The changes of an event are stored
  in one transaction, but the write that records the event as processed goes
  through the pool and is visible by itself before the commit. The catch block
  of the loop writes the pointer a second time.
- **Failures everywhere.** Every await can throw; some errors are retried, some
  lead to the event being recorded and left behind, some are logged and some
  reported.
- **Two programs, one set of tables.** The live loop and the retroactive process
  store events of the same strategies.
- **Order of the chain against order of creation.** The contracts emit the roles
  of a profile and of a pool, the funds of a pool and the times of a strategy
  before the event that creates the row these belong to.
- **Reads of the present for events of the past.** The handler of `PoolCreated`
  asks the chain as it is now for the times of a strategy.
- **Reads outside of transactions.** Handlers read tables, await documents and
  prices, and return changesets that write back what was read.
- **One pool for all.** A chain in a transaction waits for a second connection.
- **Caches.** Prices cached for one event are used for another; documents no
  gateway had are cached as missing; caches are copied from one deployment to
  the next while both run.
- **A runbook.** Databases are dropped, copied and filled by hand, next to
  services that restart by themselves.

What makes each component correct:

- Orchestrator: an event is stored at most once and in order; nothing is lost in
  silence; the loop does not stand still; a signal ends it.
- RetroactiveProcessor: a strategy is marked as handled only when its past events
  have been run; a resumed run leaves nothing out and repeats as little as
  possible; every run ends.
- Queue: first in, first out.
- Registry and roles: the tables end up as the contracts have it, a profile is
  found by its anchor, and the loss of an event damages only what depends on it.
- Rounds: times, funds, match amount, payouts and applications follow the
  contract for every kind of strategy; the statistics agree with the rows they
  summarise.
- Pricing: a price is close to its event; the search finds what its reference
  finds.
- Metadata: a document counts as missing only after all tries of one lookup, or
  when a gateway says so.
- Service: no connection leaks, chains never wait for each other for ever, the
  pool is destroyed when nothing that is waited for uses it, a shutdown ends, and
  no chain stops before it.
- Deployment: no deployment leaves events out of a database, caches are copied
  whole, the API serves all tables and relations, and the services catch up.

## 2. The modules

| Module | Models | Used by |
|---|---|---|
| `EventLedger` | what the processing of a chain promises its tables (abstract) | refinement of `Orchestrator` |
| `Orchestrator` | the loop of one chain | `MCOrchestrator`, `OrchestratorProofs` |
| `Retroactive` | the retroactive process of one chain beside a live loop | `MCRetroactive`, `RetroactiveProofs` |
| `Fifo` | a queue (abstract) | refinement of `Queue` |
| `Queue` | the circular buffer | `MCQueue`, `OrchestratorProofs` |
| `Roles` | roles of profiles and pools | `Registry`, `MCRegistry`, `RegistryProofs` |
| `Registry` | `Roles` with names, anchors, documents, registrations and attestations | `MCRegistry`, `RegistryProofs` |
| `Rounds` | applications and donations under two processes | `MCRounds`, `RoundsProofs` |
| `Pools` | the round of a pool of any kind, event after event | `MCPools`, `PoolsProofs` |
| `Pricing` | the price cache over Coingecko | `MCPricing`, `PricingProofs` |
| `Service` | the process: its chains, its pool, its metadata caches, its end | `MCService`, `ServiceProofs` |
| `Hasura` | the configuration of the API | `Deploy`, `DeployProofs` |
| `Deploy` | deployments, databases, scripts and the services that run meanwhile | `MCDeploy`, `DeployProofs` |

`Orchestrator`, `Service` and `Deploy` look at the same loop from three
distances: one chain and every await; several chains and every connection;
two deployments and every table. `Registry` composes `Roles` with the rest of
a profile; `Deploy` composes `Hasura` with the databases it reads.

The `MC` modules only define small constants. Operators named `Mutant...` stand
before the operator they damage and occur in no behaviour; each is a plausible
mistake in the code, and `PROJECT.json` says which property notices it.

### Orchestrator

An event is its position in `Log`, the events of the chain ordered by block and
log index; 0 is the pointer of a chain without a row. Handlers are abstracted to
the error they throw or the commit of their changes.

| Code | Action |
|---|---|
| `while (!signal.aborted)`, `getNextEventsBatch`, prefetch of the batch | `FetchBatch`, `FetchFails` |
| `eventsQueue.pop`, `delay` | `PopEvent`, `NothingToPop`, `WakeUp` |
| `RetryHandler.execute`, its look at the signal, `ExponentialBackoff` | `AttemptAborted`, `Throw`, `BackoffElapsed` |
| `handleEvent`: resolve and save the strategy id, processor | `HandleEvent`, `ResolveFails`, `ProcessFails` |
| `DataLoader.applyChanges` in `runInTransaction` | `RunChangesets`, `SavePointer`, `Commit`, `TransactionFails`, `CommitUnacknowledged` |
| catch block of `run` | `SaveFailedEvent`, `SaveFailedEventFails`, `Report` |
| signals, kill, start | `Abort`, `Stop`, `Crash`, `Restart` |

`pc` names the await the loop is at, so that a kill or a signal can arrive at
each of them. `SavePointer` changes `pointer` before `Commit`, as the write does
not use the transaction. `TransactionFails` leaves the pointer where the write
put it; `CommitUnacknowledged` is a commit the client hears nothing of.
`Refusal` contains the reasons a handler refuses for that depend on other events:
an event the build does not know and an event of a strategy whose round is not
stored. `alerts` and `interrupted` are history: what was reported, and what was
in hand when the process went down.

`EventLedger` has two steps: the next event is stored, or passed. `Orchestrator`
implements it with `delivered <- applied` and a `cursor` that is the pointer,
save between the write of the pointer and the commit, when the event in hand
does not count as passed yet.

### Retroactive

The live loop is taken as the ledger that `Orchestrator` implements: one event
per step, stored or passed. The old build (`live = "old"`) has handlers for
`OldIds`, the new one for all. `StopOld` and `StartNew` are the deployment. The
process finds the contracts flagged as unhandled (`FindStrategies`), reads the
pointer of the live loop (`ReadPointer`), and works on all strategy ids side by
side; `pc`, `current` and `queue` are per id, as each has a call of
`processRetroactiveStrategy` of its own. `Begin` to `DeleteCheckpoint` are the
steps of one call, with their failures, and `Crash` can come anywhere.
`Overlap` says whether the live loop runs next to the process.

### Queue

Every method of the class. `push` of many and of one are `Push`; `pop` is three
actions, for an empty buffer, a plain pop, and one that shrinks. `returned` is
the result of the last call. The threshold 16384 for shrinking is a parameter.

### Roles and Registry

The contracts are the environment: `CreateProfile`, `CreatePool`, `GrantRole`,
`RevokeRole`, `ChangeOwner` append the events they emit to `feed`, in the order
of the contracts (the role of the administrator and the other roles first, in
any order, the creation last). `HandleEvent` is a handler together with its
transaction; `Succeeds` are the errors handlers throw and the primary and
foreign keys that refuse the transaction (`EventRefused`); `EventLost` is any
other reason for an event to be given up. `project_roles` and `round_roles` are
one set, told apart by the kind of a role; the two pending tables are a number
of rows per role, as they have no key that forbids a second one. That the owner role
of a pool is passed over is left out, as it is no profile's.

`Registry` adds what else a profile has. A change of name gives it another
anchor, so an anchor is the profile with the number of its name.

| Code | Operator or action |
|---|---|
| `ProfileCreated`: metadata, type and tag of the document | `NewRow`, `Described`, `TypeOf` |
| `ProfileNameUpdated` | `ProfileNameUpdated`, `Renamed` |
| `ProfileMetadataUpdated`; without a document of the known form, null and the type canonical | `ProfileMetadataUpdated`, `Usable` |
| `getProjectByAnchorOrThrow` in every `Registered` handler | `ByAnchor`, `Registered` |
| `OnAttested`, `insertAttestation` | `OnAttested`, `InsertAttestation`, `Listed` |

Facts of the code a reader may not expect, as modelled: the type and the program
tag come from the first document only; `ProfileCreated` stores the parsed
document and `ProfileMetadataUpdated` the raw one; an update of a row that is
missing changes nothing and throws nothing; an attestation whose document lists
a transaction twice is refused with all its rows.

### Rounds

One round per chain. The contract emits the events; `reader` says whether the
next event is before or after the deployment of the build that can handle it,
and so whether the retroactive process or the live loop gets it. `Read` is the
handler up to its last await, `Commit` its transaction: what was read is kept in
`hand` and written back as the changesets do, all columns for `updated`, the
status columns for `reviewed`, increments and counts for `allocated`. A commit is
one step: two transactions of two processes whose statements interleave are
left out. Events carry their position on the chain (block and log index), which
the id of a donation is made of (`allocated.ts:7`); `Later` picks the next one.

### Pools

One pool of one chain, of the kind DVMD, ERF, DGLite, DGSimple or
DirectAllocation. Actions of the contract (`Create` to `Allocates`) append
events to `feed`; `Handle` runs the handler of the event at its head and folds
the changesets it returns into the tables (`ApplyChanges`) with `Applied`, the
data loader's dispatch, so that each handler operator returns what the source's
handler returns.

| Code | Operator |
|---|---|
| `PoolCreatedHandler`, `PoolFundedHandler`, `PoolMetadataUpdatedHandler` | `PoolCreated`, `PoolFunded`, `PoolMetadataUpdated` |
| `fetchStrategyTimings`, `fetchMatchAmount` of a kind | `DVMDTimings`, `ERFTimings`, `DGLiteTimings`, `BaseTimings`, `DVMDMatch`, `ERFMatch`, `BaseMatch` |
| `handle` of a kind, the `switch` of its events | `DVMDHandle`, `ERFHandle`, `DGLiteHandle`, `DGSimpleHandle`, `DirectAllocationHandle` |
| a handler of an event, by kind where it has its own | `DVMDRegistered` ... `DirectAllocated` |
| the handlers in `strategy/common` | `BaseRecipientStatusUpdated`, `BaseDistributionUpdated`, `BaseFundsDistributed`, `BaseDistributed` |
| `DataLoader` and the handlers of changesets | `RoundChange`, `ApplicationChange`, `PayoutChange`, `DonationChange` |
| an attempt that fails after it stored the times; an event given up | `Fail`, `GiveUp` |
| `strategyTimings.script.ts` on the table | `Bootstrap` |
| a strategy without a handler, then with one | `Skip`, `NewBuild` |

`ReadHalf` lies between the first and the other calls of the four times on a
chain without multicall. `damaged` are the columns that an event was lost of;
properties speak of the others. Conversions of amounts and addresses are left
out: an amount is a small number.

### Pricing

One token, several loops. A price is known by the time it was quoted at, its
`origin`; a row of the cache has the time it is stored under. `Hit`, `Miss`,
`Fetched` are `getTokenPrice`, `BulkHit`, `BulkMiss`, `BulkFetched` are
`getTokenPrices`; the pairs are separate as another loop can run during the call
to the source. Writes are not awaited: they stay in `writes` until `Land`, or
for good when they fail. `FindClosest` is the binary search with its early
exits, over sorted rows. `Floor` is what its last comment says of it, `Distance`
what the comments above it and above `getTokenPrices` do. Ranges longer than 90
days, which are cut into segments, and the mapping of HTTP errors are left out.

### Service

A client of the pool is a pair of a chain and a role: `tx`, the connection of its
transaction; `query`, a single query of the loop; a document or `price`, the
query of its lookup; or one of `Writes`, a write to the price cache that nobody
awaits. `Serve(freed, asked)` is the pool: clients give connections or their
place in the queue back, others ask, and as many get one as there are.

| Code | Action |
|---|---|
| `validationSchema`, `MetadataProviderFactory`, `SharedDependenciesService.initialize` | `Misconfigured`, `LoadStrategies`, `StrategiesLoaded`, `LoadFails` |
| `ProcessingService.start`, signal handlers, `Promise.allSettled`, `releaseResources` | `Start`, `Signal`, `AllSettled`, `ReleaseResources`, `Exit` |
| `CachingMetadataProvider` twice, `KyselyMetadataCache`, `InMemoryMetadataCache` | `StartLookups`, `GetRow`, `GetFails`, `SetRow`, `SetFails`, `Reply` |
| `PublicGatewayProvider.getMetadata`, `retryAsync`; a body that is JSON `null` is content | `FromGateways`, `Try`, `GivesUp` |
| `getTokenPrice`, `getTokenPrices`: the rows, the source, the writes to the cache | `GetPrices`, `GetFails`, `PricesFetched`, `WriteEnds` |
| `bulkFetchMetadataAndPricesForBatch` | `Prefetch`, `Enqueue` |
| a handler: its lookups, its queries, its retries | `Handle`, `Ask`, `Retry` |
| `run`, as far as it uses connections | the other `LoopStep`s |
| `runInTransaction`, `InsertProcessedEvent` through the pool, rollback | `Begin`, `Begun`, `Write`, `SavePointer`, `Commit`, `AttemptFails`, `Rollback` |
| catch block: pointer saved, or `run` rejects | `Caught`, `CatchFails` |

A query that waits longer than the connection timeout fails like one whose
connection breaks: `Fails` holds for whoever has or waits for a connection. The
queue of the pool is first come, first served; the model allows any order. A
write to the price cache is started by a lookup, which does not wait for it
(`PricesFetched`), and lands, fails or times out by itself (`WriteEnds`): it can
outlive its loop, hold a connection when the pool is destroyed, or be refused
one. A handler makes its queries one after the other, and one (`Ask`) stands for
them. `failed`, the tries a lookup itself has seen fail, and `earned`, the
documents a lookup found to be null or gave up after all tries, are history; the
count the code keeps is `tries`.

### Hasura and Deploy

`Hasura` is the list of steps the script sends, made from the tables and the
foreign keys of the migrations, and what the server refuses: a step about a
table that is not there or a name that is taken. `Deploy` has, per colour, the
databases with their migrations, the processing and the cache tables, the API,
and the service. Tables of the cache are sequences of rows in the order a scan
returns them, since the copy reads them by `LIMIT` and `OFFSET`; the last batch
of a table is what is left of it (`Page`). PostgreSQL promises no order: a scan
goes through the table as it is stored, and a row that is inserted or updated
goes where there is room, in front of others or between them (`Written`). The
rows nothing writes to keep their order: that a scan begins at the first page, and
not where another scan of a large table happens to be, is assumed. `touched` is
history: whether a write has moved rows of the table a copy has counted and not
yet finished.

A handler's changes are in an open transaction (`commit`) after its pointer has
been written through the pool; `Commit`, `CommitFails` or the end of the process
(`End`, by a crash, a deployment or the dead loop) comes next, and the last of
these leaves the event in `lost`, as in finding 1.

| Code | Operator or action |
|---|---|
| the workflows for deployment, promotion and destruction; terraform | `DeployToAws`, `DeployBlueGreen`, `PromoteBlueGreen`, `DestroyBlueGreen`, `Apply` |
| `db:create-databases`, `db:migrate` and `db:reset` with their folders | `CreateDatabases`, `Migrate`, `Reset`, `Dropped` |
| `bootstrap:metadata`, `:pricing`, `:strategyTimings` | `BootstrapMetadata`, `Fill`, `BootstrapTimings`, `StoreTimings` |
| `db:copy-cache`: truncate, count, fetch and insert by batches | `CopyCache`, `Truncate`, `Count`, `Fetch`, `Insert`, `CopyDone` |
| `api:configure` | `Configure`, `AcceptedOver` |
| the service: start, batch, handlers as far as they use the caches | `Boot`, `ReadPointer`, `Prefetch`, `TimesRead`, `PoolLooked`, `PoolTimes`, `Handle`, `Commit`, `CommitFails`, `Settle` |
| the operator | `FollowRunbook`, `ExtraCommand`, `CutScript`, each deviation a `Slip` |

`Runbook` is the procedure of `.github/production_operations.md`. A slip is a
command skipped, one more at the wrong time, one that fails part way, a script
interrupted, a commit that fails, or a crash of a service. Each service has the
loop of one of its chains; its other chains are in `Settle`, which may never
come: a loop that died in its catch block ends its process only when all others
have ended too. Tables that are created anew while the
service held a later event (`late`) and timings stored by a checkout without the
handler (`blind`) are history that the properties name as exceptions.

## 3. The runs

| Run | Checks | Shows |
|---|---|---|
| `orchestrator` | `TypeOK`, `AppliedInOrder`, `LossIsReported`, `PointerAdvancesByOne`, `KeepsLedger`, `EveryEventPassed` | no event is stored twice or out of order; the pointer moves by one; an event that is neither stored nor reported was in hand when the process went down; no failure holds the chain up |
| `orchestrator_crash` | `ResumesAfterLastProcessed` is violated | finding 1 |
| `retroactive` | `RepeatedOnlyIfExposed`, `CheckpointCoversPrefix`, `HandledCaughtUp`, `RunEnds` | runs that are killed or fail anywhere are resumed without a gap, repeat only what had no checkpoint, and end |
| `retroactive_crash` | `ExactlyOnce` is violated | finding 3 |
| `queue` | `WindowHolds`, `ImplementsFifo` | the buffer is a queue while it wraps, grows and shrinks, and holds on to nothing it gave out |
| `roles` | `PoolRolesFollow`, `ProfileRolesSound`, `PendingIsAwaited`, `DocumentFollows`, `AnchorFindsProfile`, `AttestationsWhole` | pending roles are converted completely and never left behind; names and documents follow the contracts; a registration finds its profile; a loss damages only its own profile or pool; attestations are whole |
| `rounds` | `StatsMatchDonations`, `DistributedMatchesApplications`, `StatusFollowsContract` | statistics agree with rows, whatever is given up; undamaged applications follow the contract, snapshots included |
| `pools` | `TypeOK`, `TimingsFollowContract`, `FundsCountedOnce`, `MatchFollowsMetadata`, `TotalsMatchRows`, `ApplicationsFollowRecipients`, `FinalFollowsContract` | for every kind of strategy, once its events are handled a round has the contract's times, funds, match amount, payouts, applications and final distribution, save columns an event was lost of |
| `pools_ignored` | `IgnoredIsSafe` is violated | finding 2 |
| `pricing` | `PriceIsNear`, `SearchFindsFloor` | prices stay within fixed distances of their events; the search agrees with its reference on every table that can come about |
| `service` | `ConnectionsAccounted`, `NoCircularWait`, `PoolEndsIdle`, `NullIsEarned`, `ShutdownCompletes` | no connection leaks; chains do not wait for each other; the pool is destroyed when only writes to the price cache may still want it; null is kept only after all tries of one lookup, or from a gateway; a shutdown ends |
| `deploy` | `AppliedFromStart`, `CopyFollowsSource`, `ApiComplete`, `TimesFromContract`, `CatchesUp` | in a first deployment and an upgrade with one slip: no event is left out of a database but one that was being stored when its process ended; the copied cache holds the rows that were counted, as long as no write moves them; the API is whole; times are those of the contract; the services catch up, but for a loop that met a reset in its catch block |

### Bounds

- `orchestrator`: five events, two pools of which one has a handler, batches of
  two, two attempts, one restart. The log has an event of each kind that is
  treated differently; a block is cut by the end of a batch, so that the
  filter for timestamps meets both a batch with the creation of the pool and
  one without; a restart can come after every await; two attempts give one
  retry, after which an error is final.
- `retroactive`: six events, two contracts of one strategy id and one of another,
  batches of two, two runs. The contracts take turns in the log, so a checkpoint
  shared by them stands between their events; the second run starts from what
  the first left behind. The live loop stands still while the process works
  (`Overlap = FALSE`).
- `queue`: three slots, pushes of up to five, at most seven items: the buffer
  wraps, is exactly full, doubles, grows by the factor 1.5 and halves.
- `roles`: two accounts, two profiles, one pool, one further role at a creation,
  four calls of the contracts, one lost event, one attestation, documents with
  and without a usable form: enough to create, grant before and after, revoke,
  rename, register, and change the owner, with the loss anywhere.
- `rounds`: one chain, two applications, two donors, five events, one lost. Two
  applications share a bitmap row; five events are registrations of both, a
  donation or a share and two reviews.
- `pools`: all five kinds, two recipients and two donors, three events after the
  creation, one failed attempt, one event given up: a registration, its change or
  review, and a payment or distribution; or two changes of times around the
  creation, with the failed attempt between them.
- `pricing`: a clock of five hours of which one has no price, two loops, three
  calls, batches of two times. The window is two hours, so rows inside and
  outside of it exist; three calls fill the cache, use it and have a late write
  land in between. Proportions and not values matter: the granularity is one
  hour, the window 5 hours in the code (`PROXIMITY_FACTOR`).
- `service`: two chains, three connections, one document, two gateways, two
  tries, one write to the price cache under way per chain, two events per chain,
  one restart. Both chains can be in a transaction
  with one connection left, the least number for which `NoCircularWait` speaks;
  both look the same document up, so their writes cross; two gateways give an
  answer, an unusable one, null and none; one write per chain is enough to be
  left over when its loop ends and the pool is destroyed. The theorems of section
  4 are about any numbers.
- `deploy`: two events, one slip, one place at which the connection to Hasura may
  fail. The batches have one row where those of the code have 5000 and 1000, so
  that tables of two rows have a row written between two reads at every offset; the
  theorem is about batches of any size. The runbook is that of a first deployment
  and an upgrade; the theorems are about any.
- `orchestrator_crash`, `retroactive_crash`, `pools_ignored`: the bounds of the runs
  they belong to, or smaller ones, as one counterexample is all they are for.

Deadlock is not checked where a bound, the end of the log or the exit of the
process really ends the behaviour; `queue` has none and checks it. `Symmetry` is
used only in runs without liveness.

### Fairness

`Orchestrator`: weak fairness of `Step`, the disjunction of everything the
running program does by itself, and strong fairness of `FetchBatch`. Node runs
every continuation that is ready, and every await ends: calls have time limits
or fail with the connection. Nothing is said about which of success and failure
comes. The exception is the fetch of a batch, which the loop repeats for ever
when it fails: that an indexer asked for ever answers once is assumed, as
otherwise there is nothing to process. No fairness is assumed for the indexer
publishing events, for signals, kills or restarts. `Retroactive`: the same for
each strategy, as its calls run side by side, for `ReadPointer` and for `Finish`;
`FetchFails` leads back to the fetch without a limit, hence the strong fairness
of `Fetch`.

`Service`: weak fairness of every loop, of every lookup (`LookupStep`,
`PriceStep`), of every write to the price cache (`WriteEnds`), of
`ReleaseResources` and of `Exit`. Queries fail after the timeout of the pool, so
no client waits for ever for the loop of another; success is never assumed.
`Deploy`: weak fairness of the services only, as ECS keeps one task running; the
operator may stop at any time, and `CatchesUp` speaks of a colour that stays as it
is. `Settle` is not fair: the loops of the other chains of a process need not end.

## 4. What is proved

`OrchestratorProofs`, for every log, set of pools, batch size, number of attempts
and restarts (assumptions: the log is a sequence of events in the order of their
blocks; limits are numbers, the batch size not 0):

- `TypeCorrect`: `[]TypeOK`.
- `AtMostOnceInOrder`: `[](AppliedInOrder /\ AppliedBehindPointer)`.
- `PointerAdvances`: `PointerAdvancesByOne`.
- `LossReported`: `[]LossIsReported`.
- `ImplementsLedger`: `Spec => KeepsLedger`, the refinement of `EventLedger`.

None of these is inductive. `AppliedInOrder` says nothing about the event that
is committed next. `IInv` adds: where the event in hand stands relative to the
pointer at each await (`EventInHand`: one ahead until `SavePointer`, equal to it
in `commit` and `report`, either in the catch block, as that block is reached
from both sides of the write); that the queue holds the events after it without
a gap (`QueueFollows`); that what is stored is behind the cursor
(`AppliedBehindCursor`), so that the append in `Commit` keeps the order; and
that an error is in flight only in the catch block and an "unsupported" one is
about the event in hand (`RefusalRemembered`), so that what is not reported had
nothing to store. Each part has a lemma with one step per action.
`LossReported` then looks only at the steps that move the pointer or forget the
event in hand. `ImplementsLedger` maps `Commit` and `CommitUnacknowledged` to
`Deliver` or `Pass`, `TransactionFails` and a kill after the write of the pointer
and the catch block to `Pass`, everything else to a stutter.

The queue of the loop is proved in the same module, for every set of items,
capacity, length of a push and size from which the buffer shrinks:

- `WindowKept`: `[]WindowHolds`.
- `IsFifo`: `Spec => ImplementsFifo`, the refinement of `Fifo`.

`WindowHolds` alone does not say where a push writes. `BufferInv` adds the types and
that the tail is the slot behind the last item (`TailFollows`), and counts slots
from the head (`WindowOK`). Each call is described once by what it leaves in the
slots so counted (`PushedSlots`, `PoppedSlots`), whether or not the buffer grew,
shrank or wrapped; the invariant and the refinement both follow from that. The
refinement maps the buffer to its items in order (`Contents`), a push to an
append, a pop to the removal of the head.

`PricingProofs`, for every source, set of chains, granularity, proximity, range,
lag and bound:

- `PriceNear`: `[]PriceIsNear`.
- `SearchIsFloor`: `[]SearchFindsFloor`, for tables of any length.
- `CloserIsMissed`: in every table where the next row after a time is closer than
  all rows up to it, and one of those is near, the search gives one of the latter.

The invariant says of every row of the cache and of every row under way
(`RowIsSound`) that its price was quoted between a range and the lag before the
time it is stored under and a range after. The look-up of one price searches
rows that all lie at or before the event, so the search ends at the last row
(`SearchGivesRow`) and the distances add up once; what is found is not stored
again, so they do not add up further. For any other table the search is a
recursive function of the range that is left. `OneSearch` shows that at most one
function satisfies its equation, by the least length on which two could differ;
`EndsSearches` gives one that does, in closed form: the last row at or before
the time, if the range brackets it. The two together say what the search finds,
without an induction theorem.

`ServiceProofs`, for every finite set of chains, of documents and of writes to
the price cache, and every positive number of connections, tries and gateways
(the names of the roles differ):

- `TypeCorrect`: `[]TypeOK`.
- `ConnectionsKept`: `[]ConnectionsAccounted`.
- `NoDeadlockOfPool`: `[]NoCircularWait`.
- `PoolEndsUnused`: `[]PoolEndsIdle`.
- `NullEarned`: `[]NullIsEarned`.
- `DeadLoopStays`: no step but the end of the process touches a loop that has thrown
  or the events of its chain.

`IInv` has six parts. `PoolOK`: nobody waits while a connection is free.
`UseOK`: which labels of a loop or stages of a lookup a client of each role can
be at, and that an open transaction has its connection. `AwaitOK`: a loop leaves
`prefetch` and `handling` only when its lookups are back, and an ended pool has
only loops that are over; so the clients of an ended pool are writes to the price
cache, which no loop waits for and which `PoolEndsIdle` leaves out. `NullOK`: a
lookup counts the failures it has seen itself, so that the one that gives up has
seen all tries, whoever else looks the same document up meanwhile, and a null on
its way into a cache was found or earned so. `QueueOK` and `VarTypes` are types.
`ServeKeeps` says once what giving back and asking do to the pool; `LoopServe`,
`LookupServe` and `StartServe` turn it into what a step has to show: that whom it
asks for holds nothing already, and that its new label has a use for what it keeps;
`WriteServe` is the case of a write, which has no label. `NoDeadlockOfPool` is a
counting argument: if every holder waited for its pointer, holders would be transactions
of different chains, at most as many as there are chains, fewer than the
connections; but then nobody would wait.

`RetroactiveProofs`, for every log, set of ids and contracts, fetch limit, and
number of runs, each under the hypothesis `~Overlap`:

- `CatchesUp`: `[]HandledCaughtUp`.
- `ResumesFromCheckpoint`: `[]CheckpointCoversPrefix`.
- `RepeatsNothingElse`: `[]RepeatedOnlyIfExposed`.

The properties speak of what lies behind a checkpoint or a flag; `IInv` says how
it got there. `QueueOK`: between the position of an id and each event in its
queue no event of its contracts is left out. `LoopOK`: all up to that position
were attempted. `BehindOK`: the checkpoint is not past the position.
`TargetsOK`: the contracts of a run are those a later run would find.
`AppliedOK` gives for every stored event the reason why it is not handed out
again: it is behind a checkpoint, about to be, or its contract is marked.
Without `~Overlap` the pointer that ends the range moves during the run, and a
contract may be registered behind a checkpoint it shares (section 5), so the
theorems would be false.

`RegistryProofs`, for all sets of accounts, profiles, pools, documents and
attestations and any number of calls and losses:

- `NoRoleForgotten`: `[]PendingIsAwaited`.
- `PoolRoles`: `[]PoolRolesFollow`. `ProfileRoles`: `[]ProfileRolesSound`.
- `ProjectDocument`: `[]DocumentFollows`.
- `RegistrationFindsProfile`: `[]AnchorFindsProfile`.
- `AttestationsStored`: `[]AttestationsWhole`.
- `RevocationTakesAll`: the revocation of one member leaves its profile no member row.

The tables lag behind the contracts by the events in the feed. For each profile
or pool no event of which was lost, `IInv` says that there is a history: a value
before the feed and after each of its events, which starts where the tables are,
makes at each event the move the event records, and ends where the contract is
(`RolesBehind`, `OwnerBehind`, `DocumentBehind`, `VersionBehind`). A call of the
contracts lengthens the history at its end, a handler takes its first move; the
properties are the case of a feed that is empty, or the first move. That no
handler is refused needs the shape of the feed: `NothingBefore` the contracts
created it, `CreatedOnce` and before what builds on it, `RowsOfCreated` or
pending rows and never both, `ParkedOnce` so that a conversion inserts no role
twice, `Arrives`. `AttestationsBehind` is the same for one event per attestation.

`RoundsProofs`, for all chains, applications, donors and numbers of events and
losses, under `~Overlap`:

- `SharesAddUp`: `[]DistributedMatchesApplications`.
- `StatusArrives`: `[]StatusFollowsContract`.
- `StatisticsKept`: `[]StatsMatchDonations`, if also `Apart`: no two chains use
  the same position.

Both hypotheses stand for weaknesses of the code (section 5): with both
processes at work, one writes back what it read before the other's commit, and
a donation's id does not contain the chain. `ChainInv` says that one worker has
a chain's events (`OneReader`) and that what it read is what is stored
(`InHand`), that each share is paid by one event that finds it not stored
(`Shares`), and that for an undamaged application a run of statuses over the
feed leads from what is stored to the contract (`StatusBehind`), so that none of
its events is refused. `DInv` adds that events come in the order of their
positions, after those of all stored donations (`Ordered`), so each has an id of
its own, and that the counts are those of the rows (`Stats`).

`PoolsProofs`, for every set of recipients and donors and any number of events,
failed attempts and losses (assumptions: a recipient, an address, is no number;
`Nil` is no row):

- `TypesHold`: `[]TypeOK`, the types and that the data loader has a handler for
  every change of the next event.
- `TimingsFollow`: `[]TimingsFollowContract`. `MatchFollows`:
  `[]MatchFollowsMetadata`. `FinalFollows`: `[]FinalFollowsContract`.
- `FundsCounted`: `[]FundsCountedOnce`. `TotalsMatch`: `[]TotalsMatchRows`.
- `ApplicationsFollow`: `[]ApplicationsFollowRecipients`.
- `Inductive`: `[]IInv`.

The properties speak of a round whose events are all handled; `IInv` says what is
missing in each column until then. The events passed over and those in the feed
are one queue `Q`. Of the events about a column the last one carries what the
contract has, and without such an event the table has it: `TimesOK`, `MatchOK`,
`FinalOK`, and `StatusOK` for each recipient by its number. Funds and payments
run from the table's value over the queue to the contract's (`FundsOK`,
`SharesOK`). Times are harder, as the handler of the creation reads them from the
contract and not from the event: `StoredOK` says that a row or a half already
read is what the contract has, unless an event with other times comes after the
creation. `CreationOK` and `Arrives` give the shape of the queue: only times and
funds before the creation, a registration before what builds on it; so what a
handler refuses is of no use or was damaged before (`RefusedBefore`,
`RefusedMissing`). What the changesets of an event do to the tables is worked out
once per type of event (`EffectCreated` to `EffectDirect`, over `ApplyChanges`);
each step is then one of three: the contract announces an event at the end of the
queue (`AnnouncedKeeps`), an event is taken out (`TakenKeeps`), or only what a
build reads and stores changes (`QuietKeeps`). An event taken need not be the
first of `Q`: Allo events overtake strategy events that were passed over.

`DeployProofs`, for every runbook made of the commands the workflows and scripts
take (`Runbook \in Seq(Commands)`), every number of events, sizes of both batches,
places at which the connection to Hasura may fail, and bound on slips:

- `EventsApplied`: `[]AppliedFromStart`.
- `CopyComplete`: `[]CopyFollowsSource`.
- `ContractTimes`: `[]TimesFromContract`.
- `ApiWhole`: `[]ApiComplete`.
- `CopyMayMiss`: one new row, written before the first batch is read, can put a row
  that was counted out of all batches.
- `Inductive`: `[]IInv`.

The runbook is any, so nothing may rest on the order of its commands. `InHand`:
the event a service works on follows the pointer, unless the tables were created
under it, the event of an open transaction is the one at the pointer, and tables
that do not exist hold nothing; so the pointer moves over an event only into an
open transaction or with its report, and whatever ends the transaction records
what became of the event (`Fits`, `EndStands`). `NullsBlind`: a null among the times,
stored or in the buffer of a copy, is from a bootstrap without the handler.
`CopyStands`: as long as no write moves a row of the source, the rows that were
counted are its first ones, and those before the offset are in the target or in
the buffer; that is what `touched` stands for, and without it the property is
false, as `CopyMayMiss` shows. Services write to both tables meanwhile; that a write keeps
every row of the target, and those of the source where they are unless the copy
is touched, is said once (`WrittenKeeps`, `LookedKeeps`, `ServiceKeepsRows`). A
table is a function built row by row; what it leaves out and what it keeps
(`Without`) is worked out by the least row that would be wrong. The commands of the
operator come down to six kinds (`Deploys`, `Migrates`, `Resets`, `Fills`,
`Starts`, `Configures`). For the API, `StepsListed` gives what the list of steps
contains and `NamesDiffer` that no two relations of a table have one name, so that
over a whole database no step is refused (`NoneRefused`).

The proof of `CopyComplete` brought out a mistake in the model: with batches of
more than one row, the last one was read past the end of the table, which batches
of one in the run had hidden.

Every invariant and every safety property of a step that a run checks is also
proved. Only model-checked is liveness (`EveryEventPassed`, `RunEnds`,
`ShutdownCompletes`, `CatchesUp`), which is out of the prover's
reach. Under `Overlap`, and without `Apart`, the properties named above do not
hold (section 5); neither the runs nor the theorems claim them there.

## 5. Findings

Where the code does not do what a text of the repository says, and it takes a
behaviour of several steps to see it, there is a run that TLC finds violated:

1. `data-flow/registries/event/dbEventRegistry.ts:25`, run `orchestrator_crash`. The
   pointer is written outside the transaction, before the commit. After a kill or a
   refused commit in between, the event counts as processed and its changes are
   lost; the interface promises to resume after the last processed event.
2. `data-flow/orchestrator.ts:299`, run `pools_ignored`. The error of an event about
   times that comes before its pool is ignored, since the handler of the pool reads
   the times from the chain; that of the simple direct grants does not, and its
   rounds have no times until the next change.
3. `data-flow/retroactiveProcessor.ts:243`, run `retroactive_crash`. The checkpoint is
   written after the transaction of its event and outside of it, so an event is
   stored again after a kill in between; the comment of the class (line 60) says
   "Ensure exactly-once processing semantics". `RepeatedOnlyIfExposed` is how far the
   checkpoints do go.

Where one step or one operator shows it, it is a theorem, for all values of the
constants:

4. `repository/kysely/repositories/project.repository.ts:165`, `RevocationTakesAll`. The
   condition on the address is dropped: revoking one member of a profile deletes all
   of them.
5. `pricing/providers/cachingProxy.provider.ts:219`, `CloserIsMissed`. The search gives
   the last row at or before a time, also when the next one is closer; the comments
   of `getTokenPrices` (line 94) and of `findClosestPrice` (lines 173 and 176) say the
   closest price, the one at the last line of the search "Return the floor value".
   `SearchFindsFloor` shows that it is right by the latter.
6. `data-flow/orchestrator.ts:207`, `DeadLoopStays`. When the catch block cannot write
   the pointer, `run` rejects; `allSettled` swallows that, nobody is notified, and the
   chain stands still while the others go on. `processing.service.ts:124` says the
   processor runs until it is terminated.
7. `scripts/migrations/src/copyCache.script.ts:172`, `CopyMayMiss`. The copy pages
   through a table without `ORDER BY`, in statements of their own, while the service
   writes to it; a row that is inserted or updated in front of the page the copy is at
   pushes one that was counted over the end, and the script logs (line 257) that it
   has copied the data.

Known weaknesses that the models allow and their properties name as exceptions,
without a run of their own:

- `orchestrator.ts:206`: a signal before an attempt makes the retry handler
  throw; the catch block records the event although it was never processed, and
  the next start goes past it. `LossIsReported` counts it as reported.
- `orchestrator.ts:289`: the filter for timestamps announced before their pool
  looks at the events of the current batch only, so the end of a batch inside a
  block has a harmless error reported.
- `orchestrator.ts:332`: the comment says the caches are cleared for each batch;
  the call is of an optional method no cache has, so they never are
  (`ClearCache`).
- `retroactiveProcessor.ts:318`: the event at the end of the range is fetched and
  not processed, and the contract marked as handled.
- With the live loop running next to the retroactive process, an event both
  reach is stored by both, and events of an application whose registration the
  process has not stored yet are refused by the live loop, given up and never
  repeated (`StatusFollowsContract` with `Overlap = TRUE`). A contract registered
  between the search and the reading of the pointer has events behind the
  checkpoint it will share with the others of its strategy id.
- The retroactive process refuses a registration made under a former anchor of a
  profile, as the row has only the present one.
- `processors/strategy/helpers/allocated.ts:7`: the id of a donation does not
  contain the chain: a second donation with the block number and log index of one
  on another chain is counted and not recorded.
- `strategy_timings` is keyed by the address of the strategy alone, so a strategy
  with the same address on another chain gets the times of the first.
- A document no gateway had is null in the cache table for good. The first
  gateway that answers with content that is not JSON ends the try, and the
  gateways after it are not asked. A body that is JSON `null` passes the test at
  `publicGateway.provider.ts:41` and is cached as a missing document at once, for
  good (`NullIsEarned` counts it as earned). An empty list of gateways passes the
  schema of the environment and makes the constructor throw.
- Writes to the price cache that are under way at a shutdown are lost with the pool;
  nothing waits for them, and they are made again when the price is next asked for.
- `InMemoryPricingCache.set` never stores.
- `processRetroactiveEvents` is not called by `main`; the process is a script.
- Deployment: nothing refuses a promotion of a colour that is not deployed;
  running the first deployment again switches back to green alone; a failed
  configuration leaves the API half configured until it is run again. The
  service keeps the registry of strategies in memory when the cache tables are
  reset, and `strategies_registry` is not among the tables copied.
  An event a service holds while its tables are created anew is recorded in the
  new ones, and those before it are left out; the order of the runbook, which
  resets before it migrates, leaves a service no tables in between.

## 6. What is not modelled

- Chain providers, indexer client, notifier, logger: calls without state. Their
  outcomes are the failures of the models above.
- The processor that migrates projects of Allo v1: one insertion into a table
  nothing reads.
- The Envio application: registrations with a framework that stores the raw
  events, which are the environment here. Its handlers for dynamic contracts
  only choose which contracts are followed.
- Networking, storage, load balancers, and the test harness.
- Conversions of amounts, texts, addresses and dates: opaque, or absent. Table
  data of the shared package (tokens, ABIs) is data.
- In `Service`, what a price is (`Pricing` has that) and all but one of the queries
  a handler makes one after the other.
- In `Deploy`, all but one of the chains of a service (the rest is in `Settle`),
  two tasks of one chain during a rolling restart, several schemas in one database,
  and failures of lookups and of handlers other than for want of a table or a
  round, which are in the other modules. The writes of one prefetch or one handler
  are one step there, and a bootstrap's too, so that a page of a copy does not fall
  between them.
- The retroactive process next to a running live loop: `Overlap` is in `Retroactive`
  and `Rounds`, and every run and theorem is about `Overlap = FALSE`.

## 7. The plan

Done, in this order: `EventLedger` and `Orchestrator` with proofs;
`Retroactive`; `Fifo` and `Queue`; `Roles`; `Rounds`; `Pricing` with a proof;
`Pools`; `Service` with proofs; `Hasura` and `Deploy`; `Registry`.

Then proofs for `Queue`, `Retroactive`, `Registry` with `Roles`, `Rounds`, the
search of `Pricing`, `Pools`, and `Deploy` with `Hasura`. No theorem of the plan
is left.

Next models, should the code grow: the two tasks of a rolling restart in
`Deploy` over the pointer of `Orchestrator`; the cache of strategies in memory
next to `Retroactive`, which marks contracts behind its back.
