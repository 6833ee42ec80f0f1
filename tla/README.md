# The wallet service in TLA+

This directory specifies the event-driven wallet service of this repository
(NestJS, TypeORM, PostgreSQL, Redis, RabbitMQ), model-checks the specifications
with TLC on small instances, and proves with TLAPS, for every value of the constants,
each safety property that a passing run checks, and both refinements. All paths below start at the
root of the repository; `wallet.service.ts` stands for
`src/modules/wallet/wallet.service.ts`, and so on.

    tlc -config WalletLedger_commands.cfg MCWalletLedger    # one run of the table below
    tlapm WalletLedgerProofs.tla                            # the proofs of one module (section 5)

## 1. The system

An API process accepts commands over HTTP, changes PostgreSQL in transactions and
publishes events to RabbitMQ through an outbox; a worker process consumes them.
Several instances of both may run. Inside a process Node runs one callback at a
time, so that code between two awaits is indivisible and everything else
interleaves; between processes only PostgreSQL's locks and constraints order
anything.

| component | state | operations | interacts with |
| --- | --- | --- | --- |
| write path, `wallet.service.ts` | `wallets`, `wallet_events`, `transfers`, `outbox_messages`; row locks; pooled connections | `deposit`, `withdraw`, `transfer`, `compensateTransfer`; helpers `lockWallet`, `enqueueOutbox`, `normalizeAmount`, `orderWalletIds` | called by the controller; feeds the outbox |
| idempotency, `idempotency.service.ts`, `wallet.controller.ts`, `idempotency-cleanup.service.ts` | `idempotency_keys` | `get`, `begin`, `finalize`, hourly `cleanupExpired` | wraps every command of the controller |
| outbox publisher, `outbox-publisher.service.ts` | `outbox_messages`; row locks; pooled connections; the batch in memory | a timer starts `publishPending` every second | reads what the write path commits; sends to RabbitMQ |
| event consumer, `wallet-events-consumer.service.ts`, `rmq.consumer.ts`, `rabbitmq.strategy.ts` | `wallet_analytics`, `consumed_events`; unacknowledged deliveries | `handleEvent`; ack or nack | receives what the publisher sends, copies included |
| read path, `wallet.service.ts`, `wallet.controller.ts` | none of its own | `getBalance`, `getHistory` | reads the write path's tables without locks |
| balance cache, `redis-cache.service.ts` | cache entries with a time to live | `wrap`, `get`, `set` | called by `getBalance` only; no command invalidates it |
| event pipeline, `rabbitmq.config.ts`, `rmq.module.ts`, `main-listener.ts` | a durable queue of non-persistent messages, outside this repository | accept, deliver, acknowledge, dead-letter, restart | joins the publisher to the worker |
| validation (DTOs), configuration, health | none of their own | | static |

What is hard in each of them, and what makes it correct:

* **Write path.** A balance is read under a row lock and written several awaits
  later; a wallet is created on demand by whoever needs it first (`INSERT ... ON
  CONFLICT DO NOTHING`, which neither sees nor waits like a `SELECT`); a transfer
  locks two rows; a transfer that fails rolls back and compensates in a second
  transaction, on a second connection, before the first one is released; a COMMIT
  may take effect and its answer be lost. It is correct when each command takes
  effect in one step or not at all, with its events and outbox messages, when
  balances follow from the log, and when every request ends.
* **Idempotency.** Four separate statements around the command, and TypeORM's
  `save()` which is itself a SELECT followed by an INSERT or an UPDATE of the
  columns that differ. Any of these may take effect and its reply be lost, the HTTP
  response included. A deposit or withdrawal that fails throws; a transfer that fails
  mostly *returns*, with the status `failed`, and is completed and answered 200 like a
  success. It is correct when a key pays at most once, and when every response given
  is that of a command with the same key and payload, and true.
* **Outbox publisher.** Cycles overlap; a message is claimed, sent and marked in
  three steps, the last two outside the transaction that claimed it; each cycle
  holds one connection and needs a second. It is correct when no message is marked
  published that was not sent, none is given up early, and each is settled.
* **Event consumer.** Deduplication, analytics and ack share no transaction, up to
  `RABBITMQ_PREFETCH` deliveries are handled together, and the broker redelivers.
  It is correct when each event is counted exactly once and no message is lost.
* **Read path and cache.** A reader that misses the cache selects, then stores, with
  commits and other readers in between; a client that pages through a history shares
  it with commands that commit, and `createdAt`, the only order of the pages, is the
  time at which a transaction *began*. It is correct when what is served was true a
  bounded time ago, does not go back, and when pages neither skip nor repeat rows.
* **Event pipeline.** Each side is at-least-once on its own; together, retries of the
  one, redeliveries of the other, restarts of the broker and replays of dead letters
  multiply. It is correct when a committed event is processed, or is abandoned in one
  of the ways that leave a trace, and when its effects stay bounded.

`PROJECT.json` lists every hazard at its line with the properties that catch it.

## 2. The modules

| module | what it is |
| --- | --- |
| `Money` | amounts: the positivity test of `normalizeAmount`, made before rounding, and the rounding to four decimals |
| `WalletTypes` | rows of the schema as sets of records, and the constants shared by `Ledger` and `WalletLedger` |
| `Ledger` | abstract specification: each command is one indivisible step that writes balances, events, outbox and transfers together, at most once per request |
| `WalletLedger` | the write path statement by statement; refines `Ledger` |
| `WalletAudit` | properties of `WalletLedger` that add up amounts |
| `WalletLedgerProofs` | theorems about `WalletLedger`: locks, reads, outbox, answers |
| `WalletAuditProofs` | that `WalletLedger` implements `Ledger`, and theorems about `WalletAudit` |
| `SumTheorems` | lemmas about sums over finite sets, for the two modules that add up |
| `KeyedOutcomes` | abstract specification: under one key one command runs to an outcome, paid or failed; it may be lost on its client, and whoever is told an outcome is told that one |
| `Idempotency` | the key protocol around a command that is one step, as `WalletLedger` justifies; refines `KeyedOutcomes` for keys that are used serially |
| `OutboxPublisher` | overlapping publishing cycles |
| `EventConsumer` | the worker |
| `EventPipeline` | `OutboxPublisher` and `EventConsumer` (`INSTANCE ... WITH`), joined by a queue whose broker may restart |
| `ReadClients` | the clients of the two read endpoints |
| `BalanceCache` | `getBalance` and the cache, over the balances of `Ledger` |
| `History` | `getHistory`, over the events of `Ledger` |
| `ReadPath` | both beside the commands of `Ledger`; as `WalletLedger` implements `Ledger`, and a read takes no lock, a command may be the single step that readers see |
| `IdempotencyProofs`, `OutboxPublisherProofs`, `EventConsumerProofs`, `EventPipelineProofs`, `ReadPathProofs` | theorems about the module of that name |
| `MC...` | instances for TLC |

An operator called `Mut...` stands before the definition it is a faulty variant
of. The specifications never use it: each is there so that a reader can replace
the definition by it and see which property notices.

### WalletLedger

`pc[r]` is the await at which the handler of request `r` is:

| `pc` | code in `wallet.service.ts` | actions |
| --- | --- | --- |
| `idle` | entry, `normalizeAmount`, the same-wallet test | `Refuse`, `Accept` |
| `connect` | `createQueryRunner`, `connect`, `startTransaction` | `Connect`, `BeginFails` |
| `find`, `insert`, `refind` | the three statements of `lockWallet`, for the first and second wallet (`nth`) | `ReadLocked`, `Miss`, `Insert` |
| `work` | the body of `deposit`, `withdraw`, `compensateTransfer`, and of `transfer` up to saving the row as `initiated` | `Deposit`, `Withdraw`, `Compensate`, `InitiateTransfer` |
| `move` | debit, credit, transfer row, events | `MoveFunds` |
| `commit` | `commitTransaction` | `Commit`, `LoseAnswer` |
| `abort` | the catch block | `Rollback` |
| `release` | the finally block | `Release` |
| `done` | answered | |

Rows inserted or saved by a transaction are private, in `tx[r]` and `locked[r]`,
until `WriteBack` at the commit. Statements of one body between two lock waits are
one action, because nothing another request does can be seen by them or depend on
them; a failure in the middle is still covered, as `Fail` may strike at `move` and
`commit`, after some or all rows were saved.

* PostgreSQL is READ COMMITTED. `SELECT ... FOR UPDATE` waits for the lock of a row
  it sees and then reads the last committed version; a row that another
  transaction has inserted and not committed is invisible to it (`Miss`), while
  `INSERT ... ON CONFLICT DO NOTHING` waits for that transaction (`Insert`).
* `phase` separates the transaction of the command from the one of
  `compensateTransfer`. `return this.compensateTransfer(...)` is not awaited in the
  catch block, so the finally block may run, and give the first connection back,
  before, during or after the compensation (`MayRelease`). A compensation that fails is
  not compensated in turn; if it were (`MutRollback`), one that keeps failing, for want
  of capacity say, would go on for ever, which `EveryRequestEnds` notices. The pool is
  modelled for the write path alone. In one process the publisher, the readers and the
  statements on `idempotency_keys` take connections from the same pool; `OutboxPublisher`
  models its share on its own, and the short borrowings of the others are left out.
* `compensateTransfer` looks for a debited row by wallets and amount, not by
  request (`Compensable`). No code path commits a row as `debited`; one that is
  there at the start, as the repository's test seeds it
  (`src/tests/wallet.service.spec.ts:179`), is compensated at most once and by
  whichever failing transfer asks first.
* PostgreSQL's deadlock detector is left out: `WaitersClimb` shows that no cycle
  ever closes, so that it never has anything to do.
* Statuses and amounts obey the CHECK constraints of the entities: an update that
  would break one throws. `MaxBalance` is the capacity of `numeric(20, 4)`.
* An amount is positive before it is rounded, not after: `0.00004` passes
  `normalizeAmount`, and a deposit or withdrawal of it commits an event of amount 0;
  a transfer of it is stopped by the CHECK on `transfers`. `AmountsAsAsked` states
  just this.
* `startTransaction` stands before the try block, so a BEGIN that fails on a live
  connection leaves the runner unreleased (`BeginFails`): `held` keeps the connection
  for good. As many such failures as the pool has connections stop the service;
  `EveryRequestEnds` holds while one is left for the requests that still run.

### Idempotency

`pc[q]` is the await at which the handler of request `q` is:

| `pc` | code | actions |
| --- | --- | --- |
| `idle` | the client has not sent it | `Receive` |
| `get` | `get` (`idempotency.service.ts:84`) | `Get`: another payload, the stored response, or on |
| `begin` | `begin`'s `findOne` (`:38`) | `Begin` |
| `select`, `write` | the two statements of `save()` (`:63`) | `SaveSelect`, `SaveWrite` |
| `command` | the call of `WalletService` | `Commit`, `FailTransfer`, `Reject` |
| `finalize` | the UPDATE of `finalize` (`:73`) | `Finalize` |
| `answer` | `res.status(200).json` (`wallet.controller.ts:72`, `167`) | `Answer` |
| `done` | answered, or lost | |

`SaveWrite` writes only the columns that differ from those selected, fails when the
row to insert exists by now (`Conflict`), and does nothing when the row to update is
gone. A command ends in one of three ways. `Commit` took effect. `Reject` threw, and
leaves the key `processing`. `FailTransfer` is the third: `transfer` catches what fails
and returns `compensateTransfer`'s result with the status `failed` and no effect
(`wallet.service.ts:267-269`, `387-397`), and the handler completes the key, answers 200
and replays this to every retry. Only `Transfers`, a subset of the payload hashes (a
hash covers the path), fail in that way.

`Fault` ends a handler at any await. The statement it was at may have been carried out:
the row saved, the command committed, the row completed. At `answer` the row is
completed and only the response lost, so that the retry finds it. `Cleanup` deletes by
age, whatever the status.

`committed` and `failed` say what each command did, and `counted` which commands
returned or took effect under a key since its row was last cleaned up. `disturbed`
collects the requests that were in flight together with another one of their key, and
those whose row was cleaned up between their `save()` and their answer. All four are
history variables, used by properties only.

What an idempotency key promises depends on requests being handled one by one, and the
code does not see to it (section 4). The properties therefore speak of the
*undisturbed* requests of every key, next to whatever disturbed ones do there, and of
every request of `SerialKeys`: keys on which a client sends a request only after the
last one ended, and which live longer than a handler runs (`Free`). Of disturbed
requests on the other keys `TypeOK` and `AnswersHaveEffects` hold; that they may pay
twice is `idempotency_race`.

For serial keys `ImplementsOutcomes` maps `counted` to the outcome of `KeyedOutcomes`,
paid or failed, requests in flight to its open ones, those that are done to its ended
ones, and an answer to the outcome it tells, as what the client makes of it: that of a
command that failed or did not. A refused request may have taken effect (its answer was
lost, `PayUnheard`), or have been completed without its client hearing of it (`Run`, then
`Refuse`); but then a later success tells that outcome, and the cleanup forgets none
that is still being answered.

### OutboxPublisher

A cycle is `connect`, `select` (FOR UPDATE SKIP LOCKED, oldest first), `claim`
(attempts incremented, COMMIT), then per message `emit` and `mark`, then `release`.
`mark` is `dataSource.manager.update`: it needs a connection besides the one the
cycle keeps, and writes by id whatever the row has become. The length of the backoff
is abstracted to `BecomeDue`. `Crash` forgets batches and connections, not the table.
`BeginFails` loses a connection to the pool, as in the write path (`leaked`).

### EventConsumer

A delivery is `check`, the analytics transaction (`find`, `select`, `write`: its
`findOne` with a lock locks nothing where there is no row, and its `save()` selects
again), `mark`/`insert` into `consumed_events`, `ack` or `nack`. A nack does not
requeue. The broker is external: it delivers up to `Prefetch` messages, redelivers
what was in flight when the worker dies, and a copy that the publisher sent is a
message of its own. `Replay` is somebody moving a dead letter back to the queue.

### BalanceCache, History and ReadPath

A reader of a balance goes through `get`, `select` and `set` of `wrap`
(`redis-cache.service.ts:57-78`). A balance is represented by its `version`, the number
of commits that changed the wallet, and time by ticks: `lag` is for how many ticks an
entry, or a row just read, has been outdated. `raced` marks a fill that overlapped
another fill of the same entry, and `told` the newest version anybody was answered.
Redis is external; there is one store for all readers, as `cache.config.ts` asks for.
(Which store the installed version of the cache library makes of the option `store`,
and whether it takes `REDIS_TTL` for seconds or milliseconds, is not in this
repository; with a store per process the statements below hold for each process.)
`del` is called by nothing, so no entry ends before its time.

A history client asks for pages until one is short, each starting after the rows it
has received. `began` orders the transactions by `startTransaction`, which is what
`createdAt` holds; `Pages` is every answer that `ORDER BY createdAt DESC OFFSET LIMIT`
may give, rows with equal `createdAt` in any order, and in another one each time.
What the properties say is therefore what a client can rely on: an event that was
there at the beginning is skipped only when a row of the same command, equal in
`createdAt`, came twice instead; no command that commits meanwhile, not even one that
began long ago and waited for a lock, hides a row; repetitions come only from ties and
from newer commits. (Ties are real: a transfer writes three events of the sender with
one `createdAt`.)

### EventPipeline

A copy of a message is the message with a number; the broker has those that
`sent` counts and it has not lost. `Handle` lets the worker be delivered only such
copies. The queue is durable, but the client sets no `persistent` option
(`rabbitmq.config.ts:40-51`), so `BrokerRestart` loses every copy that nobody has
acknowledged, dead letters included. `NothingVanishes` and `AtLeastOnce` therefore
have an exception, `Abandoned`: the publisher gave up, the copy was dead-lettered, or
the broker lost it. The last leaves no trace: the row says `published`.

## 3. The runs

| run | instance | shows |
| --- | --- | --- |
| `wallet_commands` | 2 requests, ten commands, an existing and a missing wallet, one seeded debited transfer, pool of 2, 2 faults | all safety properties of the write path, `Implements` (refinement of `Ledger`), `EveryRequestEnds` |
| `wallet_debited_failure` (violation) | transfers, 1 fault | a failure after the debit leaves neither `TransferFailed` nor `TransferCompensated` |
| `idempotency_keys` | 3 requests, 2 payloads of which one is a transfer's, 2 faults, a serial key, and one with overlaps and a short time to live | rows stay whole; every response given is of its key and true, that of a command that took effect or of a transfer that failed and did not; undisturbed commands pay once a key, their response goes to equal payloads only and is what the store keeps for the others; on the serial key `ImplementsOutcomes` (refinement of `KeyedOutcomes`) |
| `idempotency_race` (violation) | 2 overlapping requests | both pay |
| `idempotency_stuck` (violation) | a retry after a command that threw | "already processing", while nothing is |
| `outbox_cycles` | 2 messages, 2 cycles, 4 connections of which one may leak, 2 attempts, 2 faults | nothing published unsent or failed early, copies bounded by attempts, every message settles for good |
| `outbox_starved` (violation) | 2 cycles, 2 connections | the cycles wait for each other's connection for ever |
| `consumer_events` | 4 messages of 3 events, prefetch 2, 1 fault, 1 replay; copies together or one after another; with and without an analytics row | nothing acked unprocessed, no update of a known wallet lost, effects bounded, every recorded total that reaches the threshold is flagged, every message settles |
| `consumer_redelivery` (violation) | a crash between analytics and `consumed_events` | an event is applied twice |
| `consumer_first_events` (violation) | the first two deposits of a wallet | one overwrites the other |
| `read_clients` | 2 clients of either endpoint, 2 commands, 2 wallets, time to live 2, fills of 1 tick, pages of 1 and 2 | balances lag by at most a fill and the time to live, catch up, and go back only by overlapping fills; what pages may skip and repeat |
| `pipeline_end_to_end` | 2 events, one cycle at a time, 2 attempts, up to 2 copies, prefetch 4, 1 fault of either end, 1 restart of the broker, 1 replay | nothing published vanishes but in the named ways, effects bounded by the attempts counted, every event is processed or abandoned |

Every property of a passing run has a mutant in `PROJECT.json`, a faulty variant of
one modelled definition under which the same run finds it violated.

### Why the bounds are enough

* **Write path.** Conflicts over one wallet, over its creation and over two wallets
  in opposite order involve two transactions; the initial state chooses any pair of
  commands out of `MCCommands`, which has every operation, both directions, a
  refused amount, a rounded one, one that rounds to nothing, and transfers that the
  funds or the capacity (`MaxBalance = 3`) do not allow. Wallet 2 does not exist at
  first. Two faults are enough for a failed transfer whose compensation fails too.
  Longer waiting chains and any number of wallets and requests are covered by the
  theorems.
* **Idempotency.** One request to leave a key in each state, lost at any await with or
  without the effect of its statement, another to retry it, and a third that overlaps
  either, has the other payload or retries once more; the initial state gives each
  request any key and payload. Two faults lose an answer and that of its retry. The
  requests are interchangeable, so they are a symmetry set (the run states no liveness
  property). More requests, keys and faults are covered by the theorems.
* **Outbox.** Two cycles are what overlaps; two messages make a batch with a
  rest; two attempts separate pending from failed. Every fault counter is a bound on
  the model, not on the code.
* **Consumer.** Two handlers are needed for each race, the third and fourth message
  bring a withdrawal under and one over the threshold and a copy. An event without
  analytics is in the pipeline's run.
* **Reads.** Two readers overlap, two commands make a balance outdated twice or put
  two commands' events into a history in either order of beginning and committing;
  a wallet that is paid by a transfer and pays one has tied rows.
* **Pipeline.** One publishing cycle at a time (`outbox_cycles` has the overlaps): a
  second copy comes from a send that failed after the broker accepted it, or from a
  crash before the mark, and may be handled while the first one is. `MaxCopies` is
  what `MaxAttempts` and one fault let the publisher send.

`MaxFaults` bounds injected faults, `MaxLeaks` failed BEGINs of the publisher,
`MaxReplays` replayed dead letters, `MaxRestarts` restarts of the broker, `FillTime`
the ticks a fill of the cache may take, and each request is served once (a retry is a
request of its own). No other bound appears in a guard.

### Fairness, and assumptions on the environment

* `WalletLedger!FairSpec` is weak fairness of each handler's own steps: Node runs the
  continuation of every await that has completed, PostgreSQL grants a lock that
  stays free, the pool a connection that stays free. Faults, and clients' accepting
  or refusing, have no fairness. Weak fairness suffices since no property depends on
  winning a lock that others take again and again: each request is served once.
* `OutboxPublisher!FairSpec`: the timer fires, backoffs pass, and each cycle's next
  step is taken when it stays possible.
* `EventConsumer!FairSpec`: the broker delivers and the worker goes on.
* `ReadPath!ReadFairSpec`: time passes, and a reader that has asked is answered. That
  commands commit, clients ask or pages are fetched is not assumed.
* `EventPipeline!FairSpec`: the fairness of both ends, and nothing of the broker but
  that it delivers.
* On `SerialKeys` clients do not send a second request before the first one ended,
  and a handler ends before its key is 48 hours old; a request that was lost has done in
  the database what it does before its client retries. `idempotency_race` is the first
  of these assumptions dropped, and on the other keys of `idempotency_keys` neither
  overlaps nor cleanups are restricted.
* Transactions of one wallet that begin do so at distinct times (`History!Begin`):
  `createdAt` has microseconds, and two instances that begin in the same one would add
  ties between commands to those within one.
* `SpacedCopies` says whether a copy may be delivered while the one before it is
  handled; `KnownWallets` which wallets may have an analytics row at the start. One
  behaviour of `consumer_events` has one choice of each, and `DuplicatesBounded` and
  `KnownTotalsExact` say what depends on them. `consumer_first_events` and
  `consumer_redelivery` show that without the choice the documents' claims fail.
* `outbox_cycles` has one connection more than cycles and leaks; `outbox_starved` shows
  why it needs one. It also says `CHECK_DEADLOCK FALSE`, because there the service does stop.

In the other runs deadlock is checked; `Quiet` is the state in which every request or
message is served and the service waits for more.

## 4. Where the code and its documents disagree

Each is a run of kind "violation"; `PROJECT.json` quotes both sides.

1. `wallet.service.ts:267`: compensation runs after the rollback and finds no debited
   row, so a transfer that failed after its debit emits neither event DESIGN.md
   promises. Money is not affected: the rollback has restored it.
2. `idempotency.service.ts:38`: `begin` does not exclude a concurrent `begin`.
3. `idempotency.service.ts:50`: a command that threw leaves its key `processing`.
4. `outbox-publisher.service.ts:97`: a cycle holds a connection while it waits for
   another one.
5. `wallet-events-consumer.service.ts:54`: analytics and `consumed_events` are
   committed apart.
6. `wallet-events-consumer.service.ts:72`: a lock on a row that is not there.

One more has no run of its own: DESIGN.md:23 and DESIGN.md:60 promise delivery at least
once, and the client publishes without `persistent` (`rabbitmq.config.ts:40-51`), so that
a restart of the broker may lose what is marked `published`. It is the action
`BrokerRestart` of `EventPipeline`, and `AtLeastOnce` says what is left: the promise for
all but what such a restart took, what was given up and what was dead-lettered.

## 5. What is proved

Every invariant and every action property of the passing runs is a theorem of its
specification, for all values of the constants that the named assumptions admit; what
is left to TLC alone is listed at the end. The 34 theorems, by module:

| theorem | property | inductive invariant |
| --- | --- | --- |
| `WalletLedgerProofs!TypeCorrect` | `TypeOK`, with no balance negative or above the capacity | `Shape` |
| `WalletLedgerProofs!MutualExclusion` | `LocksExclude` | `Shape` |
| `WalletLedgerProofs!LockOrder` | `WaitersClimb` | `Shape` |
| `WalletLedgerProofs!NoLostUpdate` | `ReadsStayCurrent` | `Fresh` |
| `WalletLedgerProofs!RefindSucceeds` | `RefindFinds` | `Fresh` |
| `WalletLedgerProofs!NoEventLost` | `OutboxComplete` | `Fresh` |
| `WalletLedgerProofs!AnswersTrue` | `AnswersAreTrue` | `Truth` |
| `WalletAuditProofs!LedgerImplemented` | `Implements`: refinement of `Ledger` | `Books` |
| `WalletAuditProofs!TransfersAreLogged` | `TransfersMatchLog` | `Books` |
| `WalletAuditProofs!AmountsRecorded` | `AmountsAsAsked` | `Books` |
| `WalletAuditProofs!TrailExplainsBalances` | `AuditTrail` | `Balanced` |
| `WalletAuditProofs!MoneyIsConserved` | `MoneyConserved` | `Balanced` |
| `IdempotencyProofs!TypeCorrect` | `TypeOK` | `Stored` |
| `IdempotencyProofs!SuccessIsReal` | `AnswersHaveEffects` | `Stored` |
| `IdempotencyProofs!PaidOnce` | `AtMostOnce` | `Keyed` |
| `IdempotencyProofs!OwnPayload` | `AnswersMatchPayload` | `Keyed` |
| `IdempotencyProofs!SameOutcome` | `OneOutcome` | `Keyed` |
| `IdempotencyProofs!KeysImplemented` | `ImplementsOutcomes`: refinement of `KeyedOutcomes` | `Keyed` |
| `OutboxPublisherProofs!TypeCorrect` | `TypeOK` | `Claims` |
| `OutboxPublisherProofs!PublishedIsSent` | `PublishedWasSent` | `Claims` |
| `OutboxPublisherProofs!FailedIsTried` | `FailedWasTried` | `Claims` |
| `OutboxPublisherProofs!CopiesBounded` | `CopiesAreCounted` | `Claims` |
| `EventConsumerProofs!TypeCorrect` | `TypeOK` | `Handling` |
| `EventConsumerProofs!AckIsApplied` | `AckedWasApplied` | `Handling` |
| `EventConsumerProofs!TotalsAreFlagged` | `FlagFollowsTotal` | `Handling` |
| `EventConsumerProofs!DuplicatesAreBounded` | `DuplicatesBounded` | `Handling` |
| `EventConsumerProofs!TotalsAreExact` | `KnownTotalsExact` | `Exact` |
| `ReadPathProofs!TypeCorrect` | `CacheTypeOK` | `Served` |
| `ReadPathProofs!LagIsBounded` | `LagBounded` | `Served` |
| `ReadPathProofs!BackOnlyByRace` | `GoesBackOnlyByRace` | `Served` |
| `ReadPathProofs!SkipsAreTies` | `SkippedOnlyByTies` | `Paged` |
| `ReadPathProofs!RepeatsAreCommits` | `RepeatedOnlyByCommits` | `Paged` |
| `EventPipelineProofs!NothingIsDropped` | `NothingVanishes` | `Ends` |
| `EventPipelineProofs!EffectsAreBounded` | `EffectsBounded` | `Ends` |

### The arguments

* **`Shape`** is `TypeOK`, `LocksExclude` and, for each request, `LockShape`: which
  wallets it has locked, as a function of `pc`, `nth` and its command. `TypeOK` alone
  is not inductive, since `MoveFunds` debits without testing the funds: that they were
  tested by `InitiateTransfer`, under a lock still held, is the last conjunct of
  `LockShape`. `WaitersClimb` then follows: a request that waits for a lock while it
  holds another is a transfer that holds the smaller of its two ids.
* **`Fresh`** adds `ReadShape`: what was read under a lock is what is committed, because
  only the holder of a wallet's lock changes it at its commit (`LocksExclude`); an
  unlocked wallet reads 0, which is also the balance of one without a row
  (`Rowless`), so that an insert keeps it; and each transaction's outbox messages are
  its events.
* **`Truth`** adds to `Shape`, for each request, `SavedShape`: the events that its
  transaction has saved as a function of `pc` and `phase`, and that none is committed
  before the request has its answer.
* **`Books`** is `Truth`, `Fresh` and `Accounts`. The step that takes effect in
  `Ledger` is the COMMIT, long after the balances it writes were read, so the invariant
  has to say what a transaction that waits for its COMMIT will do: `Prepared`, that it
  is one action of `Ledger` on the balances committed *now*. The shapes of transfer rows
  and events join it. Every other step, rollbacks and faults included, is a stutter.
* **`Balanced`** adds up. Once each step is known to be a step of `Ledger`, a commit
  changes one or two balances, and adds to the log events that are not in it, whose
  effects sum to the same change.
* **`Stored`** speaks of every request of every key: what a row stores and what a client
  is told is the response of a command of the key that returned, took effect or failed
  and not both, and whose handler is past `finalize` (`Stable`). A command's fate is
  sealed before its response is stored or told, and no later step, replay or fault
  changes it.
* **`Keyed`** adds what undisturbed requests rely on. `Apart`: handlers in flight
  together on a key are both disturbed, so that whoever moves disturbs no undisturbed
  one. `CalmShape`: past `begin` such a handler finds its row absent, then its own, then
  with its response. `KeyShape`: of what counts under a key one command at most is
  undisturbed, its payload is the row's, and beside it no handler is between `begin` and
  its answer. `ToldShape`: what was told of it is what the row stores. On `SerialKeys`
  nobody is disturbed, and `Keyed` gives all of it for every request.
  The refinement mapping of `ImplementsOutcomes` is then a case per statement, of which
  only the command, the answers and losses, `Receive` and `Cleanup` are steps of
  `KeyedOutcomes`; the rest, `Finalize` included, is invisible.
* **`Claims`** says what a cycle of the publisher has in memory (`BatchShape`): between
  the SELECT and the commit of the claim, rows that it alone has locked (`RowsExclude`)
  and whose count of attempts is one less than what it will write; after that, counts
  that the table has reached. A send therefore never outnumbers the attempts counted.
* **`Handling`** has parts that keep themselves once the state is well typed:
  `Acknowledged` (where a handler must have committed analytics), `Flags` (a row that a
  handler has selected keeps its flag, although `save()` writes single columns),
  `Together` (copies that come together have room for one count each a round, and a
  fault begins a round) and `OneByOne` (spaced copies: a round counts until it marks).
* **`Exact`** adds what a handler of a wallet that had its row holds: from `findOne` to
  the commit the row is locked, and the entity is that row with the event applied. The
  UPDATE of the columns that differ (`Written`) then adds the event's amount and no
  more, and the sums over `Of(t, w)` by as much (`CountOnce`). Without the row nothing
  is locked, which is the finding of `consumer_first_events`.
* **`Served`** is about the fills of the cache: readers that fill one entry together are
  all marked as racing; one that fills alone finds no entry until it stores its own; and
  an entry that did not race is at least as new as anything a client was answered.
  **`Paged`** says where a client of the history stands: the rows it received, those its
  offset has passed, and what explains every difference between the two.
* **`Ends`** is `Claims`, `Handling` and `Linked`. `EventPipelineProofs` takes both
  ends' proofs by `INSTANCE`; `SamePublisher` and `SameWorker` say that the
  actions the composition is made of are those the theorems are about, so that a step of
  one end is a stutter of the other, except for the counter of faults that they share.
  What joins them is `Linked`: the worker handles only copies that the publisher has had
  accepted, and `Fits`, which bounds the effects of all possible copies when the
  worker is alone, holds here of those that were sent.

Each action has a lemma of its own; frame lemmas (`OthersKeepShape`, `OthersKeepReads`,
`OthersKeepAnswers`, `HeldStep`, ...) say that those who do not move are not disturbed.

`SumTheorems` proves of the community modules' `SumFunctionOnSet` that it is additive,
whatever the order in which it CHOOSEs. It is defined by a recursive function, and the
induction theorems for finite sets are out of the provers' reach; the module uses
induction in a first-order form: among the subsets of a finite set for which a statement
fails there is one that includes no other of them (`Smallest`, from the
well-foundedness of inclusion in `FiniteSetTheorems`).

### What the theorems assume

Each module names its assumption (`WalletTypesAssumption`, `WalletLedgerAssumption`,
`WalletAuditAssumption`, `IdempotencyAssumption`, `OutboxAssumption`,
`ConsumerAssumption`, `ClientsAssumption`, `CacheAssumption`, `HistoryAssumption`,
`PipelineAssumption`), and TLC evaluates it in the runs of the module. They are typing,
and:

* Wallets and messages are natural numbers, standing for ids that `<=` orders and for
  the order of `createdAt`; seeded transfers have ids apart from those of requests,
  unique, and a positive amount (the CHECK on `transfers`).
* Wallets and seeded transfers (where amounts are added up), messages, events and
  publishing cycles are finite in number. Requests, clients, commands and keys need not be.
* No request is called `"none"`, the value that stands for no request.
* `RapidWithdrawal` is positive: with a threshold of 0 a wallet without withdrawals
  would have to be flagged, and `FlagFollowsTotal` is false at the start.

The theorems about read clients rest on `ReadSpec`, which composes the readers with the
commands of `Ledger`; that `WalletLedger` implements `Ledger` is `LedgerImplemented`. That
readers take no lock, and so see the committed state between two such steps, is part of
the model, not of a theorem.

### What is only model-checked

* Liveness: `EveryRequestEnds`, `Settled`, `EveryMessageSettles`, `AtLeastOnce` and
  `StaleEntriesGo`. Fairness needs ENABLED, which the provers do not handle.
* The violations of section 4: a counterexample is an instance.


## 6. What is not modelled

* Metadata of events, timestamps, routing keys, the length of the backoff.
* The channel between publisher and broker beyond "accepted or not": the library's
  buffering and reconnection. What it makes of a send is `Emit` or `EmitFails`.
* Messages without an event id, type or wallet, which the worker acknowledges unprocessed
  (`wallet-events-consumer.service.ts:33-36`, `67`, `90`): the outbox always sends the
  ids and `RmqConsumer` adds the type.
* A channel to the broker that is lost under a worker that lives: its handlers go on
  beside the redelivered messages and cannot acknowledge any more. `Crash` stops them.
* Double application as such is bounded, not excluded, by `DuplicatesBounded`: two copies
  handled together may both count. `FlagFollowsTotal` is about recorded totals: where a
  lost update of a wallet's first events leaves a total too small, the true one may stay
  unflagged.
* A restart of Redis (an empty cache, which `Aged` also leads to), `del`, `ping`.
* Offsets that a history client makes up, rather than those that paging leads to.
* Configuration, Swagger, throttling, health checks: static wiring or pure input and
  output. Validation of the form of a request (DTOs); of its result only the set of
  possible commands matters.

## 7. Plan

Done: every component that keeps state, its runs, and the safety theorems above. Next,
in this order:

1. The safety half of liveness: that a state in which nobody is served and nobody can
   move does not exist (a request that waits for a lock waits for one with a larger
   position in the order of ids, as `LockOrder` says of a single step; a cycle that waits
   for a connection leaves one to some other when the pool is larger than the cycles).
2. The worker's exact totals inside the pipeline, from `Exact` and `SameWorker`.
3. Shorter proofs: `WalletAuditProofs` and `ReadPathProofs` have lemmas about sets and
   cardinalities that could be shared.
